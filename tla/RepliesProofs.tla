---------------------------- MODULE RepliesProofs ---------------------------
(***************************************************************************)
(* Replies and the translators that make one of another, proved for any    *)
(* number of items and any pieces: how each frame of a dialect turns the   *)
(* reply its client has, and that what ToMessages and ToResponses make of  *)
(* chat chunks says what the chunks say, no more and no less.              *)
(*                                                                         *)
(* The argument: a list of frames is a road from one reply to another, and *)
(* roads are joined end to end. A translator's state is read against the   *)
(* reply at its own end of the road, which tells what it may emit next;    *)
(* and two replies are compared by their content, which is their text and  *)
(* the arguments of their calls by number.                                 *)
(***************************************************************************)
EXTENDS Exchange, TLAPS

-----------------------------------------------------------------------------
(***************************************************************************)
(* Tokens.                                                                 *)
(***************************************************************************)
(* Counting tokens.                                                        *)
Counts == [input : Nat, cached : Nat, output : Nat]
Usages == [input : Nat, cached : Nat, output : Nat, apart : BOOLEAN]

LEMMA DeductingKeeps ==
  ASSUME NEW u \in Usages, u.apart \/ u.cached <= u.input
  PROVE  UsageOf(UsageFrom(u)) = UsageOf(u)
<1>1. CASE u.apart
  BY <1>1 DEF UsageFrom
<1>2. CASE ~u.apart
  <2> DEFINE rest == IF u.input > u.cached THEN u.input - u.cached ELSE 0
  <2> DEFINE apart == u.cached > 0
  <2>1. UsageFrom(u) = [u EXCEPT !.input = rest, !.apart = apart]
    BY <1>2 DEF UsageFrom
  <2>2. rest \in Nat /\ apart \in BOOLEAN /\ (IF apart THEN rest + u.cached ELSE rest) = u.input
    BY <1>2 DEF Usages
  <2> HIDE DEF rest, apart
  <2>3. UsageFrom(u) = [input |-> rest, cached |-> u.cached, output |-> u.output, apart |-> apart]
    BY <2>1 DEF Usages
  <2>4. UsageOf(UsageFrom(u)) = [input |-> IF apart THEN rest + u.cached ELSE rest,
                                 cached |-> u.cached, output |-> u.output]
    BY <2>3 DEF UsageOf
  <2> QED BY <1>2, <2>2, <2>4 DEF UsageOf
<1> QED BY <1>1, <1>2

(* What is billed survives both conversions, for any numbers: cached       *)
(* tokens are neither counted twice nor lost when a usage changes from one *)
(* way of counting them to the other. A usage that has them in its input   *)
(* cannot have more of them than input.                                    *)
THEOREM BillsConvert ==
  ASSUME NEW u \in Usages, u.apart \/ u.cached <= u.input
  PROVE  /\ UsageOf(UsageFrom(u)) = UsageOf(u)
         /\ u.apart => /\ UsageOf(OpenaiUsageFromClaude(u)) = UsageOf(u)
                       /\ UsageOf(UsageFrom(OpenaiUsageFromClaude(u))) = UsageOf(u)
<1>1. ASSUME u.apart
      PROVE  /\ UsageOf(OpenaiUsageFromClaude(u)) = UsageOf(u)
             /\ UsageOf(UsageFrom(OpenaiUsageFromClaude(u))) = UsageOf(u)
  <2> DEFINE sum == u.input + u.cached
  <2> DEFINE v == OpenaiUsageFromClaude(u)
  <2>1. v = [u EXCEPT !.input = sum, !.apart = FALSE]
    BY DEF OpenaiUsageFromClaude
  <2>2. sum \in Nat /\ u.cached \in Nat /\ u.cached <= sum
    BY DEF Usages
  <2>3. UsageOf(u) = [input |-> sum, cached |-> u.cached, output |-> u.output]
    BY <1>1 DEF UsageOf
  <2> HIDE DEF sum, v
  <2>4. v = [input |-> sum, cached |-> u.cached, output |-> u.output, apart |-> FALSE]
    BY <2>1 DEF Usages
  <2>5. v \in Usages /\ v.cached <= v.input
    BY <2>2, <2>4 DEF Usages
  <2>6. UsageOf(v) = UsageOf(u)
    BY <2>3, <2>4 DEF UsageOf
  <2> QED BY <2>5, <2>6, DeductingKeeps DEF v
<1> QED BY <1>1, DeductingKeeps

(* The meter keeps the largest of what it is told, so that it matters      *)
(* neither in which order nor how often the frames of a reply bill it.     *)
LEMMA MergeIsMaximum ==
  ASSUME NEW a \in Counts, NEW b \in Counts, NEW c \in Counts
  PROVE  /\ MergeUsage(a, b) \in Counts
         /\ MergeUsage(a, a) = a
         /\ MergeUsage(a, b) = MergeUsage(b, a)
         /\ MergeUsage(MergeUsage(a, b), c) = MergeUsage(a, MergeUsage(b, c))
<1>1. \A x, y \in Nat : MaxOf(x, y) \in Nat /\ MaxOf(x, x) = x /\ MaxOf(x, y) = MaxOf(y, x)
  BY DEF MaxOf
<1>2. /\ a = [input |-> a.input, cached |-> a.cached, output |-> a.output]
      /\ a.input \in Nat /\ a.cached \in Nat /\ a.output \in Nat
      /\ b.input \in Nat /\ b.cached \in Nat /\ b.output \in Nat
      /\ c.input \in Nat /\ c.cached \in Nat /\ c.output \in Nat
  BY DEF Counts
<1>3. MergeUsage(a, b) \in Counts
  BY <1>1, <1>2 DEF MergeUsage, Counts
<1>4. MergeUsage(a, a) = a
  BY <1>1, <1>2 DEF MergeUsage
<1>5. MergeUsage(a, b) = MergeUsage(b, a)
  BY <1>1, <1>2 DEF MergeUsage
<1>6. MergeUsage(MergeUsage(a, b), c) = MergeUsage(a, MergeUsage(b, c))
  <2> DEFINE ab == MergeUsage(a, b)
  <2> DEFINE bc == MergeUsage(b, c)
  <2>1. /\ ab.input = MaxOf(a.input, b.input) /\ bc.input = MaxOf(b.input, c.input)
        /\ ab.cached = MaxOf(a.cached, b.cached) /\ bc.cached = MaxOf(b.cached, c.cached)
        /\ ab.output = MaxOf(a.output, b.output) /\ bc.output = MaxOf(b.output, c.output)
    BY DEF MergeUsage
  <2> HIDE DEF ab, bc
  <2>2. \A x, y, z \in Nat : MaxOf(MaxOf(x, y), z) = MaxOf(x, MaxOf(y, z))
    BY DEF MaxOf
  <2>3. MaxOf(ab.input, c.input) = MaxOf(a.input, bc.input)
    BY <1>2, <2>1, <2>2
  <2>4. MaxOf(ab.cached, c.cached) = MaxOf(a.cached, bc.cached)
    BY <1>2, <2>1, <2>2
  <2>5. MaxOf(ab.output, c.output) = MaxOf(a.output, bc.output)
    BY <1>2, <2>1, <2>2
  <2>6. MergeUsage(ab, c) = MergeUsage(a, bc)
    BY <2>3, <2>4, <2>5 DEF MergeUsage
  <2> QED BY <2>6 DEF ab, bc
<1> QED BY <1>3, <1>4, <1>5, <1>6

-----------------------------------------------------------------------------
(***************************************************************************)
(* What a list of items says: its text, and its calls in order.            *)
(***************************************************************************)
(* What an item of a reply is, and what the text and the calls of a list   *)
(* of items are, one item after the other.                                 *)
Parted(S) == \A x \in S : x.parts \in Seq(Nat)

SpokenStep(said, i) == IF i.kind = "text" THEN said \o i.parts ELSE said
CallsStep(calls, i) == IF i.kind = "call" THEN Append(calls, i) ELSE calls

SpokenFold == INSTANCE FoldProofs WITH op <- SpokenStep
CallsFold == INSTANCE FoldProofs WITH op <- CallsStep

LEMMA SpokenIsFold == ASSUME NEW items PROVE SpokenFold!Folded(<<>>, items) = Spoken(items)
BY DEF Spoken, SpokenStep, SpokenFold!Folded, SpokenFold!FoldLeft, FoldLeft,
       SpokenFold!MapThenFoldSet, MapThenFoldSet, Max, SpokenFold!Max

LEMMA CallsIsFold == ASSUME NEW items PROVE CallsFold!Folded(<<>>, items) = CallsOf(items)
BY DEF CallsOf, CallsStep, CallsFold!Folded, CallsFold!FoldLeft, FoldLeft,
       CallsFold!MapThenFoldSet, MapThenFoldSet, Max, CallsFold!Max

SpokenRun(items, h) ==
  /\ h \in [0..Len(items) -> Seq(Nat)]
  /\ h[0] = <<>> /\ h[Len(items)] = Spoken(items)
  /\ \A k \in 1..Len(items) :
       h[k] = IF items[k].kind = "text" THEN h[k - 1] \o items[k].parts ELSE h[k - 1]

CallsRun(S, items, h) ==
  /\ h \in [0..Len(items) -> Seq(S)]
  /\ h[0] = <<>> /\ h[Len(items)] = CallsOf(items)
  /\ \A k \in 1..Len(items) :
       h[k] = IF items[k].kind = "call" THEN Append(h[k - 1], items[k]) ELSE h[k - 1]

LEMMA SpokenRuns ==
  ASSUME NEW S, Parted(S), NEW items \in Seq(S)
  PROVE  \E h : SpokenRun(items, h)
<1>1. PICK h : SpokenFold!Unrolls(<<>>, items, Len(items), h)
  <2>1. Len(items) \in Nat /\ DOMAIN items = 1..Len(items)
    OBVIOUS
  <2>. QED
    BY <2>1, SpokenFold!Unrolled
<1>2. /\ h = [k \in 0..Len(items) |-> h[k]] /\ h[0] = <<>> /\ h[Len(items)] = Spoken(items)
      /\ \A k \in 1..Len(items) : h[k] = SpokenStep(h[k - 1], items[k])
  BY <1>1, SpokenIsFold DEF SpokenFold!Unrolls
<1>. DEFINE P == {n \in Nat : n <= Len(items) => h[n] \in Seq(Nat)}
<1>3. 0 \in P
  BY <1>2
<1>4. ASSUME NEW n \in Nat, n \in P PROVE n + 1 \in P
  <2>. SUFFICES ASSUME n + 1 <= Len(items) PROVE h[n + 1] \in Seq(Nat)
    OBVIOUS
  <2>1. n + 1 \in 1..Len(items) /\ (n + 1) - 1 = n /\ h[n] \in Seq(Nat) /\ items[n + 1] \in S
    BY <1>4
  <2>2. h[n + 1] = SpokenStep(h[n], items[n + 1])
    BY <1>2, <2>1
  <2>. QED
    BY <2>1, <2>2 DEF SpokenStep, Parted
<1>. HIDE DEF P
<1>5. Nat \subseteq P
  BY <1>3, <1>4, SpokenFold!Induction
<1>6. \A k \in 0..Len(items) : h[k] \in Seq(Nat)
  BY <1>5 DEF P
<1>7. h \in [0..Len(items) -> Seq(Nat)]
  BY <1>6, <1>2
<1>. QED
  BY <1>2, <1>7 DEF SpokenRun, SpokenStep

LEMMA CallsRuns ==
  ASSUME NEW S, NEW items \in Seq(S)
  PROVE  \E h : CallsRun(S, items, h)
<1>1. PICK h : CallsFold!Unrolls(<<>>, items, Len(items), h)
  <2>1. Len(items) \in Nat /\ DOMAIN items = 1..Len(items)
    OBVIOUS
  <2>. QED
    BY <2>1, CallsFold!Unrolled
<1>2. /\ h = [k \in 0..Len(items) |-> h[k]] /\ h[0] = <<>> /\ h[Len(items)] = CallsOf(items)
      /\ \A k \in 1..Len(items) : h[k] = CallsStep(h[k - 1], items[k])
  BY <1>1, CallsIsFold DEF CallsFold!Unrolls
<1>. DEFINE P == {n \in Nat : n <= Len(items) => h[n] \in Seq(S)}
<1>3. 0 \in P
  <2>1. <<>> \in Seq(S)
    OBVIOUS
  <2>. QED
    BY <1>2, <2>1
<1>4. ASSUME NEW n \in Nat, n \in P PROVE n + 1 \in P
  <2>. SUFFICES ASSUME n + 1 <= Len(items) PROVE h[n + 1] \in Seq(S)
    OBVIOUS
  <2>1. n + 1 \in 1..Len(items) /\ (n + 1) - 1 = n /\ h[n] \in Seq(S) /\ items[n + 1] \in S
    BY <1>4
  <2>2. h[n + 1] = CallsStep(h[n], items[n + 1])
    BY <1>2, <2>1
  <2>. QED
    BY <2>1, <2>2 DEF CallsStep
<1>. HIDE DEF P
<1>5. Nat \subseteq P
  BY <1>3, <1>4, CallsFold!Induction
<1>6. \A k \in 0..Len(items) : h[k] \in Seq(S)
  BY <1>5 DEF P
<1>7. h \in [0..Len(items) -> Seq(S)]
  BY <1>6, <1>2
<1>. QED
  BY <1>2, <1>7 DEF CallsRun, CallsStep

-----------------------------------------------------------------------------
(* Lists that have said the same.                                          *)
SameSpeech(x, y) == x.kind = y.kind /\ (x.kind = "text" => x.parts = y.parts)

(* Two lists that agree up to an item have spoken the same up to it. *)
LEMMA SpokenAlike ==
  ASSUME NEW S, NEW a \in Seq(S), NEW b \in Seq(S), NEW g, NEW h,
         SpokenRun(a, g), SpokenRun(b, h),
         NEW m \in Nat, m <= Len(a), m <= Len(b),
         \A k \in 1..m : SameSpeech(a[k], b[k])
  PROVE  \A k \in 0..m : g[k] = h[k]
<1>. DEFINE P == {k \in Nat : k <= m => g[k] = h[k]}
<1>1. 0 \in P
  BY DEF SpokenRun
<1>2. ASSUME NEW k \in Nat, k \in P PROVE k + 1 \in P
  <2>. SUFFICES ASSUME k + 1 <= m PROVE g[k + 1] = h[k + 1]
    OBVIOUS
  <2>1. /\ k + 1 \in 1..Len(a) /\ k + 1 \in 1..Len(b) /\ k + 1 \in 1..m /\ (k + 1) - 1 = k
        /\ g[k] = h[k] /\ SameSpeech(a[k + 1], b[k + 1])
    BY <1>2
  <2>. QED
    BY <2>1 DEF SpokenRun, SameSpeech
<1>. HIDE DEF P
<1>3. Nat \subseteq P
  BY <1>1, <1>2, SpokenFold!Induction
<1>. QED
  BY <1>3 DEF P

(* What follows and is not text adds nothing. *)
LEMMA SpokenQuiet ==
  ASSUME NEW S, NEW a \in Seq(S), NEW h, SpokenRun(a, h),
         NEW m \in 0..Len(a), \A k \in (m + 1)..Len(a) : a[k].kind # "text"
  PROVE  h[m] = Spoken(a)
<1>. DEFINE P == {k \in Nat : m + k <= Len(a) => h[m + k] = h[m]}
<1>1. 0 \in P
  OBVIOUS
<1>2. ASSUME NEW k \in Nat, k \in P PROVE k + 1 \in P
  <2>. SUFFICES ASSUME m + (k + 1) <= Len(a) PROVE h[m + (k + 1)] = h[m]
    OBVIOUS
  <2>1. /\ m + (k + 1) \in 1..Len(a) /\ m + (k + 1) \in (m + 1)..Len(a)
        /\ (m + (k + 1)) - 1 = m + k /\ h[m + k] = h[m]
    BY <1>2
  <2>. QED
    BY <2>1 DEF SpokenRun
<1>. HIDE DEF P
<1>3. Nat \subseteq P
  BY <1>1, <1>2, SpokenFold!Induction
<1>4. Len(a) - m \in Nat /\ m + (Len(a) - m) = Len(a)
  OBVIOUS
<1>5. Len(a) - m \in P
  BY <1>3, <1>4
<1>6. h[m + (Len(a) - m)] = h[m]
  BY <1>4, <1>5 DEF P
<1>. QED
  BY <1>4, <1>6 DEF SpokenRun

LEMMA SpokenTyped ==
  ASSUME NEW S, Parted(S), NEW a \in Seq(S)
  PROVE  Spoken(a) \in Seq(Nat)
BY SpokenRuns DEF SpokenRun

LEMMA CallsTyped ==
  ASSUME NEW S, NEW a \in Seq(S)
  PROVE  CallsOf(a) \in Seq(S)
BY CallsRuns DEF CallsRun

LEMMA NothingSaid == Spoken(<<>>) = <<>> /\ CallsOf(<<>>) = <<>>
<1>1. <<>> \in Seq({}) /\ Parted({}) /\ Len(<<>>) = 0
  BY DEF Parted
<1>2. Spoken(<<>>) = <<>>
  <2>1. PICK h : SpokenRun(<<>>, h)
    BY <1>1, SpokenRuns
  <2>. QED
    BY <1>1, <2>1 DEF SpokenRun
<1>3. CallsOf(<<>>) = <<>>
  <2>1. PICK h : CallsRun({}, <<>>, h)
    BY <1>1, CallsRuns
  <2>. QED
    BY <1>1, <2>1 DEF CallsRun
<1>. QED
  BY <1>2, <1>3

(* Lists of items of the same kinds and the same text speak the same text. *)
LEMMA SpokenSame ==
  ASSUME NEW S, Parted(S), NEW a \in Seq(S), NEW b \in Seq(S), Len(a) = Len(b),
         \A k \in 1..Len(a) : SameSpeech(a[k], b[k])
  PROVE  Spoken(a) = Spoken(b)
<1>1. PICK g : SpokenRun(a, g)
  BY SpokenRuns
<1>2. PICK h : SpokenRun(b, h)
  BY SpokenRuns
<1>3. Len(a) \in Nat /\ Len(a) \in 0..Len(a)
  OBVIOUS
<1>4. g[Len(a)] = h[Len(a)]
  BY <1>1, <1>2, <1>3, SpokenAlike
<1>. QED
  BY <1>1, <1>2, <1>4 DEF SpokenRun

(* A new item at the end. *)
LEMMA SpokenAppend ==
  ASSUME NEW S, Parted(S), NEW a \in Seq(S), NEW x \in S
  PROVE  Spoken(Append(a, x)) = IF x.kind = "text" THEN Spoken(a) \o x.parts ELSE Spoken(a)
<1>. DEFINE b == Append(a, x)
<1>0. b \in Seq(S) /\ Len(b) = Len(a) + 1 /\ b[Len(a) + 1] = x /\ \A k \in 1..Len(a) : b[k] = a[k]
  OBVIOUS
<1>. HIDE DEF b
<1>1. PICK g : SpokenRun(a, g)
  BY SpokenRuns
<1>2. PICK h : SpokenRun(b, h)
  BY <1>0, SpokenRuns
<1>3. Len(a) \in Nat /\ Len(a) \in 0..Len(a) /\ Len(a) <= Len(b) /\ \A k \in 1..Len(a) : SameSpeech(a[k], b[k])
  BY <1>0 DEF SameSpeech
<1>4. g[Len(a)] = h[Len(a)]
  BY <1>0, <1>1, <1>2, <1>3, SpokenAlike
<1>5. Len(a) + 1 \in 1..Len(b) /\ (Len(a) + 1) - 1 = Len(a)
  BY <1>0
<1>6. h[Len(a) + 1] = IF x.kind = "text" THEN h[Len(a)] \o x.parts ELSE h[Len(a)]
  BY <1>0, <1>2, <1>5 DEF SpokenRun
<1>7. Spoken(b) = h[Len(a) + 1] /\ Spoken(a) = g[Len(a)]
  BY <1>0, <1>1, <1>2 DEF SpokenRun
<1>. QED
  BY <1>4, <1>6, <1>7 DEF b

LEMMA Associates == \A s, t, u \in Seq(Nat) : s \o (t \o u) = (s \o t) \o u
OBVIOUS

(* The last text grows. *)
LEMMA SpokenExtend ==
  ASSUME NEW S, Parted(S), NEW a \in Seq(S), NEW b \in Seq(S), Len(a) = Len(b),
         NEW m \in 1..Len(a), a[m].kind = "text", b[m].kind = "text",
         NEW args \in Seq(Nat), b[m].parts = a[m].parts \o args,
         \A k \in 1..Len(a) : k # m => SameSpeech(a[k], b[k]),
         \A k \in (m + 1)..Len(a) : a[k].kind # "text"
  PROVE  Spoken(b) = Spoken(a) \o args
<1>1. PICK g : SpokenRun(a, g)
  BY SpokenRuns
<1>2. PICK h : SpokenRun(b, h)
  BY SpokenRuns
<1>3. /\ m - 1 \in Nat /\ m - 1 <= Len(a) /\ m - 1 <= Len(b) /\ m - 1 \in 0..(m - 1)
      /\ \A k \in 1..(m - 1) : SameSpeech(a[k], b[k])
  OBVIOUS
<1>4. g[m - 1] = h[m - 1]
  BY <1>1, <1>2, <1>3, SpokenAlike
<1>5. m \in 0..Len(a) /\ m \in 0..Len(b) /\ m - 1 \in 0..Len(a)
  OBVIOUS
<1>6. ASSUME NEW k \in (m + 1)..Len(b) PROVE b[k].kind # "text"
  <2>1. k \in 1..Len(a) /\ k # m /\ k \in (m + 1)..Len(a)
    OBVIOUS
  <2>. QED
    BY <2>1 DEF SameSpeech
<1>7. Spoken(a) = g[m] /\ Spoken(b) = h[m]
  BY <1>1, <1>2, <1>5, <1>6, SpokenQuiet
<1>8. g[m] = g[m - 1] \o a[m].parts /\ h[m] = h[m - 1] \o b[m].parts
  BY <1>1, <1>2 DEF SpokenRun
<1>9. g[m - 1] \in Seq(Nat)
  BY <1>1, <1>5 DEF SpokenRun
<1>10. a[m].parts \in Seq(Nat)
  <2>1. a[m] \in S
    OBVIOUS
  <2>. QED
    BY <2>1 DEF Parted
<1>11. g[m - 1] \o (a[m].parts \o args) = (g[m - 1] \o a[m].parts) \o args
  BY <1>9, <1>10, Associates, Zenon
<1>. QED
  BY <1>4, <1>7, <1>8, <1>11

-----------------------------------------------------------------------------
(* The calls of two lists of the same kinds are those of the same places. *)
Together(a, b, ca, cb, m) ==
  /\ Len(ca) = Len(cb)
  /\ \A r \in 1..Len(ca) : \E i \in 1..m : a[i].kind = "call" /\ ca[r] = a[i] /\ cb[r] = b[i]
  /\ \A i \in 1..m : a[i].kind = "call" => \E r \in 1..Len(ca) : ca[r] = a[i] /\ cb[r] = b[i]

LEMMA TogetherNext ==
  ASSUME NEW S, NEW a \in Seq(S), NEW b \in Seq(S), NEW m \in Nat,
         m + 1 \in 1..Len(a), m + 1 \in 1..Len(b), a[m + 1].kind = "call",
         NEW ca \in Seq(S), NEW cb \in Seq(S), Together(a, b, ca, cb, m)
  PROVE  Together(a, b, Append(ca, a[m + 1]), Append(cb, b[m + 1]), m + 1)
<1>. DEFINE x == a[m + 1]
<1>. DEFINE y == b[m + 1]
<1>. DEFINE da == Append(ca, x)
<1>. DEFINE db == Append(cb, y)
<1>1. x \in S /\ y \in S
  OBVIOUS
<1>2. /\ Len(da) = Len(ca) + 1 /\ Len(db) = Len(cb) + 1 /\ Len(ca) \in Nat
      /\ da[Len(ca) + 1] = x /\ \A r \in 1..Len(ca) : da[r] = ca[r]
      /\ db[Len(cb) + 1] = y /\ \A r \in 1..Len(cb) : db[r] = cb[r]
  BY <1>1
<1>3. x.kind = "call" /\ x = a[m + 1] /\ y = b[m + 1]
  OBVIOUS
<1>. HIDE DEF x, y, da, db
<1>4. Len(ca) = Len(cb)
  BY DEF Together
<1>5. ASSUME NEW r \in 1..Len(da)
      PROVE  \E i \in 1..(m + 1) : a[i].kind = "call" /\ da[r] = a[i] /\ db[r] = b[i]
  <2>1. CASE r = Len(ca) + 1
    <3>1. m + 1 \in 1..(m + 1)
      OBVIOUS
    <3>. QED
      BY <1>2, <1>3, <1>4, <2>1, <3>1
  <2>2. CASE r # Len(ca) + 1
    <3>1. r \in 1..Len(ca)
      BY <1>2, <2>2
    <3>2. PICK i \in 1..m : a[i].kind = "call" /\ ca[r] = a[i] /\ cb[r] = b[i]
      BY <3>1 DEF Together
    <3>3. i \in 1..(m + 1)
      OBVIOUS
    <3>. QED
      BY <1>2, <1>4, <3>1, <3>2, <3>3
  <2>. QED
    BY <2>1, <2>2
<1>6. ASSUME NEW i \in 1..(m + 1), a[i].kind = "call"
      PROVE  \E r \in 1..Len(da) : da[r] = a[i] /\ db[r] = b[i]
  <2>1. CASE i = m + 1
    <3>1. Len(ca) + 1 \in 1..Len(da)
      BY <1>2
    <3>. QED
      BY <1>2, <1>3, <1>4, <2>1, <3>1
  <2>2. CASE i # m + 1
    <3>1. i \in 1..m
      BY <2>2
    <3>2. PICK r \in 1..Len(ca) : ca[r] = a[i] /\ cb[r] = b[i]
      BY <1>6, <3>1 DEF Together
    <3>3. r \in 1..Len(da)
      BY <1>2
    <3>. QED
      BY <1>2, <1>4, <3>2, <3>3
  <2>. QED
    BY <2>1, <2>2
<1>7. Together(a, b, da, db, m + 1)
  BY <1>2, <1>4, <1>5, <1>6 DEF Together
<1>. QED
  BY <1>7 DEF x, y, da, db

LEMMA CallsTogether ==
  ASSUME NEW S, NEW a \in Seq(S), NEW b \in Seq(S), Len(a) = Len(b),
         \A k \in 1..Len(a) : a[k].kind = b[k].kind
  PROVE  Together(a, b, CallsOf(a), CallsOf(b), Len(a))
<1>1. PICK g : CallsRun(S, a, g)
  BY CallsRuns
<1>2. PICK h : CallsRun(S, b, h)
  BY CallsRuns
<1>. DEFINE P == {m \in Nat : m <= Len(a) => Together(a, b, g[m], h[m], m)}
<1>3. 0 \in P
  <2>1. g[0] = <<>> /\ h[0] = <<>> /\ Len(<<>>) = 0 /\ 1..0 = {}
    BY <1>1, <1>2 DEF CallsRun
  <2>2. Together(a, b, g[0], h[0], 0)
    BY <2>1 DEF Together
  <2>. QED
    BY <2>2
<1>4. ASSUME NEW m \in Nat, m \in P PROVE m + 1 \in P
  <2>. SUFFICES ASSUME m + 1 <= Len(a) PROVE Together(a, b, g[m + 1], h[m + 1], m + 1)
    OBVIOUS
  <2>1. /\ m + 1 \in 1..Len(a) /\ m + 1 \in 1..Len(b) /\ m \in 0..Len(a) /\ m \in 0..Len(b)
        /\ (m + 1) - 1 = m
    OBVIOUS
  <2>2. Together(a, b, g[m], h[m], m)
    BY <1>4, <2>1
  <2>3. g[m] \in Seq(S) /\ h[m] \in Seq(S)
    BY <1>1, <1>2, <2>1 DEF CallsRun
  <2>4. CASE a[m + 1].kind = "call"
    <3>1. g[m + 1] = Append(g[m], a[m + 1]) /\ h[m + 1] = Append(h[m], b[m + 1])
      BY <1>1, <1>2, <2>1, <2>4 DEF CallsRun
    <3>. QED
      BY <2>1, <2>2, <2>3, <2>4, <3>1, TogetherNext
  <2>5. CASE a[m + 1].kind # "call"
    <3>1. g[m + 1] = g[m] /\ h[m + 1] = h[m]
      BY <1>1, <1>2, <2>1, <2>5 DEF CallsRun
    <3>2. \A i \in 1..(m + 1) : i \in 1..m \/ i = m + 1
      OBVIOUS
    <3>3. \A i \in 1..m : i \in 1..(m + 1)
      OBVIOUS
    <3>. QED
      BY <2>2, <2>5, <3>1, <3>2, <3>3 DEF Together
  <2>. QED
    BY <2>4, <2>5
<1>. HIDE DEF P
<1>5. Nat \subseteq P
  BY <1>3, <1>4, SpokenFold!Induction
<1>6. Together(a, b, g[Len(a)], h[Len(a)], Len(a))
  BY <1>5 DEF P
<1>. QED
  BY <1>1, <1>2, <1>6 DEF CallsRun

LEMMA CallsAppend ==
  ASSUME NEW S, NEW a \in Seq(S), NEW x \in S
  PROVE  CallsOf(Append(a, x)) = IF x.kind = "call" THEN Append(CallsOf(a), x) ELSE CallsOf(a)
<1>. DEFINE b == Append(a, x)
<1>0. b \in Seq(S) /\ Len(b) = Len(a) + 1 /\ b[Len(a) + 1] = x /\ \A k \in 1..Len(a) : b[k] = a[k]
  OBVIOUS
<1>. HIDE DEF b
<1>1. PICK g : CallsRun(S, a, g)
  BY CallsRuns
<1>2. PICK h : CallsRun(S, b, h)
  BY <1>0, CallsRuns
<1>. DEFINE P == {k \in Nat : k <= Len(a) => g[k] = h[k]}
<1>3. 0 \in P
  BY <1>1, <1>2 DEF CallsRun
<1>4. ASSUME NEW k \in Nat, k \in P PROVE k + 1 \in P
  <2>. SUFFICES ASSUME k + 1 <= Len(a) PROVE g[k + 1] = h[k + 1]
    OBVIOUS
  <2>1. /\ k + 1 \in 1..Len(a) /\ k + 1 \in 1..Len(b) /\ (k + 1) - 1 = k /\ g[k] = h[k]
        /\ b[k + 1] = a[k + 1]
    BY <1>0, <1>4
  <2>. QED
    BY <1>1, <1>2, <2>1 DEF CallsRun
<1>. HIDE DEF P
<1>5. Nat \subseteq P
  BY <1>3, <1>4, SpokenFold!Induction
<1>6. g[Len(a)] = h[Len(a)]
  BY <1>5 DEF P
<1>7. Len(a) + 1 \in 1..Len(b) /\ (Len(a) + 1) - 1 = Len(a)
  BY <1>0
<1>8. h[Len(a) + 1] = IF x.kind = "call" THEN Append(h[Len(a)], x) ELSE h[Len(a)]
  BY <1>0, <1>2, <1>7 DEF CallsRun
<1>. QED
  BY <1>0, <1>1, <1>2, <1>6, <1>8 DEF CallsRun, b

-----------------------------------------------------------------------------
(***************************************************************************)
(* Replies, and the frames that make them.                                 *)
(***************************************************************************)
(* Items, and what extending and closing them changes.                     *)
Items == [at : Int, kind : {"text", "call"}, id : Nat, parts : Seq(Nat), open : BOOLEAN]

LEMMA ItemParts ==
  ASSUME NEW x \in Items
  PROVE  /\ x = [at |-> x.at, kind |-> x.kind, id |-> x.id, parts |-> x.parts, open |-> x.open]
         /\ x.at \in Int /\ x.kind \in {"text", "call"} /\ x.id \in Nat
         /\ x.parts \in Seq(Nat) /\ x.open \in BOOLEAN
BY DEF Items

LEMMA ItemMade ==
  ASSUME NEW at \in Int, NEW kind \in {"text", "call"}, NEW id \in Nat, NEW parts \in Seq(Nat),
         NEW open \in BOOLEAN
  PROVE  [at |-> at, kind |-> kind, id |-> id, parts |-> parts, open |-> open] \in Items
BY DEF Items

LEMMA ItemGrown ==
  ASSUME NEW x \in Items, NEW more \in Seq(Nat)
  PROVE  /\ [x EXCEPT !.parts = more] =
              [at |-> x.at, kind |-> x.kind, id |-> x.id, parts |-> more, open |-> x.open]
         /\ [x EXCEPT !.parts = more] \in Items
<1>1. /\ x = [at |-> x.at, kind |-> x.kind, id |-> x.id, parts |-> x.parts, open |-> x.open]
      /\ x.at \in Int /\ x.kind \in {"text", "call"} /\ x.id \in Nat /\ x.open \in BOOLEAN
  BY ItemParts
<1>2. [x EXCEPT !.parts = more] =
        [at |-> x.at, kind |-> x.kind, id |-> x.id, parts |-> more, open |-> x.open]
  BY <1>1
<1>3. [at |-> x.at, kind |-> x.kind, id |-> x.id, parts |-> more, open |-> x.open] \in Items
  BY <1>1 DEF Items
<1>. QED
  BY <1>2, <1>3

LEMMA ItemLonger ==
  ASSUME NEW x \in Items, NEW args \in Seq(Nat)
  PROVE  /\ [x EXCEPT !.parts = @ \o args] =
              [at |-> x.at, kind |-> x.kind, id |-> x.id, parts |-> x.parts \o args, open |-> x.open]
         /\ [x EXCEPT !.parts = @ \o args] \in Items
<1>. DEFINE more == x.parts \o args
<1>1. x.parts \in Seq(Nat)
  BY DEF Items
<1>2. more \in Seq(Nat)
  BY <1>1
<1>. HIDE DEF more
<1>3. /\ [x EXCEPT !.parts = more] =
           [at |-> x.at, kind |-> x.kind, id |-> x.id, parts |-> more, open |-> x.open]
      /\ [x EXCEPT !.parts = more] \in Items
  BY <1>2, ItemGrown
<1>. QED
  BY <1>3 DEF more

LEMMA ItemShut ==
  ASSUME NEW x \in Items, NEW y, y = [x EXCEPT !.open = FALSE]
  PROVE  /\ y = [at |-> x.at, kind |-> x.kind, id |-> x.id, parts |-> x.parts, open |-> FALSE]
         /\ y \in Items
<1>1. /\ x = [at |-> x.at, kind |-> x.kind, id |-> x.id, parts |-> x.parts, open |-> x.open]
      /\ x.at \in Int /\ x.kind \in {"text", "call"} /\ x.id \in Nat
      /\ x.parts \in Seq(Nat) /\ x.open \in BOOLEAN
  BY ItemParts
<1>4. y = [at |-> x.at, kind |-> x.kind, id |-> x.id, parts |-> x.parts, open |-> FALSE]
  BY <1>1
<1>5. y \in Items
  BY <1>1, <1>4 DEF Items
<1>. QED
  BY <1>4, <1>5

LEMMA Replaced ==
  ASSUME NEW items \in Seq(Items), NEW k \in 1..Len(items), NEW x \in Items
  PROVE  /\ [items EXCEPT ![k] = x] \in Seq(Items)
         /\ Len([items EXCEPT ![k] = x]) = Len(items)
         /\ [items EXCEPT ![k] = x][k] = x
         /\ \A i \in 1..Len(items) : i # k => [items EXCEPT ![k] = x][i] = items[i]
OBVIOUS

(* An item is longer, and nothing else has changed. *)
Longer(a, k, args, b) == b[k].parts = a[k].parts \o args

Else(a, k, b) ==
  /\ b \in Seq(Items) /\ Len(b) = Len(a)
  /\ \A i \in 1..Len(a) : i # k => b[i] = a[i]
  /\ \A i \in 1..Len(a) : /\ b[i].at = a[i].at /\ b[i].kind = a[i].kind
                           /\ b[i].id = a[i].id /\ b[i].open = a[i].open

LEMMA ExtendIs ==
  ASSUME NEW items \in Seq(Items), NEW k \in 1..Len(items), NEW args \in Seq(Nat)
  PROVE  /\ Longer(items, k, args, Extend(items, k, args))
         /\ Else(items, k, Extend(items, k, args))
<1>. DEFINE b == Extend(items, k, args)
<1>. DEFINE x == [items[k] EXCEPT !.parts = @ \o args]
<1>1. items[k] \in Items
  OBVIOUS
<1>2. /\ x = [at |-> items[k].at, kind |-> items[k].kind, id |-> items[k].id,
              parts |-> items[k].parts \o args, open |-> items[k].open]
      /\ x \in Items
  BY <1>1, ItemLonger
<1>3. b = [items EXCEPT ![k] = x]
  BY DEF Extend
<1>. HIDE DEF x, b
<1>. x \in Items
  BY <1>2
<1>4. /\ b \in Seq(Items) /\ Len(b) = Len(items) /\ b[k] = x
      /\ \A i \in 1..Len(items) : i # k => b[i] = items[i]
  BY <1>3
<1>5. /\ b[k].at = items[k].at /\ b[k].kind = items[k].kind /\ b[k].id = items[k].id
      /\ b[k].open = items[k].open /\ b[k].parts = items[k].parts \o args
  BY <1>2, <1>4
<1>6. Else(items, k, b)
  BY <1>4, <1>5 DEF Else
<1>7. Longer(items, k, args, b)
  BY <1>5 DEF Longer
<1>. QED
  BY <1>6, <1>7 DEF b

LEMMA ShutIs ==
  ASSUME NEW items \in Seq(Items), NEW k \in 1..Len(items), NEW b, b = Shut(items, k)
  PROVE  /\ b \in Seq(Items) /\ Len(b) = Len(items)
         /\ \A i \in 1..Len(items) : i # k => b[i] = items[i]
         /\ \A i \in 1..Len(items) : /\ b[i].at = items[i].at /\ b[i].kind = items[i].kind
                                      /\ b[i].id = items[i].id /\ b[i].parts = items[i].parts
         /\ ~b[k].open
<1>. DEFINE x == [items[k] EXCEPT !.open = FALSE]
<1>1. items[k] \in Items
  OBVIOUS
<1>2. /\ x = [at |-> items[k].at, kind |-> items[k].kind, id |-> items[k].id,
              parts |-> items[k].parts, open |-> FALSE]
      /\ x \in Items
  BY <1>1, ItemShut
<1>3. b = [items EXCEPT ![k] = x]
  BY DEF Shut
<1>. HIDE DEF x
<1>. x \in Items
  BY <1>2
<1>4. /\ b \in Seq(Items) /\ Len(b) = Len(items) /\ b[k] = x
      /\ \A i \in 1..Len(items) : i # k => b[i] = items[i]
  BY <1>3
<1>5. /\ b[k].at = items[k].at /\ b[k].kind = items[k].kind /\ b[k].id = items[k].id
      /\ b[k].parts = items[k].parts /\ ~b[k].open
  BY <1>2, <1>4
<1>. QED
  BY <1>4, <1>5

LEMMA AllShutIs ==
  ASSUME NEW items \in Seq(Items), NEW b, b = AllShut(items)
  PROVE  /\ b \in Seq(Items) /\ Len(b) = Len(items)
         /\ \A i \in 1..Len(items) :
              /\ b[i].at = items[i].at /\ b[i].kind = items[i].kind /\ b[i].id = items[i].id
              /\ b[i].parts = items[i].parts /\ ~b[i].open
<1>1. ASSUME NEW i \in 1..Len(items)
      PROVE  /\ [items[i] EXCEPT !.open = FALSE] =
                  [at |-> items[i].at, kind |-> items[i].kind, id |-> items[i].id,
                   parts |-> items[i].parts, open |-> FALSE]
             /\ [items[i] EXCEPT !.open = FALSE] \in Items
  <2>1. items[i] \in Items
    OBVIOUS
  <2>. QED
    BY <2>1, ItemShut
<1>2. b = [i \in 1..Len(items) |-> [items[i] EXCEPT !.open = FALSE]]
  BY DEF AllShut
<1>3. \A i \in 1..Len(items) : b[i] = [items[i] EXCEPT !.open = FALSE]
  BY <1>2
<1>4. \A i \in 1..Len(items) : b[i] \in Items
  BY <1>1, <1>3
<1>5. b \in [1..Len(items) -> Items] /\ Len(items) \in Nat
  BY <1>2, <1>4
<1>6. b \in Seq(Items) /\ Len(b) = Len(items)
  BY <1>5
<1>7. ASSUME NEW i \in 1..Len(items)
      PROVE  /\ b[i].at = items[i].at /\ b[i].kind = items[i].kind /\ b[i].id = items[i].id
             /\ b[i].parts = items[i].parts /\ ~b[i].open
  <2>1. b[i] = [at |-> items[i].at, kind |-> items[i].kind, id |-> items[i].id,
                parts |-> items[i].parts, open |-> FALSE]
    BY <1>1, <1>3
  <2>. QED
    BY <2>1
<1>. QED
  BY <1>6, <1>7

-----------------------------------------------------------------------------
(* A reply as its client has it, and how one frame turns it.               *)
(* A client's reply so far. In the Chat dialect all items are open until   *)
(* the reason is given and the text is one item; in the others an item's   *)
(* index is its place.                                                     *)
Heard(items, why) == [items |-> items, why |-> why]

Placed(items) == \A i \in 1..Len(items) : items[i].at = i - 1

ChatPlaced(items) ==
  /\ \A i \in 1..Len(items) : items[i].at = -1 <=> items[i].kind = "text"
  /\ \A i, j \in 1..Len(items) : items[i].at = items[j].at => i = j

Good(client, items, why) ==
  /\ items \in Seq(Items)
  /\ client # "chat" => Placed(items)
  /\ client = "chat" => ChatPlaced(items) /\ (why = "none" => \A i \in 1..Len(items) : items[i].open)

LastText(items, k) == \A j \in (k + 1)..Len(items) : items[j].kind # "text"

(* What a frame may be for a reply that has come so far. *)
FitsChat(items, why, f) ==
  \/ f.d \in {"role", "usage", "done"}
  \/ /\ why = "none"
     /\ \/ f.d = "text" /\ f.p \in Nat
        \/ /\ f.d = "call" /\ f.at \in Nat /\ f.id \in Nat /\ f.args \in Seq(Nat)
           /\ \/ f.id = Len(CallsOf(items)) + 1
              \/ \E i \in 1..Len(items) : items[i].kind = "call" /\ items[i].at = f.at
        \/ f.d = "finish" /\ f.why # "none"

FitsEvent(items, why, f) ==
  \/ f.d \in {"begin", "over"}
  \/ /\ why = "none"
     /\ \/ f.d = "open" /\ f.at = Len(items) /\ f.kind \in {"text", "call"} /\ f.id \in Nat
        \/ /\ f.d = "delta" /\ f.at \in Nat /\ f.at + 1 \in 1..Len(items) /\ f.args \in Seq(Nat)
           /\ items[f.at + 1].open
           /\ items[f.at + 1].kind = "text" => LastText(items, f.at + 1)
        \/ f.d = "close" /\ f.at \in Nat /\ f.at + 1 \in 1..Len(items) /\ items[f.at + 1].open
        \/ f.d = "why" /\ f.why # "none" /\ \A i \in 1..Len(items) : ~items[i].open

Fits(client, items, why, f) ==
  IF client = "chat" THEN FitsChat(items, why, f) ELSE FitsEvent(items, why, f)

(* What such a frame does to it. *)
Adds(client, a, b) ==
  \E x \in Items :
    /\ b = Append(a, x) /\ x.open
    /\ client # "chat" => x.at = Len(a)
    /\ client = "chat" => /\ x.at = -1 <=> x.kind = "text"
                          /\ \A i \in 1..Len(a) : a[i].at # x.at

Lengthens(a, b) ==
  \E k \in 1..Len(a), args \in Seq(Nat) :
    b = Extend(a, k, args) /\ a[k].open /\ (a[k].kind = "text" => LastText(a, k))

Shuts(a, b) == \E k \in 1..Len(a) : b = Shut(a, k) /\ a[k].open

Turn(client, a, v, b, w) ==
  \/ a = b /\ v = w
  \/ v = "none" /\ w = "none" /\ Adds(client, a, b)
  \/ v = "none" /\ w = "none" /\ Lengthens(a, b)
  \/ v = "none" /\ w = "none" /\ client # "chat" /\ Shuts(a, b)
  \/ /\ v = "none" /\ w # "none"
     /\ IF client = "chat" THEN b = AllShut(a)
        ELSE b = a /\ \A i \in 1..Len(a) : ~a[i].open

-----------------------------------------------------------------------------
(* The item an index stands for. *)
LEMMA PlacedAt ==
  ASSUME NEW items \in Seq(Items), Placed(items), NEW at \in Nat, at + 1 \in 1..Len(items)
  PROVE  ItemAt(items, "any", at) = at + 1
<1>. DEFINE I == {i \in 1..Len(items) : items[i].at = at /\ ("any" = "any" \/ items[i].kind = "any")}
<1>1. I = {at + 1}
  BY DEF Placed
<1>2. ItemAt(items, "any", at) = IF I # {} THEN Max(I) ELSE 0
  BY DEF ItemAt, SelectLastInSeq
<1>3. Max({at + 1}) = at + 1
  BY DEF Max
<1>. QED
  BY <1>1, <1>2, <1>3

LEMMA FoundAt ==
  ASSUME NEW items \in Seq(Items), ChatPlaced(items),
         NEW at, NEW kind \in {"text", "call"}, NEW k, k = ItemAt(items, kind, at)
  PROVE  \/ k = 0 /\ \A i \in 1..Len(items) : ~(items[i].at = at /\ items[i].kind = kind)
         \/ k \in 1..Len(items) /\ items[k].at = at /\ items[k].kind = kind
<1>. DEFINE I == {i \in 1..Len(items) : items[i].at = at /\ (kind = "any" \/ items[i].kind = kind)}
<1>1. k = IF I # {} THEN Max(I) ELSE 0
  BY DEF ItemAt, SelectLastInSeq
<1>2. CASE I = {}
  BY <1>1, <1>2
<1>3. CASE I # {}
  <2>1. PICK i \in I : TRUE
    BY <1>3
  <2>2. \A j \in I : j = i
    BY <2>1 DEF ChatPlaced
  <2>3. i \in Int /\ i \in 1..Len(items) /\ items[i].at = at /\ items[i].kind = kind
    BY <2>1
  <2>. HIDE DEF I
  <2>4. I = {i}
    BY <2>1, <2>2
  <2>5. Max({i}) = i
    BY <2>3 DEF Max
  <2>. QED
    BY <1>1, <1>3, <2>3, <2>4, <2>5
<1>. QED
  BY <1>2, <1>3

-----------------------------------------------------------------------------
(* How the events are read. *)
LEMMA HearOpen ==
  ASSUME NEW items, NEW why, NEW at, NEW kind, NEW id
  PROVE  HearEvent(Heard(items, why), Open(at, kind, id)) =
           Heard(Append(items, Item(at, kind, id, <<>>)), why)
BY DEF HearEvent, Heard, Open

LEMMA HearDelta ==
  ASSUME NEW items \in Seq(Items), Placed(items), NEW why, NEW f, f.d = "delta",
         f.at \in Nat, f.at + 1 \in 1..Len(items)
  PROVE  HearEvent(Heard(items, why), f) = Heard(Extend(items, f.at + 1, f.args), why)
<1>1. ItemAt(items, "any", f.at) = f.at + 1
  BY PlacedAt
<1>. QED
  BY <1>1 DEF HearEvent, Heard

LEMMA HearClose ==
  ASSUME NEW items \in Seq(Items), Placed(items), NEW why, NEW f, f.d = "close",
         f.at \in Nat, f.at + 1 \in 1..Len(items)
  PROVE  HearEvent(Heard(items, why), f) = Heard(Shut(items, f.at + 1), why)
<1>1. ItemAt(items, "any", f.at) = f.at + 1
  BY PlacedAt
<1>. QED
  BY <1>1 DEF HearEvent, Heard

LEMMA EventTurns ==
  ASSUME NEW client, client # "chat", NEW items, NEW why, Good(client, items, why),
         NEW f, FitsEvent(items, why, f)
  PROVE  \E b, w : /\ HearEvent(Heard(items, why), f) = Heard(b, w)
                   /\ Turn(client, items, why, b, w)
<1>0. items \in Seq(Items) /\ Placed(items)
  BY DEF Good
<1>1. CASE f.d \in {"begin", "over"}
  <2>1. HearEvent(Heard(items, why), f) = Heard(items, why)
    BY <1>1 DEF HearEvent
  <2>. QED
    BY <2>1 DEF Turn
<1>2. CASE f.d = "open"
  <2>1. /\ why = "none" /\ f.at = Len(items) /\ f.kind \in {"text", "call"} /\ f.id \in Nat
    BY <1>2 DEF FitsEvent
  <2>. DEFINE x == Item(f.at, f.kind, f.id, <<>>)
  <2>2. HearEvent(Heard(items, why), f) = Heard(Append(items, x), why)
    BY <1>2 DEF HearEvent, Heard
  <2>3. Len(items) \in Int /\ <<>> \in Seq(Nat)
    BY <1>0
  <2>4. x \in Items /\ x.open /\ x.at = Len(items)
    BY <2>1, <2>3 DEF Item, Items
  <2>5. Adds(client, items, Append(items, x))
    BY <2>4 DEF Adds
  <2>. QED
    BY <2>1, <2>2, <2>5 DEF Turn
<1>3. CASE f.d = "delta"
  <2>1. /\ why = "none" /\ f.at \in Nat /\ f.at + 1 \in 1..Len(items) /\ f.args \in Seq(Nat)
        /\ items[f.at + 1].open
        /\ items[f.at + 1].kind = "text" => LastText(items, f.at + 1)
    BY <1>3 DEF FitsEvent
  <2>2. HearEvent(Heard(items, why), f) = Heard(Extend(items, f.at + 1, f.args), why)
    BY <1>0, <1>3, <2>1, HearDelta
  <2>3. Lengthens(items, Extend(items, f.at + 1, f.args))
    BY <2>1 DEF Lengthens
  <2>. QED
    BY <2>1, <2>2, <2>3 DEF Turn
<1>4. CASE f.d = "close"
  <2>1. why = "none" /\ f.at \in Nat /\ f.at + 1 \in 1..Len(items) /\ items[f.at + 1].open
    BY <1>4 DEF FitsEvent
  <2>2. HearEvent(Heard(items, why), f) = Heard(Shut(items, f.at + 1), why)
    BY <1>0, <1>4, <2>1, HearClose
  <2>3. Shuts(items, Shut(items, f.at + 1))
    BY <2>1 DEF Shuts
  <2>. QED
    BY <2>1, <2>2, <2>3 DEF Turn
<1>5. CASE f.d = "why"
  <2>1. why = "none" /\ f.why # "none" /\ \A i \in 1..Len(items) : ~items[i].open
    BY <1>5 DEF FitsEvent
  <2>2. HearEvent(Heard(items, why), f) = Heard(items, f.why)
    BY <1>5 DEF HearEvent, Heard
  <2>. QED
    BY <2>1, <2>2 DEF Turn
<1>. QED
  BY <1>1, <1>2, <1>3, <1>4, <1>5 DEF FitsEvent

(* How the chunks are read. *)
LEMMA HearText ==
  ASSUME NEW items \in Seq(Items), ChatPlaced(items), NEW why, NEW f, f.d = "text", f.p \in Nat
  PROVE  \/ /\ \A i \in 1..Len(items) : items[i].kind # "text"
            /\ HearChat(Heard(items, why), f) =
                 Heard(Append(items, Item(-1, "text", 0, <<f.p>>)), why)
         \/ \E k \in 1..Len(items) :
              /\ items[k].kind = "text" /\ LastText(items, k)
              /\ HearChat(Heard(items, why), f) = Heard(Extend(items, k, <<f.p>>), why)
<1>. DEFINE k == ItemAt(items, "text", -1)
<1>1. \/ k = 0 /\ \A i \in 1..Len(items) : ~(items[i].at = -1 /\ items[i].kind = "text")
      \/ k \in 1..Len(items) /\ items[k].at = -1 /\ items[k].kind = "text"
  BY FoundAt
<1>2. HearChat(Heard(items, why), f) =
        Heard(IF k > 0 THEN Extend(items, k, <<f.p>>)
              ELSE Append(items, Item(-1, "text", 0, <<f.p>>)), why)
  BY DEF HearChat, Heard
<1>. HIDE DEF k
<1>3. CASE k = 0 /\ \A i \in 1..Len(items) : ~(items[i].at = -1 /\ items[i].kind = "text")
  BY <1>2, <1>3 DEF ChatPlaced
<1>4. CASE k \in 1..Len(items) /\ items[k].at = -1 /\ items[k].kind = "text"
  <2>1. k > 0
    BY <1>4
  <2>2. ASSUME NEW j \in (k + 1)..Len(items) PROVE items[j].kind # "text"
    <3>1. j \in 1..Len(items) /\ j # k
      BY <1>4
    <3>. QED
      BY <1>4, <3>1 DEF ChatPlaced
  <2>. QED
    BY <1>2, <1>4, <2>1, <2>2 DEF LastText
<1>. QED
  BY <1>1, <1>3, <1>4

LEMMA HearCall ==
  ASSUME NEW items \in Seq(Items), ChatPlaced(items), NEW why, NEW f, f.d = "call"
  PROVE  \/ /\ \A i \in 1..Len(items) : ~(items[i].at = f.at /\ items[i].kind = "call")
            /\ HearChat(Heard(items, why), f) =
                 Heard(Append(items, Item(f.at, "call", f.id, f.args)), why)
         \/ \E k \in 1..Len(items) :
              /\ items[k].at = f.at /\ items[k].kind = "call"
              /\ HearChat(Heard(items, why), f) = Heard(Extend(items, k, f.args), why)
<1>. DEFINE k == ItemAt(items, "call", f.at)
<1>1. \/ k = 0 /\ \A i \in 1..Len(items) : ~(items[i].at = f.at /\ items[i].kind = "call")
      \/ k \in 1..Len(items) /\ items[k].at = f.at /\ items[k].kind = "call"
  BY FoundAt
<1>2. HearChat(Heard(items, why), f) =
        Heard(IF k > 0 THEN Extend(items, k, f.args)
              ELSE Append(items, Item(f.at, "call", f.id, f.args)), why)
  BY DEF HearChat, Heard
<1>. HIDE DEF k
<1>. QED
  BY <1>1, <1>2

LEMMA HearFinish ==
  ASSUME NEW items, NEW why, NEW f, f.d = "finish"
  PROVE  HearChat(Heard(items, why), f) = Heard(AllShut(items), f.why)
BY DEF HearChat, Heard, AllShut

LEMMA ChatTurns ==
  ASSUME NEW items, NEW why, Good("chat", items, why), NEW f, FitsChat(items, why, f)
  PROVE  \E b, w : /\ HearChat(Heard(items, why), f) = Heard(b, w)
                   /\ Turn("chat", items, why, b, w)
<1>0. items \in Seq(Items) /\ ChatPlaced(items)
  BY DEF Good
<1>1. CASE f.d \in {"role", "usage", "done"}
  <2>1. HearChat(Heard(items, why), f) = Heard(items, why)
    BY <1>1 DEF HearChat
  <2>. QED
    BY <2>1 DEF Turn
<1>2. CASE f.d = "text"
  <2>1. why = "none" /\ f.p \in Nat /\ <<f.p>> \in Seq(Nat)
    BY <1>2 DEF FitsChat
  <2>2. \A i \in 1..Len(items) : items[i].open
    BY <2>1 DEF Good
  <2>3. CASE /\ \A i \in 1..Len(items) : items[i].kind # "text"
             /\ HearChat(Heard(items, why), f) =
                  Heard(Append(items, Item(-1, "text", 0, <<f.p>>)), why)
    <3>. DEFINE x == Item(-1, "text", 0, <<f.p>>)
    <3>1. x \in Items /\ x.open /\ x.at = -1 /\ x.kind = "text"
      BY <2>1 DEF Item, Items
    <3>2. \A i \in 1..Len(items) : items[i].at # -1
      BY <1>0, <2>3 DEF ChatPlaced
    <3>3. Adds("chat", items, Append(items, x))
      BY <3>1, <3>2 DEF Adds
    <3>. QED
      BY <2>1, <2>3, <3>3 DEF Turn
  <2>4. CASE \E k \in 1..Len(items) :
               /\ items[k].kind = "text" /\ LastText(items, k)
               /\ HearChat(Heard(items, why), f) = Heard(Extend(items, k, <<f.p>>), why)
    <3>1. PICK k \in 1..Len(items) :
                 /\ items[k].kind = "text" /\ LastText(items, k)
                 /\ HearChat(Heard(items, why), f) = Heard(Extend(items, k, <<f.p>>), why)
      BY <2>4
    <3>2. Lengthens(items, Extend(items, k, <<f.p>>))
      BY <2>1, <2>2, <3>1 DEF Lengthens
    <3>. QED
      BY <2>1, <3>1, <3>2 DEF Turn
  <2>. QED
    BY <1>0, <1>2, <2>1, <2>3, <2>4, HearText
<1>3. CASE f.d = "call"
  <2>1. why = "none" /\ f.at \in Nat /\ f.id \in Nat /\ f.args \in Seq(Nat)
    BY <1>3 DEF FitsChat
  <2>2. \A i \in 1..Len(items) : items[i].open
    BY <2>1 DEF Good
  <2>3. CASE /\ \A i \in 1..Len(items) : ~(items[i].at = f.at /\ items[i].kind = "call")
             /\ HearChat(Heard(items, why), f) =
                  Heard(Append(items, Item(f.at, "call", f.id, f.args)), why)
    <3>. DEFINE x == Item(f.at, "call", f.id, f.args)
    <3>1. x \in Items /\ x.open /\ x.at = f.at /\ x.kind = "call" /\ f.at # -1
      BY <2>1 DEF Item, Items
    <3>2. ASSUME NEW i \in 1..Len(items) PROVE items[i].at # f.at
      <4>1. items[i] \in Items
        BY <1>0
      <4>2. items[i].kind = "text" \/ items[i].kind = "call"
        BY <4>1 DEF Items
      <4>. QED
        BY <1>0, <2>3, <3>1, <4>2 DEF ChatPlaced
    <3>3. Adds("chat", items, Append(items, x))
      BY <3>1, <3>2 DEF Adds
    <3>. QED
      BY <2>1, <2>3, <3>3 DEF Turn
  <2>4. CASE \E k \in 1..Len(items) :
               /\ items[k].at = f.at /\ items[k].kind = "call"
               /\ HearChat(Heard(items, why), f) = Heard(Extend(items, k, f.args), why)
    <3>1. PICK k \in 1..Len(items) :
                 /\ items[k].at = f.at /\ items[k].kind = "call"
                 /\ HearChat(Heard(items, why), f) = Heard(Extend(items, k, f.args), why)
      BY <2>4
    <3>2. Lengthens(items, Extend(items, k, f.args))
      BY <2>1, <2>2, <3>1 DEF Lengthens
    <3>. QED
      BY <2>1, <3>1, <3>2 DEF Turn
  <2>. QED
    BY <1>0, <1>3, <2>3, <2>4, HearCall
<1>4. CASE f.d = "finish"
  <2>1. why = "none" /\ f.why # "none"
    BY <1>4 DEF FitsChat
  <2>2. HearChat(Heard(items, why), f) = Heard(AllShut(items), f.why)
    BY <1>4, HearFinish
  <2>. QED
    BY <2>1, <2>2 DEF Turn
<1>. QED
  BY <1>1, <1>2, <1>3, <1>4 DEF FitsChat

LEMMA Turns ==
  ASSUME NEW client, NEW items, NEW why, Good(client, items, why), NEW f, Fits(client, items, why, f)
  PROVE  \E b, w : /\ Hear(client, Heard(items, why), f) = Heard(b, w)
                   /\ Turn(client, items, why, b, w)
<1>1. CASE client = "chat"
  BY <1>1, ChatTurns DEF Hear, Fits
<1>2. CASE client # "chat"
  BY <1>2, EventTurns DEF Hear, Fits
<1>. QED
  BY <1>1, <1>2

-----------------------------------------------------------------------------
(* A reply that is a beginning of another.                                 *)
(* The calls of two replies are the same calls with the same arguments. *)
CallsAlike(a, b) ==
  /\ Len(CallsOf(a)) = Len(CallsOf(b))
  /\ \A r \in 1..Len(CallsOf(a)) : /\ CallsOf(a)[r].id = CallsOf(b)[r].id
                                   /\ CallsOf(a)[r].parts = CallsOf(b)[r].parts

(* The first is a beginning of the second. *)
BeginningOf(a, b) ==
  /\ IsPrefix(Spoken(a), Spoken(b))
  /\ Len(CallsOf(a)) <= Len(CallsOf(b))
  /\ \A r \in 1..Len(CallsOf(a)) : /\ CallsOf(a)[r].id = CallsOf(b)[r].id
                                   /\ IsPrefix(CallsOf(a)[r].parts, CallsOf(b)[r].parts)

LEMMA ItemsParted == Parted(Items)
BY DEF Parted, Items

LEMMA SaidTyped ==
  ASSUME NEW a \in Seq(Items)
  PROVE  /\ Spoken(a) \in Seq(Nat) /\ CallsOf(a) \in Seq(Items) /\ Len(CallsOf(a)) \in Nat
         /\ \A r \in 1..Len(CallsOf(a)) : CallsOf(a)[r].parts \in Seq(Nat)
<1>1. Spoken(a) \in Seq(Nat) /\ CallsOf(a) \in Seq(Items)
  BY SpokenTyped, CallsTyped, ItemsParted
<1>2. Len(CallsOf(a)) \in Nat /\ \A r \in 1..Len(CallsOf(a)) : CallsOf(a)[r] \in Items
  BY <1>1
<1>. QED
  BY <1>1, <1>2 DEF Items

LEMMA PrefixOf ==
  /\ \A s, t \in Seq(Nat) : IsPrefix(s, s \o t)
  /\ \A s \in Seq(Nat) : IsPrefix(s, s)
  /\ \A s, t, u \in Seq(Nat) : IsPrefix(s, t) /\ IsPrefix(t, u) => IsPrefix(s, u)
BY DEF IsPrefix

(* A new item at the end. *)
LEMMA AppendSays ==
  ASSUME NEW a \in Seq(Items), NEW x \in Items
  PROVE  /\ x.kind = "text" => /\ Spoken(Append(a, x)) = Spoken(a) \o x.parts
                               /\ CallsOf(Append(a, x)) = CallsOf(a)
         /\ x.kind = "call" => /\ Spoken(Append(a, x)) = Spoken(a)
                               /\ CallsOf(Append(a, x)) = Append(CallsOf(a), x)
BY SpokenAppend, CallsAppend, ItemsParted

(* An item grows. *)
LEMMA LongerParts ==
  ASSUME NEW a \in Seq(Items), NEW k \in 1..Len(a), NEW args \in Seq(Nat), NEW b, Longer(a, k, args, b)
  PROVE  a[k].parts \in Seq(Nat) /\ b[k].parts = a[k].parts \o args /\ IsPrefix(a[k].parts, b[k].parts)
<1>1. a[k].parts \in Seq(Nat)
  <2>1. a[k] \in Items
    OBVIOUS
  <2>. QED
    BY <2>1 DEF Items
<1>. QED
  BY <1>1, PrefixOf DEF Longer

LEMMA ExtendSpeaks ==
  ASSUME NEW a \in Seq(Items), NEW k \in 1..Len(a), NEW args \in Seq(Nat), a[k].kind = "text",
         LastText(a, k)
  PROVE  /\ Spoken(Extend(a, k, args)) = Spoken(a) \o args
         /\ CallsAlike(a, Extend(a, k, args))
<1>. DEFINE b == Extend(a, k, args)
<1>1. Longer(a, k, args, b) /\ Else(a, k, b)
  BY ExtendIs
<1>. HIDE DEF b
<1>2. /\ b \in Seq(Items) /\ Len(a) = Len(b) /\ b[k].kind = "text"
      /\ \A i \in 1..Len(a) : i # k => SameSpeech(a[i], b[i])
      /\ \A i \in 1..Len(a) : a[i].kind = b[i].kind
      /\ \A i \in 1..Len(a) : i # k => b[i] = a[i]
      /\ \A i \in (k + 1)..Len(a) : a[i].kind # "text"
  BY <1>1 DEF Else, SameSpeech, LastText
<1>3. b[k].parts = a[k].parts \o args
  BY <1>1 DEF Longer
<1>4. Spoken(b) = Spoken(a) \o args
  BY <1>2, <1>3, SpokenExtend, ItemsParted
<1>5. Together(a, b, CallsOf(a), CallsOf(b), Len(a))
  BY <1>2, CallsTogether
<1>6. ASSUME NEW r \in 1..Len(CallsOf(a)) PROVE CallsOf(a)[r] = CallsOf(b)[r]
  <2>1. PICK i \in 1..Len(a) : a[i].kind = "call" /\ CallsOf(a)[r] = a[i] /\ CallsOf(b)[r] = b[i]
    BY <1>5 DEF Together
  <2>. QED
    BY <1>2, <2>1
<1>7. Len(CallsOf(a)) = Len(CallsOf(b))
  BY <1>5 DEF Together
<1>. QED
  BY <1>4, <1>6, <1>7 DEF CallsAlike, b

LEMMA ExtendCalls ==
  ASSUME NEW a \in Seq(Items), NEW k \in 1..Len(a), NEW args \in Seq(Nat), a[k].kind = "call"
  PROVE  /\ Spoken(Extend(a, k, args)) = Spoken(a)
         /\ Together(a, Extend(a, k, args), CallsOf(a), CallsOf(Extend(a, k, args)), Len(a))
<1>. DEFINE b == Extend(a, k, args)
<1>1. Else(a, k, b)
  BY ExtendIs
<1>. HIDE DEF b
<1>2. /\ b \in Seq(Items) /\ Len(a) = Len(b)
      /\ \A i \in 1..Len(a) : SameSpeech(a[i], b[i])
      /\ \A i \in 1..Len(a) : a[i].kind = b[i].kind
  BY <1>1 DEF Else, SameSpeech
<1>3. Together(a, b, CallsOf(a), CallsOf(b), Len(a))
  BY <1>2, CallsTogether
<1>4. Spoken(a) = Spoken(b)
  BY <1>2, SpokenSame, ItemsParted
<1>. QED
  BY <1>3, <1>4 DEF b

(* Items are closed. *)
LEMMA ClosedSays ==
  ASSUME NEW a \in Seq(Items), NEW b \in Seq(Items), Len(b) = Len(a),
         \A i \in 1..Len(a) : b[i].kind = a[i].kind /\ b[i].id = a[i].id /\ b[i].parts = a[i].parts
  PROVE  Spoken(b) = Spoken(a) /\ CallsAlike(a, b)
<1>1. \A i \in 1..Len(a) : SameSpeech(a[i], b[i]) /\ a[i].kind = b[i].kind
  BY DEF SameSpeech
<1>2. Spoken(b) = Spoken(a)
  BY <1>1, SpokenSame, ItemsParted
<1>3. Together(a, b, CallsOf(a), CallsOf(b), Len(a))
  BY <1>1, CallsTogether
<1>4. ASSUME NEW r \in 1..Len(CallsOf(a))
      PROVE  CallsOf(a)[r].id = CallsOf(b)[r].id /\ CallsOf(a)[r].parts = CallsOf(b)[r].parts
  <2>1. PICK i \in 1..Len(a) : a[i].kind = "call" /\ CallsOf(a)[r] = a[i] /\ CallsOf(b)[r] = b[i]
    BY <1>3 DEF Together
  <2>. QED
    BY <2>1
<1>. QED
  BY <1>2, <1>3, <1>4 DEF CallsAlike, Together

LEMMA ShutSays ==
  ASSUME NEW a \in Seq(Items), NEW k \in 1..Len(a)
  PROVE  Spoken(Shut(a, k)) = Spoken(a) /\ CallsAlike(a, Shut(a, k))
<1>. DEFINE b == Shut(a, k)
<1>1. /\ b \in Seq(Items) /\ Len(b) = Len(a)
      /\ \A i \in 1..Len(a) : b[i].kind = a[i].kind /\ b[i].id = a[i].id /\ b[i].parts = a[i].parts
  BY ShutIs
<1>. QED
  BY <1>1, ClosedSays

LEMMA AllShutSays ==
  ASSUME NEW a \in Seq(Items)
  PROVE  Spoken(AllShut(a)) = Spoken(a) /\ CallsAlike(a, AllShut(a))
<1>. DEFINE b == AllShut(a)
<1>1. /\ b \in Seq(Items) /\ Len(b) = Len(a)
      /\ \A i \in 1..Len(a) : b[i].kind = a[i].kind /\ b[i].id = a[i].id /\ b[i].parts = a[i].parts
  BY AllShutIs
<1>. QED
  BY <1>1, ClosedSays

-----------------------------------------------------------------------------
LEMMA BeginningAlike ==
  ASSUME NEW a \in Seq(Items), NEW b \in Seq(Items), Spoken(b) = Spoken(a), CallsAlike(a, b)
  PROVE  BeginningOf(a, b)
BY SaidTyped, PrefixOf DEF CallsAlike, BeginningOf

LEMMA BeginningTransitive ==
  ASSUME NEW a \in Seq(Items), NEW b \in Seq(Items), NEW c \in Seq(Items), BeginningOf(a, b), BeginningOf(b, c)
  PROVE  BeginningOf(a, c)
<1>1. /\ Spoken(a) \in Seq(Nat) /\ Spoken(b) \in Seq(Nat) /\ Spoken(c) \in Seq(Nat)
      /\ Len(CallsOf(a)) \in Nat /\ Len(CallsOf(b)) \in Nat /\ Len(CallsOf(c)) \in Nat
  BY SaidTyped
<1>2. ASSUME NEW r \in 1..Len(CallsOf(a))
      PROVE  /\ CallsOf(a)[r].id = CallsOf(c)[r].id
             /\ IsPrefix(CallsOf(a)[r].parts, CallsOf(c)[r].parts)
  <2>1. r \in 1..Len(CallsOf(b)) /\ r \in 1..Len(CallsOf(c))
    BY <1>1 DEF BeginningOf
  <2>2. /\ CallsOf(a)[r].parts \in Seq(Nat) /\ CallsOf(b)[r].parts \in Seq(Nat)
        /\ CallsOf(c)[r].parts \in Seq(Nat)
    BY <2>1, SaidTyped
  <2>. QED
    BY <2>1, <2>2, PrefixOf DEF BeginningOf
<1>3. IsPrefix(Spoken(a), Spoken(c)) /\ Len(CallsOf(a)) <= Len(CallsOf(c))
  BY <1>1, PrefixOf DEF BeginningOf
<1>. QED
  BY <1>2, <1>3 DEF BeginningOf

LEMMA TurnKeeps ==
  ASSUME NEW client, NEW a, NEW v, NEW b, NEW w, Good(client, a, v), Turn(client, a, v, b, w)
  PROVE  Good(client, b, w) /\ BeginningOf(a, b)
<1>0. a \in Seq(Items)
  BY DEF Good
<1>1. CASE a = b /\ v = w
  BY <1>0, <1>1, BeginningAlike DEF CallsAlike
<1>2. CASE v = "none" /\ w = "none" /\ Adds(client, a, b)
  <2>1. PICK x \in Items :
          /\ b = Append(a, x) /\ x.open
          /\ client # "chat" => x.at = Len(a)
          /\ client = "chat" => /\ x.at = -1 <=> x.kind = "text"
                                /\ \A i \in 1..Len(a) : a[i].at # x.at
    BY <1>2 DEF Adds
  <2>2. /\ b \in Seq(Items) /\ Len(b) = Len(a) + 1 /\ b[Len(a) + 1] = x /\ Len(a) \in Nat
        /\ \A i \in 1..Len(a) : b[i] = a[i]
    BY <1>0, <2>1
  <2>3. \A i \in 1..Len(b) : i \in 1..Len(a) \/ i = Len(a) + 1
    BY <2>2
  <2>4. Good(client, b, w)
    <3>1. client # "chat" => Placed(b)
      BY <2>1, <2>2, <2>3 DEF Good, Placed
    <3>2. ASSUME client = "chat" PROVE ChatPlaced(b) /\ \A i \in 1..Len(b) : b[i].open
      <4>1. ChatPlaced(a) /\ \A i \in 1..Len(a) : a[i].open
        BY <1>2, <3>2 DEF Good
      <4>2. \A i \in 1..Len(b) : b[i].at = -1 <=> b[i].kind = "text"
        BY <2>1, <2>2, <2>3, <3>2, <4>1 DEF ChatPlaced
      <4>3. \A i, j \in 1..Len(b) : b[i].at = b[j].at => i = j
        BY <2>1, <2>2, <2>3, <3>2, <4>1 DEF ChatPlaced
      <4>. QED
        BY <2>1, <2>2, <2>3, <4>1, <4>2, <4>3 DEF ChatPlaced
    <3>. QED
      BY <2>2, <3>1, <3>2 DEF Good
  <2>5. BeginningOf(a, b)
    <3>1. /\ Spoken(a) \in Seq(Nat) /\ x.parts \in Seq(Nat) /\ CallsOf(a) \in Seq(Items)
          /\ Len(CallsOf(a)) \in Nat
          /\ \A r \in 1..Len(CallsOf(a)) : CallsOf(a)[r].parts \in Seq(Nat)
      BY <1>0, SaidTyped DEF Items
    <3>2. CASE x.kind = "text"
      <4>1. Spoken(b) = Spoken(a) \o x.parts /\ CallsOf(b) = CallsOf(a)
        BY <1>0, <2>1, <3>2, AppendSays
      <4>. QED
        BY <3>1, <4>1, PrefixOf DEF BeginningOf
    <3>3. CASE x.kind = "call"
      <4>1. Spoken(b) = Spoken(a) /\ CallsOf(b) = Append(CallsOf(a), x)
        BY <1>0, <2>1, <3>3, AppendSays
      <4>2. /\ Len(CallsOf(b)) = Len(CallsOf(a)) + 1
            /\ \A r \in 1..Len(CallsOf(a)) : CallsOf(b)[r] = CallsOf(a)[r]
        BY <3>1, <4>1
      <4>3. \A r \in 1..Len(CallsOf(a)) : IsPrefix(CallsOf(a)[r].parts, CallsOf(b)[r].parts)
        BY <3>1, <4>2, PrefixOf
      <4>4. IsPrefix(Spoken(a), Spoken(b))
        BY <3>1, <4>1, PrefixOf
      <4>5. Len(CallsOf(a)) <= Len(CallsOf(b))
        BY <3>1, <4>2
      <4>. QED
        BY <4>2, <4>3, <4>4, <4>5 DEF BeginningOf
    <3>. QED
      BY <3>2, <3>3 DEF Items
  <2>. QED
    BY <2>4, <2>5
<1>3. CASE v = "none" /\ w = "none" /\ Lengthens(a, b)
  <2>1. PICK k \in 1..Len(a), args \in Seq(Nat) :
          b = Extend(a, k, args) /\ a[k].open /\ (a[k].kind = "text" => LastText(a, k))
    BY <1>3 DEF Lengthens
  <2>2. Longer(a, k, args, b) /\ Else(a, k, b)
    BY <1>0, <2>1, ExtendIs
  <2>3. Good(client, b, w)
    <3>1. client # "chat" => Placed(b)
      BY <2>2 DEF Good, Placed, Else
    <3>2. client = "chat" => ChatPlaced(b) /\ \A i \in 1..Len(b) : b[i].open
      BY <1>3, <2>2 DEF Good, ChatPlaced, Else
    <3>. QED
      BY <2>2, <3>1, <3>2 DEF Good, Else
  <2>4. Spoken(a) \in Seq(Nat) /\ Len(CallsOf(a)) \in Nat
    BY <1>0, SaidTyped
  <2>5. CASE a[k].kind = "text"
    <3>1. Spoken(b) = Spoken(a) \o args /\ CallsAlike(a, b)
      BY <1>0, <2>1, <2>5, ExtendSpeaks
    <3>2. IsPrefix(Spoken(a), Spoken(b))
      BY <2>4, <3>1, PrefixOf
    <3>3. ASSUME NEW r \in 1..Len(CallsOf(a)) PROVE IsPrefix(CallsOf(a)[r].parts, CallsOf(b)[r].parts)
      <4>1. CallsOf(a)[r].parts \in Seq(Nat) /\ CallsOf(a)[r].parts = CallsOf(b)[r].parts
        BY <1>0, <3>1, SaidTyped DEF CallsAlike
      <4>. QED
        BY <4>1, PrefixOf
    <3>4. BeginningOf(a, b)
      BY <2>4, <3>1, <3>2, <3>3 DEF CallsAlike, BeginningOf
    <3>. QED
      BY <2>3, <3>4
  <2>6. CASE a[k].kind = "call"
    <3>1. Spoken(b) = Spoken(a) /\ Together(a, b, CallsOf(a), CallsOf(b), Len(a))
      BY <1>0, <2>1, <2>6, ExtendCalls
    <3>2. IsPrefix(Spoken(a), Spoken(b))
      BY <2>4, <3>1, PrefixOf
    <3>3. ASSUME NEW r \in 1..Len(CallsOf(a))
          PROVE  /\ CallsOf(a)[r].id = CallsOf(b)[r].id
                 /\ IsPrefix(CallsOf(a)[r].parts, CallsOf(b)[r].parts)
      <4>1. PICK i \in 1..Len(a) : CallsOf(a)[r] = a[i] /\ CallsOf(b)[r] = b[i]
        BY <3>1 DEF Together
      <4>2. a[i].parts \in Seq(Nat) /\ a[i].id = b[i].id
        BY <2>2, <4>1, <1>0, SaidTyped DEF Else
      <4>3. IsPrefix(a[i].parts, b[i].parts)
        <5>1. CASE i = k
          BY <1>0, <2>2, <5>1, LongerParts
        <5>2. CASE i # k
          BY <2>2, <4>2, <5>2, PrefixOf DEF Else
        <5>. QED
          BY <5>1, <5>2
      <4>. QED
        BY <4>1, <4>2, <4>3
    <3>4. BeginningOf(a, b)
      BY <2>4, <3>1, <3>2, <3>3 DEF Together, BeginningOf
    <3>. QED
      BY <2>3, <3>4
  <2>7. a[k].kind = "text" \/ a[k].kind = "call"
    <3>1. a[k] \in Items
      BY <1>0
    <3>. QED
      BY <3>1 DEF Items
  <2>. QED
    BY <2>5, <2>6, <2>7
<1>4. CASE v = "none" /\ w = "none" /\ client # "chat" /\ Shuts(a, b)
  <2>1. PICK k \in 1..Len(a) : b = Shut(a, k)
    BY <1>4 DEF Shuts
  <2>2. /\ b \in Seq(Items) /\ Len(b) = Len(a)
        /\ \A i \in 1..Len(a) : b[i].at = a[i].at
    BY <1>0, <2>1, ShutIs
  <2>3. Good(client, b, w)
    BY <1>4, <2>2 DEF Good, Placed
  <2>. QED
    BY <1>0, <2>1, <2>2, <2>3, ShutSays, BeginningAlike
<1>5. CASE v = "none" /\ w # "none" /\ client = "chat" /\ b = AllShut(a)
  <2>1. /\ b \in Seq(Items) /\ Len(b) = Len(a)
        /\ \A i \in 1..Len(a) : b[i].at = a[i].at /\ b[i].kind = a[i].kind
    BY <1>0, <1>5, AllShutIs
  <2>2. Good(client, b, w)
    BY <1>5, <2>1 DEF Good, ChatPlaced
  <2>. QED
    BY <1>0, <1>5, <2>1, <2>2, AllShutSays, BeginningAlike
<1>6. CASE v = "none" /\ w # "none" /\ client # "chat" /\ b = a
  BY <1>0, <1>6, BeginningAlike DEF Good, CallsAlike
<1>. QED
  BY <1>1, <1>2, <1>3, <1>4, <1>5, <1>6 DEF Turn

-----------------------------------------------------------------------------
(* Frames, and the road they are from one reply to another.                *)
Whys == {"none", "stop", "length", "tool_calls", "end_turn", "max_tokens", "tool_use",
         "completed", "incomplete"}

Usage == {u \in Usages : u.apart \/ u.cached <= u.input}

Frames ==
  [d : {"role", "done", "over"}] \cup [d : {"text"}, p : Nat] \cup [d : {"usage"}, usage : Usage]
    \cup [d : {"call"}, at : Nat, id : Nat, args : Seq(Nat)]
    \cup [d : {"finish", "why"}, why : Whys, usage : Usage] \cup [d : {"begin"}, usage : Usage]
    \cup [d : {"open"}, at : Nat, kind : {"text", "call"}, id : Nat]
    \cup [d : {"delta"}, at : Nat, args : Seq(Nat)] \cup [d : {"close"}, at : Nat]

(* A reply comes from h to g by the frames of q, each of which fits.       *)
Goes(client, h, q, g, p) ==
  /\ p = [k \in 0..Len(q) |-> p[k]]
  /\ p[0] = h /\ p[Len(q)] = g
  /\ \A k \in 1..Len(q) : /\ Fits(client, p[k - 1].items, p[k - 1].why, q[k])
                          /\ p[k] = Hear(client, p[k - 1], q[k])

Road(client, h, q, g) == q \in Seq(Frames) /\ \E p : Goes(client, h, q, g, p)

LEMMA RoadNone ==
  ASSUME NEW client, NEW h
  PROVE  Road(client, h, <<>>, h)
<1>. DEFINE p == [k \in 0..0 |-> h]
<1>1. Len(<<>>) = 0 /\ <<>> \in Seq(Frames) /\ 1..0 = {} /\ p[0] = h
  OBVIOUS
<1>2. Goes(client, h, <<>>, h, p)
  BY <1>1 DEF Goes
<1>. QED
  BY <1>1, <1>2 DEF Road

LEMMA RoadOne ==
  ASSUME NEW client, NEW h, NEW f \in Frames, Fits(client, h.items, h.why, f)
  PROVE  Road(client, h, <<f>>, Hear(client, h, f))
<1>. DEFINE g == Hear(client, h, f)
<1>. DEFINE p == [k \in 0..1 |-> IF k = 0 THEN h ELSE g]
<1>1. Len(<<f>>) = 1 /\ <<f>> \in Seq(Frames) /\ <<f>>[1] = f /\ 1..1 = {1}
  OBVIOUS
<1>2. p = [k \in 0..1 |-> p[k]] /\ p[0] = h /\ p[1] = g
  OBVIOUS
<1>3. 1 - 1 = 0
  OBVIOUS
<1>. HIDE DEF p
<1>4. \A k \in 1..1 : /\ Fits(client, p[k - 1].items, p[k - 1].why, <<f>>[k])
                      /\ p[k] = Hear(client, p[k - 1], <<f>>[k])
  BY <1>1, <1>2, <1>3
<1>. HIDE DEF g
<1>5. Goes(client, h, <<f>>, g, p)
  BY <1>1, <1>2, <1>4 DEF Goes
<1>. QED
  BY <1>1, <1>5 DEF Road, g

LEMMA RoadEmpty ==
  ASSUME NEW client, NEW h, NEW g, Road(client, h, <<>>, g)
  PROVE  h = g
<1>1. Len(<<>>) = 0
  OBVIOUS
<1>. QED
  BY <1>1 DEF Road, Goes

LEMMA RoadConcat ==
  ASSUME NEW client, NEW h, NEW q, NEW g, NEW r, NEW i, Road(client, h, q, g), Road(client, g, r, i)
  PROVE  Road(client, h, q \o r, i)
<1>1. PICK p : Goes(client, h, q, g, p)
  BY DEF Road
<1>2. PICK s : Goes(client, g, r, i, s)
  BY DEF Road
<1>3. q \in Seq(Frames) /\ r \in Seq(Frames)
  BY DEF Road
<1>. DEFINE n == Len(q)
<1>. DEFINE t == q \o r
<1>. DEFINE o == [k \in 0..Len(t) |-> IF k <= n THEN p[k] ELSE s[k - n]]
<1>4. /\ t \in Seq(Frames) /\ Len(t) = n + Len(r) /\ n \in Nat /\ Len(r) \in Nat
      /\ \A k \in 1..n : t[k] = q[k]
      /\ \A k \in (n + 1)..Len(t) : t[k] = r[k - n]
  BY <1>3
<1>5. o = [k \in 0..Len(t) |-> o[k]]
  OBVIOUS
<1>6. \A k \in 0..Len(t) : o[k] = IF k <= n THEN p[k] ELSE s[k - n]
  OBVIOUS
<1>. HIDE DEF n, t, o
<1>7. p[0] = h /\ p[n] = g /\ s[0] = g /\ s[Len(r)] = i
  BY <1>1, <1>2 DEF Goes, n
<1>8. o[0] = h /\ o[Len(t)] = i
  <2>1. 0 \in 0..Len(t) /\ Len(t) \in 0..Len(t) /\ 0 <= n
    BY <1>4
  <2>2. CASE Len(r) = 0
    <3>1. Len(t) = n
      BY <1>4, <2>2
    <3>. QED
      BY <1>4, <1>6, <1>7, <2>1, <2>2, <3>1
  <2>3. CASE Len(r) # 0
    <3>1. ~(Len(t) <= n) /\ Len(t) - n = Len(r)
      BY <1>4, <2>3
    <3>. QED
      BY <1>6, <1>7, <2>1, <3>1
  <2>. QED
    BY <2>2, <2>3
<1>9. ASSUME NEW k \in 1..Len(t)
      PROVE  /\ Fits(client, o[k - 1].items, o[k - 1].why, t[k])
             /\ o[k] = Hear(client, o[k - 1], t[k])
  <2>0. k \in 0..Len(t) /\ k - 1 \in 0..Len(t)
    BY <1>4
  <2>1. CASE k <= n
    <3>1. k - 1 <= n /\ k \in 1..n
      BY <1>4, <2>1
    <3>2. o[k] = p[k] /\ o[k - 1] = p[k - 1] /\ t[k] = q[k]
      BY <1>4, <1>6, <2>0, <2>1, <3>1
    <3>3. Fits(client, p[k - 1].items, p[k - 1].why, q[k]) /\ p[k] = Hear(client, p[k - 1], q[k])
      BY <1>1, <3>1 DEF Goes, n
    <3>. QED
      BY <3>2, <3>3
  <2>2. CASE ~(k <= n)
    <3>. DEFINE j == k - n
    <3>1. j \in 1..Len(r) /\ k \in (n + 1)..Len(t) /\ (k - 1) - n = j - 1
      BY <1>4, <2>2
    <3>2. o[k] = s[j] /\ t[k] = r[j]
      BY <1>4, <1>6, <2>0, <2>2, <3>1
    <3>3. o[k - 1] = s[j - 1]
      <4>1. CASE k - 1 <= n
        <5>1. k - 1 = n /\ j - 1 = 0
          BY <1>4, <2>2, <4>1
        <5>. QED
          BY <1>6, <1>7, <2>0, <4>1, <5>1
      <4>2. CASE ~(k - 1 <= n)
        BY <1>6, <2>0, <3>1, <4>2
      <4>. QED
        BY <4>1, <4>2
    <3>. HIDE DEF j
    <3>4. Fits(client, s[j - 1].items, s[j - 1].why, r[j]) /\ s[j] = Hear(client, s[j - 1], r[j])
      BY <1>2, <3>1 DEF Goes
    <3>. QED
      BY <3>2, <3>3, <3>4
  <2>. QED
    BY <2>1, <2>2
<1>10. Goes(client, h, t, i, o)
  BY <1>5, <1>8, <1>9 DEF Goes
<1>. QED
  BY <1>4, <1>10 DEF Road, t

LEMMA RoadTakes ==
  ASSUME NEW client, NEW h, NEW q, NEW g, Road(client, h, q, g), q # <<>>
  PROVE  /\ Fits(client, h.items, h.why, Head(q))
         /\ Road(client, Hear(client, h, Head(q)), Tail(q), g)
<1>1. PICK p : Goes(client, h, q, g, p)
  BY DEF Road
<1>2. q \in Seq(Frames) /\ Len(q) \in Nat \ {0}
  BY DEF Road
<1>. DEFINE t == Tail(q)
<1>. DEFINE o == [k \in 0..Len(t) |-> p[k + 1]]
<1>3. /\ t \in Seq(Frames) /\ Len(t) = Len(q) - 1 /\ Len(t) \in Nat /\ Head(q) = q[1]
      /\ \A k \in 1..Len(t) : t[k] = q[k + 1]
  BY <1>2
<1>4. o = [k \in 0..Len(t) |-> o[k]] /\ \A k \in 0..Len(t) : o[k] = p[k + 1]
  OBVIOUS
<1>. HIDE DEF t, o
<1>5. 1 \in 1..Len(q) /\ 1 - 1 = 0 /\ Len(t) + 1 = Len(q) /\ 0 + 1 = 1
  BY <1>2, <1>3
<1>6. Fits(client, h.items, h.why, q[1]) /\ p[1] = Hear(client, h, q[1]) /\ p[Len(q)] = g
  BY <1>1, <1>5 DEF Goes
<1>7. o[0] = Hear(client, h, q[1]) /\ o[Len(t)] = g
  <2>1. 0 \in 0..Len(t) /\ Len(t) \in 0..Len(t)
    BY <1>3
  <2>. QED
    BY <1>4, <1>5, <1>6, <2>1
<1>8. ASSUME NEW k \in 1..Len(t)
      PROVE  /\ Fits(client, o[k - 1].items, o[k - 1].why, t[k])
             /\ o[k] = Hear(client, o[k - 1], t[k])
  <2>1. /\ k \in 0..Len(t) /\ k - 1 \in 0..Len(t) /\ k + 1 \in 1..Len(q)
        /\ (k + 1) - 1 = k /\ (k - 1) + 1 = k
    BY <1>3
  <2>2. o[k] = p[k + 1] /\ o[k - 1] = p[k] /\ t[k] = q[k + 1]
    BY <1>3, <1>4, <2>1
  <2>3. Fits(client, p[k].items, p[k].why, q[k + 1]) /\ p[k + 1] = Hear(client, p[k], q[k + 1])
    BY <1>1, <2>1 DEF Goes
  <2>. QED
    BY <2>2, <2>3
<1>9. Goes(client, Hear(client, h, q[1]), t, g, o)
  BY <1>4, <1>7, <1>8 DEF Goes
<1>. QED
  BY <1>3, <1>6, <1>9 DEF Road, t

Whole(client, h) == h = Heard(h.items, h.why) /\ Good(client, h.items, h.why)

LEMMA HearKeeps ==
  ASSUME NEW client, NEW h, Whole(client, h), NEW f, Fits(client, h.items, h.why, f),
         NEW g, g = Hear(client, h, f)
  PROVE  /\ Whole(client, g) /\ BeginningOf(h.items, g.items)
         /\ h.why # "none" => g.why = h.why
         /\ Turn(client, h.items, h.why, g.items, g.why)
<1>1. PICK b, w : /\ Hear(client, Heard(h.items, h.why), f) = Heard(b, w)
                  /\ Turn(client, h.items, h.why, b, w)
  BY Turns DEF Whole
<1>2. g = Heard(b, w) /\ g.items = b /\ g.why = w
  BY <1>1 DEF Whole, Heard
<1>3. Good(client, b, w) /\ BeginningOf(h.items, b)
  BY <1>1, TurnKeeps DEF Whole
<1>4. h.why # "none" => w = h.why
  BY <1>1 DEF Turn
<1>. QED
  BY <1>1, <1>2, <1>3, <1>4 DEF Whole

(* A road only ever adds to a reply: of the text and of each call the      *)
(* client has a beginning of what it will have, and a reason once given    *)
(* stands.                                                                 *)
THEOREM RoadKeeps ==
  ASSUME NEW client, NEW h, Whole(client, h), NEW q, NEW g, Road(client, h, q, g)
  PROVE  /\ Whole(client, g) /\ BeginningOf(h.items, g.items)
         /\ h.why # "none" => g.why = h.why
<1>1. PICK p : Goes(client, h, q, g, p)
  BY DEF Road
<1>2. q \in Seq(Frames) /\ Len(q) \in Nat
  BY DEF Road
<1>. DEFINE Q(x) == Whole(client, x) /\ BeginningOf(h.items, x.items) /\ (h.why # "none" => x.why = h.why)
<1>. DEFINE P == {k \in Nat : k <= Len(q) => Q(p[k])}
<1>3. 0 \in P
  <2>1. p[0] = h
    BY <1>1 DEF Goes
  <2>2. BeginningOf(h.items, h.items)
    BY BeginningAlike DEF Whole, Good, CallsAlike
  <2>. QED
    BY <2>1, <2>2
<1>4. ASSUME NEW k \in Nat, k \in P PROVE k + 1 \in P
  <2>. SUFFICES ASSUME k + 1 <= Len(q) PROVE Q(p[k + 1])
    OBVIOUS
  <2>1. k + 1 \in 1..Len(q) /\ (k + 1) - 1 = k /\ Q(p[k])
    BY <1>2, <1>4
  <2>2. Fits(client, p[k].items, p[k].why, q[k + 1]) /\ p[k + 1] = Hear(client, p[k], q[k + 1])
    BY <1>1, <2>1 DEF Goes
  <2>3. /\ Whole(client, p[k + 1]) /\ BeginningOf(p[k].items, p[k + 1].items)
        /\ p[k].why # "none" => p[k + 1].why = p[k].why
    BY <2>1, <2>2, HearKeeps
  <2>4. h.items \in Seq(Items) /\ p[k].items \in Seq(Items) /\ p[k + 1].items \in Seq(Items)
    BY <2>1, <2>3 DEF Whole, Good
  <2>5. BeginningOf(h.items, p[k + 1].items)
    BY <2>1, <2>3, <2>4, BeginningTransitive
  <2>. QED
    BY <2>1, <2>3, <2>5
<1>. HIDE DEF P
<1>5. Nat \subseteq P
  BY <1>3, <1>4, SpokenFold!Induction
<1>6. Q(p[Len(q)])
  BY <1>2, <1>5 DEF P
<1>7. p[Len(q)] = g
  BY <1>1 DEF Goes
<1>. QED
  BY <1>6, <1>7

-----------------------------------------------------------------------------
(***************************************************************************)
(* What a reply says in any dialect.                                       *)
(***************************************************************************)
(* What a reply says, whatever its dialect and the order its items are in: *)
(* its text, and the arguments of its calls, which are numbered.           *)
Content(items) == [spoken |-> Spoken(items),
                   args |-> [r \in 1..Len(CallsOf(items)) |-> CallsOf(items)[r].parts]]

Numbered(items) ==
  /\ \A i \in 1..Len(items) :
       items[i].kind = "call" => /\ items[i].id \in 1..Len(CallsOf(items))
                                 /\ CallsOf(items)[items[i].id] = items[i]
  /\ \A i, j \in 1..Len(items) :
       items[i].kind = "call" /\ items[j].kind = "call" /\ items[i].id = items[j].id => i = j
  /\ \A r \in 1..Len(CallsOf(items)) : CallsOf(items)[r].id = r

\* More text, a new call, more arguments of a call.
TextMore(c, parts) == [spoken |-> c.spoken \o parts, args |-> c.args]
CallNew(c, parts) == [spoken |-> c.spoken, args |-> Append(c.args, parts)]
CallMore(c, r, parts) == [spoken |-> c.spoken, args |-> [c.args EXCEPT ![r] = @ \o parts]]

(* The index and the number of each call. *)
CallKeys(items) == {<<items[k].at, items[k].id>> : k \in {i \in 1..Len(items) : items[i].kind = "call"}}

LEMMA ContentTyped ==
  ASSUME NEW a \in Seq(Items)
  PROVE  /\ Content(a) = [spoken |-> Content(a).spoken, args |-> Content(a).args]
         /\ Content(a).spoken \in Seq(Nat) /\ Content(a).args \in Seq(Seq(Nat))
         /\ Len(Content(a).args) = Len(CallsOf(a))
<1>1. Spoken(a) \in Seq(Nat) /\ Len(CallsOf(a)) \in Nat
  BY SaidTyped
<1>2. [r \in 1..Len(CallsOf(a)) |-> CallsOf(a)[r].parts] \in [1..Len(CallsOf(a)) -> Seq(Nat)]
  BY SaidTyped
<1>. DEFINE args == [r \in 1..Len(CallsOf(a)) |-> CallsOf(a)[r].parts]
<1>3. args \in Seq(Seq(Nat)) /\ Len(args) = Len(CallsOf(a))
  BY <1>1, <1>2
<1>4. Content(a) = [spoken |-> Spoken(a), args |-> args]
  BY DEF Content
<1>. HIDE DEF args
<1>. QED
  BY <1>1, <1>3, <1>4

(* Lists whose items have the same kinds, numbers and parts. *)
LEMMA ContentSame ==
  ASSUME NEW a \in Seq(Items), NEW b \in Seq(Items), Len(b) = Len(a),
         \A i \in 1..Len(a) : b[i].kind = a[i].kind /\ b[i].id = a[i].id /\ b[i].parts = a[i].parts
  PROVE  /\ Content(b) = Content(a)
         /\ Numbered(a) => Numbered(b)
<1>1. Spoken(b) = Spoken(a) /\ CallsAlike(a, b)
  BY ClosedSays
<1>2. Len(CallsOf(a)) \in Nat
  BY SaidTyped
<1>3. Content(b) = Content(a)
  BY <1>1 DEF Content, CallsAlike
<1>4. ASSUME Numbered(a) PROVE Numbered(b)
  <2>1. Together(a, b, CallsOf(a), CallsOf(b), Len(a))
    BY CallsTogether
  <2>2. ASSUME NEW i \in 1..Len(b), b[i].kind = "call"
        PROVE  b[i].id \in 1..Len(CallsOf(b)) /\ CallsOf(b)[b[i].id] = b[i]
    <3>1. PICK r \in 1..Len(CallsOf(a)) : CallsOf(a)[r] = a[i] /\ CallsOf(b)[r] = b[i]
      BY <2>1, <2>2 DEF Together
    <3>2. r = a[i].id
      BY <1>4, <3>1 DEF Numbered
    <3>. QED
      BY <1>1, <3>1, <3>2 DEF CallsAlike
  <2>3. \A i, j \in 1..Len(b) :
          b[i].kind = "call" /\ b[j].kind = "call" /\ b[i].id = b[j].id => i = j
    BY <1>4 DEF Numbered
  <2>4. \A r \in 1..Len(CallsOf(b)) : CallsOf(b)[r].id = r
    BY <1>1, <1>4 DEF Numbered, CallsAlike
  <2>. QED
    BY <2>2, <2>3, <2>4 DEF Numbered
<1>. QED
  BY <1>3, <1>4

(* A new item at the end, with the next number if it is a call. *)
LEMMA ContentAppend ==
  ASSUME NEW a \in Seq(Items), Numbered(a), NEW x \in Items,
         x.kind = "call" => x.id = Len(CallsOf(a)) + 1
  PROVE  /\ Numbered(Append(a, x))
         /\ x.kind = "text" => Content(Append(a, x)) = TextMore(Content(a), x.parts)
         /\ x.kind = "call" => Content(Append(a, x)) = CallNew(Content(a), x.parts)
<1>. DEFINE b == Append(a, x)
<1>0. /\ b \in Seq(Items) /\ Len(b) = Len(a) + 1 /\ b[Len(a) + 1] = x /\ Len(a) \in Nat
      /\ \A i \in 1..Len(a) : b[i] = a[i]
  OBVIOUS
<1>1. /\ CallsOf(a) \in Seq(Items) /\ Len(CallsOf(a)) \in Nat /\ Spoken(a) \in Seq(Nat)
      /\ \A r \in 1..Len(CallsOf(a)) : CallsOf(a)[r].parts \in Seq(Nat)
  BY SaidTyped
<1>2. \A i \in 1..Len(b) : i \in 1..Len(a) \/ i = Len(a) + 1
  BY <1>0
<1>3. CASE x.kind = "text"
  <2>1. Spoken(b) = Spoken(a) \o x.parts /\ CallsOf(b) = CallsOf(a)
    BY <1>3, AppendSays
  <2>. HIDE DEF b
  <2>2. Numbered(b)
    BY <1>0, <1>2, <1>3, <2>1 DEF Numbered
  <2>3. Content(b) = TextMore(Content(a), x.parts)
    BY <2>1 DEF Content, TextMore
  <2>. QED
    BY <1>3, <2>2, <2>3 DEF b
<1>4. CASE x.kind = "call"
  <2>1. Spoken(b) = Spoken(a) /\ CallsOf(b) = Append(CallsOf(a), x)
    BY <1>4, AppendSays
  <2>. HIDE DEF b
  <2>2. /\ Len(CallsOf(b)) = Len(CallsOf(a)) + 1 /\ CallsOf(b)[Len(CallsOf(a)) + 1] = x
        /\ \A r \in 1..Len(CallsOf(a)) : CallsOf(b)[r] = CallsOf(a)[r]
    BY <1>1, <2>1
  <2>3. ASSUME NEW i \in 1..Len(b), b[i].kind = "call"
        PROVE  b[i].id \in 1..Len(CallsOf(b)) /\ CallsOf(b)[b[i].id] = b[i]
    <3>1. CASE i = Len(a) + 1
      <4>1. b[i] = x /\ x.id = Len(CallsOf(a)) + 1 /\ Len(CallsOf(a)) + 1 \in 1..Len(CallsOf(b))
        BY <1>0, <1>1, <1>4, <2>2, <3>1
      <4>. QED
        BY <2>2, <4>1
    <3>2. CASE i \in 1..Len(a)
      <4>1. b[i] = a[i] /\ a[i].id \in 1..Len(CallsOf(a)) /\ CallsOf(a)[a[i].id] = a[i]
        BY <1>0, <2>3, <3>2 DEF Numbered
      <4>2. a[i].id \in 1..Len(CallsOf(b))
        BY <1>1, <2>2, <4>1
      <4>. QED
        BY <2>2, <4>1, <4>2
    <3>. QED
      BY <1>2, <3>1, <3>2
  <2>4. \A i \in 1..Len(a) : a[i].kind = "call" => a[i].id # x.id
    BY <1>1, <1>4 DEF Numbered
  <2>5. \A i, j \in 1..Len(b) :
          b[i].kind = "call" /\ b[j].kind = "call" /\ b[i].id = b[j].id => i = j
    BY <1>0, <1>2, <2>4 DEF Numbered
  <2>6. \A r \in 1..Len(CallsOf(b)) : CallsOf(b)[r].id = r
    BY <1>1, <1>4, <2>2 DEF Numbered
  <2>7. Numbered(b)
    BY <2>3, <2>5, <2>6 DEF Numbered
  <2>. DEFINE old == [r \in 1..Len(CallsOf(a)) |-> CallsOf(a)[r].parts]
  <2>. DEFINE new == [r \in 1..Len(CallsOf(b)) |-> CallsOf(b)[r].parts]
  <2>8. new = Append(old, x.parts)
    <3>1. old \in [1..Len(CallsOf(a)) -> Seq(Nat)] /\ x.parts \in Seq(Nat)
      BY <1>1 DEF Items
    <3>2. old \in Seq(Seq(Nat)) /\ Len(old) = Len(CallsOf(a))
      BY <1>1, <3>1
    <3>3. \A r \in 1..Len(CallsOf(a)) : old[r] = CallsOf(a)[r].parts
      OBVIOUS
    <3>. HIDE DEF old
    <3>4. /\ Append(old, x.parts) = [r \in 1..(Len(CallsOf(a)) + 1) |-> Append(old, x.parts)[r]]
          /\ Append(old, x.parts)[Len(CallsOf(a)) + 1] = x.parts
          /\ \A r \in 1..Len(CallsOf(a)) : Append(old, x.parts)[r] = old[r]
      BY <1>1, <3>1, <3>2
    <3>5. \A r \in 1..(Len(CallsOf(a)) + 1) : Append(old, x.parts)[r] = CallsOf(b)[r].parts
      BY <1>1, <2>2, <3>3, <3>4
    <3>. QED
      BY <2>2, <3>4, <3>5
  <2>9. Content(b) = [spoken |-> Spoken(b), args |-> new] /\ Content(a) = [spoken |-> Spoken(a), args |-> old]
    BY DEF Content
  <2>. HIDE DEF new, old
  <2>10. Content(b) = CallNew(Content(a), x.parts)
    BY <2>1, <2>8, <2>9 DEF CallNew
  <2>. QED
    BY <1>4, <2>7, <2>10 DEF b
<1>. QED
  BY <1>3, <1>4 DEF Items

(* A call that has more arguments, and nothing else has changed. *)
LEMMA ContentCall ==
  ASSUME NEW a \in Seq(Items), Numbered(a), NEW k \in 1..Len(a), a[k].kind = "call",
         NEW args \in Seq(Nat), NEW b \in Seq(Items), Len(b) = Len(a),
         \A i \in 1..Len(a) : b[i].kind = a[i].kind /\ b[i].id = a[i].id,
         \A i \in 1..Len(a) : i # k => b[i] = a[i],
         Longer(a, k, args, b)
  PROVE  /\ Numbered(b) /\ Content(b) = CallMore(Content(a), a[k].id, args)
<1>1. \A i \in 1..Len(a) : SameSpeech(a[i], b[i])
  BY DEF SameSpeech
<1>2. Spoken(b) = Spoken(a)
  BY <1>1, SpokenSame, ItemsParted
<1>3. Together(a, b, CallsOf(a), CallsOf(b), Len(a))
  BY CallsTogether
<1>4. /\ CallsOf(a) \in Seq(Items) /\ Len(CallsOf(a)) \in Nat /\ Len(CallsOf(b)) = Len(CallsOf(a))
      /\ \A r \in 1..Len(CallsOf(a)) : CallsOf(a)[r].parts \in Seq(Nat)
  BY <1>3, SaidTyped DEF Together
<1>5. ASSUME NEW i \in 1..Len(b), b[i].kind = "call"
      PROVE  b[i].id \in 1..Len(CallsOf(b)) /\ CallsOf(b)[b[i].id] = b[i]
  <2>1. PICK r \in 1..Len(CallsOf(a)) : CallsOf(a)[r] = a[i] /\ CallsOf(b)[r] = b[i]
    BY <1>3, <1>5 DEF Together
  <2>2. r = a[i].id
    BY <2>1 DEF Numbered
  <2>. QED
    BY <1>4, <2>1, <2>2
<1>6. \A i, j \in 1..Len(b) :
        b[i].kind = "call" /\ b[j].kind = "call" /\ b[i].id = b[j].id => i = j
  BY DEF Numbered
<1>7. ASSUME NEW r \in 1..Len(CallsOf(b)) PROVE CallsOf(b)[r].id = r
  <2>1. PICK i \in 1..Len(a) : CallsOf(a)[r] = a[i] /\ CallsOf(b)[r] = b[i]
    BY <1>3, <1>4 DEF Together
  <2>. QED
    BY <1>4, <2>1 DEF Numbered
<1>8. Numbered(b)
  BY <1>5, <1>6, <1>7 DEF Numbered
<1>. DEFINE n == a[k].id
<1>. DEFINE old == [r \in 1..Len(CallsOf(a)) |-> CallsOf(a)[r].parts]
<1>. DEFINE new == [r \in 1..Len(CallsOf(b)) |-> CallsOf(b)[r].parts]
<1>9. /\ n \in 1..Len(CallsOf(a)) /\ CallsOf(a)[n] = a[k] /\ CallsOf(b)[n] = b[k]
  <2>1. b[k].id = n /\ b[k].kind = "call"
    OBVIOUS
  <2>. QED
    BY <1>5, <2>1 DEF Numbered
<1>10. ASSUME NEW r \in 1..Len(CallsOf(a)), r # n PROVE CallsOf(b)[r].parts = CallsOf(a)[r].parts
  <2>1. PICK i \in 1..Len(a) : CallsOf(a)[r] = a[i] /\ CallsOf(b)[r] = b[i]
    BY <1>3 DEF Together
  <2>2. i # k
    BY <1>10, <2>1 DEF Numbered
  <2>. QED
    BY <2>1, <2>2
<1>11. CallsOf(b)[n].parts = CallsOf(a)[n].parts \o args
  BY <1>9 DEF Longer
<1>12. /\ old = [r \in 1..Len(CallsOf(a)) |-> old[r]] /\ \A r \in 1..Len(CallsOf(a)) : old[r] = CallsOf(a)[r].parts
  OBVIOUS
<1>13. new = [r \in 1..Len(CallsOf(a)) |-> CallsOf(b)[r].parts]
  BY <1>4
<1>14. Content(b) = [spoken |-> Spoken(b), args |-> new] /\ Content(a) = [spoken |-> Spoken(a), args |-> old]
  BY DEF Content
<1>. HIDE DEF n, old, new
<1>15. new = [old EXCEPT ![n] = old[n] \o args]
  BY <1>9, <1>10, <1>11, <1>12, <1>13
<1>16. Content(b) = CallMore(Content(a), n, args)
  BY <1>2, <1>14, <1>15 DEF CallMore
<1>. QED
  BY <1>8, <1>16 DEF n

(* An item is extended: its last text, or any call. *)
LEMMA ContentExtend ==
  ASSUME NEW a \in Seq(Items), Numbered(a), NEW k \in 1..Len(a), NEW args \in Seq(Nat),
         a[k].kind = "text" => LastText(a, k)
  PROVE  /\ Numbered(Extend(a, k, args))
         /\ a[k].kind = "text" => Content(Extend(a, k, args)) = TextMore(Content(a), args)
         /\ a[k].kind = "call" => Content(Extend(a, k, args)) = CallMore(Content(a), a[k].id, args)
<1>. DEFINE b == Extend(a, k, args)
<1>1. Longer(a, k, args, b) /\ Else(a, k, b)
  BY ExtendIs
<1>2. CASE a[k].kind = "text"
  <2>1. Spoken(b) = Spoken(a) \o args /\ CallsAlike(a, b)
    BY <1>2, ExtendSpeaks
  <2>2. Together(a, b, CallsOf(a), CallsOf(b), Len(a))
    <3>1. b \in Seq(Items) /\ Len(b) = Len(a) /\ \A i \in 1..Len(a) : a[i].kind = b[i].kind
      BY <1>1 DEF Else
    <3>. HIDE DEF b
    <3>. QED
      BY <3>1, CallsTogether
  <2>. HIDE DEF b
  <2>3. Content(b) = TextMore(Content(a), args)
    BY <2>1 DEF Content, TextMore, CallsAlike
  <2>4. ASSUME NEW i \in 1..Len(b), b[i].kind = "call"
        PROVE  b[i].id \in 1..Len(CallsOf(b)) /\ CallsOf(b)[b[i].id] = b[i]
    <3>1. i \in 1..Len(a) /\ a[i].kind = "call" /\ b[i].id = a[i].id
      BY <1>1, <2>4 DEF Else
    <3>2. PICK r \in 1..Len(CallsOf(a)) : CallsOf(a)[r] = a[i] /\ CallsOf(b)[r] = b[i]
      BY <2>2, <3>1 DEF Together
    <3>3. r = a[i].id
      BY <3>2 DEF Numbered
    <3>. QED
      BY <2>1, <3>1, <3>2, <3>3 DEF CallsAlike
  <2>5. \A i, j \in 1..Len(b) :
          b[i].kind = "call" /\ b[j].kind = "call" /\ b[i].id = b[j].id => i = j
    BY <1>1 DEF Numbered, Else
  <2>6. \A r \in 1..Len(CallsOf(b)) : CallsOf(b)[r].id = r
    BY <2>1 DEF Numbered, CallsAlike
  <2>7. Numbered(b)
    BY <2>4, <2>5, <2>6 DEF Numbered
  <2>. QED
    BY <1>2, <2>3, <2>7 DEF b
<1>3. CASE a[k].kind = "call"
  <2>. HIDE DEF b
  <2>1. /\ b \in Seq(Items) /\ Len(b) = Len(a)
        /\ \A i \in 1..Len(a) : b[i].kind = a[i].kind /\ b[i].id = a[i].id
        /\ \A i \in 1..Len(a) : i # k => b[i] = a[i]
    BY <1>1 DEF Else
  <2>2. Numbered(b) /\ Content(b) = CallMore(Content(a), a[k].id, args)
    BY <1>1, <1>3, <2>1, ContentCall
  <2>. QED
    BY <1>3, <2>2 DEF b
<1>4. a[k].kind = "text" \/ a[k].kind = "call"
  <2>1. a[k] \in Items
    OBVIOUS
  <2>. QED
    BY <2>1 DEF Items
<1>. QED
  BY <1>2, <1>3, <1>4

LEMMA ContentShut ==
  ASSUME NEW a \in Seq(Items), Numbered(a), NEW k \in 1..Len(a)
  PROVE  Numbered(Shut(a, k)) /\ Content(Shut(a, k)) = Content(a) /\ CallKeys(Shut(a, k)) = CallKeys(a)
<1>. DEFINE b == Shut(a, k)
<1>1. /\ b \in Seq(Items) /\ Len(b) = Len(a)
      /\ \A i \in 1..Len(a) : /\ b[i].at = a[i].at /\ b[i].kind = a[i].kind
                              /\ b[i].id = a[i].id /\ b[i].parts = a[i].parts
  BY ShutIs
<1>. HIDE DEF b
<1>2. Content(b) = Content(a) /\ Numbered(b)
  BY <1>1, ContentSame
<1>3. CallKeys(b) = CallKeys(a)
  BY <1>1 DEF CallKeys
<1>. QED
  BY <1>2, <1>3 DEF b

LEMMA ContentAllShut ==
  ASSUME NEW a \in Seq(Items), Numbered(a)
  PROVE  Numbered(AllShut(a)) /\ Content(AllShut(a)) = Content(a) /\ CallKeys(AllShut(a)) = CallKeys(a)
<1>. DEFINE b == AllShut(a)
<1>1. /\ b \in Seq(Items) /\ Len(b) = Len(a)
      /\ \A i \in 1..Len(a) : /\ b[i].at = a[i].at /\ b[i].kind = a[i].kind
                              /\ b[i].id = a[i].id /\ b[i].parts = a[i].parts
  BY AllShutIs
<1>. HIDE DEF b
<1>2. Content(b) = Content(a) /\ Numbered(b)
  BY <1>1, ContentSame
<1>3. CallKeys(b) = CallKeys(a)
  BY <1>1 DEF CallKeys
<1>. QED
  BY <1>2, <1>3 DEF b

LEMMA NothingContent ==
  /\ Numbered(<<>>) /\ CallKeys(<<>>) = {} /\ Len(CallsOf(<<>>)) = 0 /\ <<>> \in Seq(Items)
<1>1. Len(<<>>) = 0 /\ CallsOf(<<>>) = <<>> /\ <<>> \in Seq(Items) /\ 1..0 = {}
  BY NothingSaid
<1>. QED
  BY <1>1 DEF Numbered, CallKeys

(* How the keys of the calls change. *)
LEMMA KeysAppend ==
  ASSUME NEW a \in Seq(Items), NEW x \in Items
  PROVE  CallKeys(Append(a, x)) = CallKeys(a) \cup (IF x.kind = "call" THEN {<<x.at, x.id>>} ELSE {})
<1>. DEFINE b == Append(a, x)
<1>0. /\ Len(b) = Len(a) + 1 /\ b[Len(a) + 1] = x /\ Len(a) \in Nat
      /\ \A i \in 1..Len(a) : b[i] = a[i]
  OBVIOUS
<1>. HIDE DEF b
<1>1. ASSUME NEW i \in 1..Len(b), b[i].kind = "call"
      PROVE  <<b[i].at, b[i].id>> \in CallKeys(a) \cup (IF x.kind = "call" THEN {<<x.at, x.id>>} ELSE {})
  <2>1. i \in 1..Len(a) \/ i = Len(a) + 1
    BY <1>0
  <2>. QED
    BY <1>0, <1>1, <2>1 DEF CallKeys
<1>2. ASSUME NEW i \in 1..Len(a), a[i].kind = "call" PROVE <<a[i].at, a[i].id>> \in CallKeys(b)
  <2>1. i \in 1..Len(b) /\ b[i] = a[i]
    BY <1>0
  <2>. QED
    BY <1>2, <2>1 DEF CallKeys
<1>3. x.kind = "call" => <<x.at, x.id>> \in CallKeys(b)
  <2>1. Len(a) + 1 \in 1..Len(b)
    BY <1>0
  <2>. QED
    BY <1>0, <2>1 DEF CallKeys
<1>4. CallKeys(b) = CallKeys(a) \cup (IF x.kind = "call" THEN {<<x.at, x.id>>} ELSE {})
  BY <1>1, <1>2, <1>3 DEF CallKeys
<1>. QED
  BY <1>4 DEF b

LEMMA KeysExtend ==
  ASSUME NEW a \in Seq(Items), NEW k \in 1..Len(a), NEW args \in Seq(Nat)
  PROVE  CallKeys(Extend(a, k, args)) = CallKeys(a)
<1>1. Else(a, k, Extend(a, k, args))
  BY ExtendIs
<1>. QED
  BY <1>1 DEF CallKeys, Else

-----------------------------------------------------------------------------
(* How a chunk moves a reply in the Chat dialect. *)
LEMMA ChatText ==
  ASSUME NEW h, Whole("chat", h), Numbered(h.items), h.why = "none",
         NEW c, c.d = "text", c.p \in Nat, NEW g, g = Hear("chat", h, c)
  PROVE  /\ Numbered(g.items) /\ CallKeys(g.items) = CallKeys(h.items) /\ g.why = "none"
         /\ Content(g.items) = TextMore(Content(h.items), <<c.p>>)
<1>0. /\ h = Heard(h.items, h.why) /\ h.items \in Seq(Items) /\ ChatPlaced(h.items)
      /\ <<c.p>> \in Seq(Nat)
  BY DEF Whole, Good
<1>. DEFINE a == h.items
<1>1. g = HearChat(Heard(a, h.why), c)
  BY <1>0 DEF Hear
<1>2. CASE /\ \A i \in 1..Len(a) : a[i].kind # "text"
           /\ g = Heard(Append(a, Item(-1, "text", 0, <<c.p>>)), h.why)
  <2>. DEFINE x == Item(-1, "text", 0, <<c.p>>)
  <2>1. x \in Items /\ x.kind = "text" /\ x.parts = <<c.p>>
    BY <1>0 DEF Item, Items
  <2>. HIDE DEF x
  <2>2. g.items = Append(a, x) /\ g.why = h.why
    BY <1>2 DEF Heard, x
  <2>3. Numbered(Append(a, x)) /\ Content(Append(a, x)) = TextMore(Content(a), x.parts)
    BY <1>0, <2>1, ContentAppend
  <2>4. CallKeys(Append(a, x)) = CallKeys(a)
    BY <1>0, <2>1, KeysAppend
  <2>. QED
    BY <2>1, <2>2, <2>3, <2>4
<1>3. CASE \E k \in 1..Len(a) : /\ a[k].kind = "text" /\ LastText(a, k)
                                /\ g = Heard(Extend(a, k, <<c.p>>), h.why)
  <2>1. PICK k \in 1..Len(a) : /\ a[k].kind = "text" /\ LastText(a, k)
                               /\ g = Heard(Extend(a, k, <<c.p>>), h.why)
    BY <1>3
  <2>2. g.items = Extend(a, k, <<c.p>>) /\ g.why = h.why
    BY <2>1 DEF Heard
  <2>3. Numbered(g.items) /\ Content(g.items) = TextMore(Content(a), <<c.p>>)
    BY <1>0, <2>1, <2>2, ContentExtend
  <2>4. CallKeys(g.items) = CallKeys(a)
    BY <1>0, <2>2, KeysExtend
  <2>. QED
    BY <2>2, <2>3, <2>4
<1>4. \/ /\ \A i \in 1..Len(a) : a[i].kind # "text"
         /\ g = Heard(Append(a, Item(-1, "text", 0, <<c.p>>)), h.why)
      \/ \E k \in 1..Len(a) : /\ a[k].kind = "text" /\ LastText(a, k)
                              /\ g = Heard(Extend(a, k, <<c.p>>), h.why)
  BY <1>0, <1>1, HearText
<1>. QED
  BY <1>2, <1>3, <1>4

(* More arguments of a call that has begun. *)
LEMMA ChatMore ==
  ASSUME NEW h, Whole("chat", h), Numbered(h.items), h.why = "none",
         NEW c, c.d = "call", c.args \in Seq(Nat), NEW id, <<c.at, id>> \in CallKeys(h.items),
         NEW g, g = Hear("chat", h, c)
  PROVE  /\ Numbered(g.items) /\ CallKeys(g.items) = CallKeys(h.items) /\ g.why = "none"
         /\ Content(g.items) = CallMore(Content(h.items), id, c.args)
<1>0. h = Heard(h.items, h.why) /\ h.items \in Seq(Items) /\ ChatPlaced(h.items)
  BY DEF Whole, Good
<1>. DEFINE a == h.items
<1>1. g = HearChat(Heard(a, h.why), c)
  BY <1>0 DEF Hear
<1>2. PICK i \in 1..Len(a) : a[i].kind = "call" /\ a[i].at = c.at /\ a[i].id = id
  BY DEF CallKeys
<1>3. PICK k \in 1..Len(a) : /\ a[k].at = c.at /\ a[k].kind = "call"
                             /\ g = Heard(Extend(a, k, c.args), h.why)
  BY <1>0, <1>1, <1>2, HearCall
<1>4. k = i
  BY <1>0, <1>2, <1>3 DEF ChatPlaced
<1>5. g.items = Extend(a, k, c.args) /\ g.why = h.why
  BY <1>3 DEF Heard
<1>6. Numbered(g.items) /\ Content(g.items) = CallMore(Content(a), a[k].id, c.args)
  BY <1>0, <1>3, <1>5, ContentExtend
<1>7. CallKeys(g.items) = CallKeys(a)
  BY <1>0, <1>5, KeysExtend
<1>. QED
  BY <1>2, <1>4, <1>5, <1>6, <1>7

(* A new call, with the next number. *)
LEMMA ChatNew ==
  ASSUME NEW h, Whole("chat", h), Numbered(h.items), h.why = "none",
         NEW c, c.d = "call", c.at \in Nat, c.args \in Seq(Nat), c.id = Len(CallsOf(h.items)) + 1,
         \A id : <<c.at, id>> \notin CallKeys(h.items),
         NEW g, g = Hear("chat", h, c)
  PROVE  /\ Numbered(g.items) /\ CallKeys(g.items) = CallKeys(h.items) \cup {<<c.at, c.id>>}
         /\ g.why = "none" /\ Content(g.items) = CallNew(Content(h.items), c.args)
<1>0. h = Heard(h.items, h.why) /\ h.items \in Seq(Items) /\ ChatPlaced(h.items)
  BY DEF Whole, Good
<1>. DEFINE a == h.items
<1>1. g = HearChat(Heard(a, h.why), c)
  BY <1>0 DEF Hear
<1>2. \A i \in 1..Len(a) : ~(a[i].kind = "call" /\ a[i].at = c.at)
  BY DEF CallKeys
<1>3. g = Heard(Append(a, Item(c.at, "call", c.id, c.args)), h.why)
  BY <1>0, <1>1, <1>2, HearCall
<1>. DEFINE x == Item(c.at, "call", c.id, c.args)
<1>4. Len(CallsOf(a)) + 1 \in Nat
  BY <1>0, SaidTyped
<1>5. x \in Items /\ x.kind = "call" /\ x.id = c.id /\ x.at = c.at /\ x.parts = c.args
  BY <1>4 DEF Item, Items
<1>6. g.items = Append(a, x) /\ g.why = h.why
  BY <1>3 DEF Heard
<1>. HIDE DEF x
<1>7. Numbered(g.items) /\ Content(g.items) = CallNew(Content(a), x.parts)
  BY <1>0, <1>5, <1>6, ContentAppend
<1>8. CallKeys(g.items) = CallKeys(a) \cup {<<x.at, x.id>>}
  BY <1>0, <1>5, <1>6, KeysAppend
<1>. QED
  BY <1>5, <1>6, <1>7, <1>8

LEMMA ChatFinish ==
  ASSUME NEW h, Whole("chat", h), Numbered(h.items),
         NEW c, c.d = "finish", NEW g, g = Hear("chat", h, c)
  PROVE  /\ Numbered(g.items) /\ CallKeys(g.items) = CallKeys(h.items) /\ g.why = c.why
         /\ Content(g.items) = Content(h.items)
<1>0. h = Heard(h.items, h.why) /\ h.items \in Seq(Items)
  BY DEF Whole, Good
<1>1. g = Heard(AllShut(h.items), c.why)
  BY <1>0, HearFinish DEF Hear
<1>2. g.items = AllShut(h.items) /\ g.why = c.why
  BY <1>1 DEF Heard
<1>. QED
  BY <1>0, <1>2, ContentAllShut

LEMMA ChatIdle ==
  ASSUME NEW h, NEW c, c.d \in {"role", "usage", "done"}
  PROVE  Hear("chat", h, c) = h
BY DEF Hear, HearChat

(* Two calls have two indices, and two numbers. *)
LEMMA KeysApart ==
  ASSUME NEW a \in Seq(Items), Numbered(a), NEW x \in CallKeys(a)
  PROVE  x = <<x[1], x[2]>> /\ x[1] \in Int /\ x[2] \in 1..Len(CallsOf(a))
<1>1. PICK k \in 1..Len(a) : a[k].kind = "call" /\ x = <<a[k].at, a[k].id>>
  BY DEF CallKeys
<1>2. a[k] \in Items
  OBVIOUS
<1>. QED
  BY <1>1, <1>2 DEF Items, Numbered

LEMMA ChatKeysApart ==
  ASSUME NEW a \in Seq(Items), ChatPlaced(a), NEW at, NEW id, NEW jd,
         <<at, id>> \in CallKeys(a), <<at, jd>> \in CallKeys(a)
  PROVE  id = jd
<1>1. PICK i \in 1..Len(a) : a[i].kind = "call" /\ a[i].at = at /\ a[i].id = id
  BY DEF CallKeys
<1>2. PICK j \in 1..Len(a) : a[j].kind = "call" /\ a[j].at = at /\ a[j].id = jd
  BY DEF CallKeys
<1>. QED
  BY <1>1, <1>2 DEF ChatPlaced

-----------------------------------------------------------------------------
(* Frames, and the stretches of road a translator lays with them. *)
LEMMA FramesMade ==
  /\ Role \in Frames /\ Done \in Frames /\ Over \in Frames
  /\ \A p \in Nat : Text(p) \in Frames
  /\ \A at \in Nat, id \in Nat, args \in Seq(Nat) : Call(at, id, args) \in Frames
  /\ \A why \in Whys, u \in Usage : Finish(why, u) \in Frames /\ Why(why, u) \in Frames
  /\ \A u \in Usage : Begun(u) \in Frames /\ UsageChunk(u) \in Frames
  /\ \A at \in Nat, kind \in {"text", "call"}, id \in Nat : Open(at, kind, id) \in Frames
  /\ \A at \in Nat, args \in Seq(Nat) : Delta(at, args) \in Frames
  /\ \A at \in Nat : Close(at) \in Frames
<1>1. Role \in Frames /\ Done \in Frames /\ Over \in Frames
  BY DEF Role, Done, Over, Frames
<1>2. \A p \in Nat : Text(p) \in Frames
  BY DEF Text, Frames
<1>3. \A at \in Nat, id \in Nat, args \in Seq(Nat) : Call(at, id, args) \in Frames
  BY DEF Call, Frames
<1>4. \A why \in Whys, u \in Usage : Finish(why, u) \in Frames /\ Why(why, u) \in Frames
  BY DEF Finish, Why, Frames
<1>5. \A u \in Usage : Begun(u) \in Frames /\ UsageChunk(u) \in Frames
  BY DEF Begun, UsageChunk, Frames
<1>6. \A at \in Nat, kind \in {"text", "call"}, id \in Nat : Open(at, kind, id) \in Frames
  BY DEF Open, Frames
<1>7. \A at \in Nat, args \in Seq(Nat) : Delta(at, args) \in Frames
  BY DEF Delta, Frames
<1>8. \A at \in Nat : Close(at) \in Frames
  BY DEF Close, Frames
<1>. QED
  BY <1>1, <1>2, <1>3, <1>4, <1>5, <1>6, <1>7, <1>8

LEMMA NoUsageIs == NoUsage \in Usage
BY DEF NoUsage, Usage, Usages

LEMMA RoadBegin ==
  ASSUME NEW client, client # "chat", NEW h, NEW st
  PROVE  Road(client, h, Begin(st), h)
<1>1. Begun(NoUsage) \in Frames /\ Fits(client, h.items, h.why, Begun(NoUsage))
  BY FramesMade, NoUsageIs DEF Fits, FitsEvent, Begun
<1>2. Hear(client, h, Begun(NoUsage)) = h
  BY DEF Hear, HearEvent, Begun
<1>3. Road(client, h, <<Begun(NoUsage)>>, h)
  BY <1>1, <1>2, RoadOne
<1>. QED
  BY <1>3, RoadNone DEF Begin

LEMMA RoadDelta ==
  ASSUME NEW client, client # "chat", NEW h, Whole(client, h), h.why = "none",
         NEW at \in Nat, at + 1 \in 1..Len(h.items), h.items[at + 1].open,
         h.items[at + 1].kind = "text" => LastText(h.items, at + 1), NEW args \in Seq(Nat)
  PROVE  Road(client, h, <<Delta(at, args)>>, Heard(Extend(h.items, at + 1, args), "none"))
<1>. DEFINE f == Delta(at, args)
<1>1. f \in Frames /\ f.d = "delta" /\ f.at = at /\ f.args = args
  BY FramesMade DEF Delta
<1>. HIDE DEF f
<1>2. Fits(client, h.items, h.why, f)
  BY <1>1 DEF Fits, FitsEvent
<1>3. h = Heard(h.items, "none") /\ h.items \in Seq(Items) /\ Placed(h.items)
  BY DEF Whole, Good
<1>4. HearEvent(Heard(h.items, "none"), f) = Heard(Extend(h.items, f.at + 1, f.args), "none")
  BY <1>1, <1>3, HearDelta
<1>5. Hear(client, h, f) = Heard(Extend(h.items, at + 1, args), "none")
  BY <1>1, <1>3, <1>4 DEF Hear
<1>6. Road(client, h, <<f>>, Hear(client, h, f))
  BY <1>1, <1>2, RoadOne
<1>. QED
  BY <1>5, <1>6 DEF f

LEMMA RoadClose ==
  ASSUME NEW client, client # "chat", NEW h, Whole(client, h), h.why = "none",
         NEW at \in Nat, at + 1 \in 1..Len(h.items), h.items[at + 1].open
  PROVE  Road(client, h, <<Close(at)>>, Heard(Shut(h.items, at + 1), "none"))
<1>. DEFINE f == Close(at)
<1>1. f \in Frames /\ f.d = "close" /\ f.at = at
  BY FramesMade DEF Close
<1>. HIDE DEF f
<1>2. Fits(client, h.items, h.why, f)
  BY <1>1 DEF Fits, FitsEvent
<1>3. h = Heard(h.items, "none") /\ h.items \in Seq(Items) /\ Placed(h.items)
  BY DEF Whole, Good
<1>4. HearEvent(Heard(h.items, "none"), f) = Heard(Shut(h.items, f.at + 1), "none")
  BY <1>1, <1>3, HearClose
<1>5. Hear(client, h, f) = Heard(Shut(h.items, at + 1), "none")
  BY <1>1, <1>3, <1>4 DEF Hear
<1>6. Road(client, h, <<f>>, Hear(client, h, f))
  BY <1>1, <1>2, RoadOne
<1>. QED
  BY <1>5, <1>6 DEF f

LEMMA RoadEmptyItem ==
  ASSUME NEW client, client # "chat", NEW h, Whole(client, h), h.why = "none",
         NEW kind \in {"text", "call"}, NEW id \in Nat
  PROVE  Road(client, h, <<Open(Len(h.items), kind, id)>>,
              Heard(Append(h.items, Item(Len(h.items), kind, id, <<>>)), "none"))
<1>. DEFINE f == Open(Len(h.items), kind, id)
<1>0. h = Heard(h.items, "none") /\ h.items \in Seq(Items) /\ Len(h.items) \in Nat
  BY DEF Whole, Good
<1>1. f \in Frames /\ f.d = "open" /\ f.at = Len(h.items) /\ f.kind = kind /\ f.id = id
  BY <1>0, FramesMade DEF Open
<1>2. HearEvent(Heard(h.items, "none"), f) =
        Heard(Append(h.items, Item(Len(h.items), kind, id, <<>>)), "none")
  BY HearOpen
<1>. HIDE DEF f
<1>3. Fits(client, h.items, h.why, f)
  BY <1>1 DEF Fits, FitsEvent
<1>4. Hear(client, h, f) = Heard(Append(h.items, Item(Len(h.items), kind, id, <<>>)), "none")
  BY <1>0, <1>2 DEF Hear
<1>5. Road(client, h, <<f>>, Hear(client, h, f))
  BY <1>1, <1>3, RoadOne
<1>. QED
  BY <1>4, <1>5 DEF f

LEMMA ItemIs ==
  ASSUME NEW at \in Int, NEW kind \in {"text", "call"}, NEW id \in Nat, NEW parts \in Seq(Nat)
  PROVE  /\ Item(at, kind, id, parts) \in Items
         /\ Item(at, kind, id, parts).at = at /\ Item(at, kind, id, parts).kind = kind
         /\ Item(at, kind, id, parts).id = id /\ Item(at, kind, id, parts).parts = parts
         /\ Item(at, kind, id, parts).open
BY DEF Item, Items

(* An item that begins empty and is extended at once. *)
LEMMA BegunAndExtended ==
  ASSUME NEW a \in Seq(Items), NEW at \in Int, NEW kind \in {"text", "call"}, NEW id \in Nat,
         NEW args \in Seq(Nat)
  PROVE  Extend(Append(a, Item(at, kind, id, <<>>)), Len(a) + 1, args)
           = Append(a, Item(at, kind, id, args))
<1>. DEFINE x == Item(at, kind, id, <<>>)
<1>. DEFINE y == Item(at, kind, id, args)
<1>0. <<>> \in Seq(Nat)
  OBVIOUS
<1>x. x \in Items /\ x.at = at /\ x.kind = kind /\ x.id = id /\ x.parts = <<>> /\ x.open
  BY <1>0 DEF Item, Items
<1>y. y \in Items /\ y.at = at /\ y.kind = kind /\ y.id = id /\ y.parts = args /\ y.open
  BY <1>0 DEF Item, Items
<1>1. /\ x \in Items /\ x.at = at /\ x.kind = kind /\ x.id = id /\ x.parts = <<>> /\ x.open
      /\ y \in Items /\ y.at = at /\ y.kind = kind /\ y.id = id /\ y.parts = args /\ y.open
  BY <1>x, <1>y
<1>1a. y = [at |-> at, kind |-> kind, id |-> id, parts |-> args, open |-> TRUE]
  BY DEF Item
<1>. HIDE DEF x, y
<1>. DEFINE b == Append(a, x)
<1>. DEFINE c == Append(a, y)
<1>2. /\ b \in Seq(Items) /\ Len(b) = Len(a) + 1 /\ Len(a) + 1 \in 1..Len(b)
      /\ b[Len(a) + 1] = x /\ \A i \in 1..Len(a) : b[i] = a[i]
      /\ c \in Seq(Items) /\ Len(c) = Len(a) + 1
      /\ c[Len(a) + 1] = y /\ \A i \in 1..Len(a) : c[i] = a[i]
  BY <1>1
<1>. HIDE DEF b, c
<1>. DEFINE k == Len(a) + 1
<1>. DEFINE e == Extend(b, k, args)
<1>3. Longer(b, k, args, e) /\ Else(b, k, e)
  BY <1>2, ExtendIs
<1>4. k \in 1..Len(b) /\ Len(b) = k /\ Len(c) = k /\ b[k] = x /\ c[k] = y
      /\ \A i \in 1..k : i # k => i \in 1..Len(a)
  BY <1>2
<1>. HIDE DEF e, k
<1>5. e[k].parts = args
  <2>1. e[k].parts = <<>> \o args
    BY <1>1, <1>3, <1>4 DEF Longer
  <2>. QED
    BY <2>1
<1>6. /\ e \in Seq(Items) /\ Len(e) = k /\ \A i \in 1..k : i # k => e[i] = b[i]
      /\ e[k].at = at /\ e[k].kind = kind /\ e[k].id = id /\ e[k].open = TRUE /\ e[k] \in Items
  BY <1>1, <1>3, <1>4 DEF Else
<1>7. e[k] = y
  <2>1. e[k] = [at |-> e[k].at, kind |-> e[k].kind, id |-> e[k].id, parts |-> e[k].parts,
                open |-> e[k].open]
    BY <1>6, ItemParts
  <2>. QED
    BY <1>1a, <1>5, <1>6, <2>1
<1>8. \A i \in 1..k : e[i] = c[i]
  BY <1>2, <1>4, <1>6, <1>7
<1>9. e = c
  BY <1>2, <1>4, <1>6, <1>8
<1>. QED
  BY <1>9 DEF e, c, b, k, x, y

LEMMA RoadTwo ==
  ASSUME NEW client, NEW h, NEW f \in Frames, NEW e \in Frames, NEW g, NEW i,
         Road(client, h, <<f>>, g), Road(client, g, <<e>>, i)
  PROVE  Road(client, h, <<f, e>>, i)
<1>0. Len(<<f>>) = 1 /\ <<f>>[1] = f /\ Len(<<e>>) = 1 /\ <<e>>[1] = e /\ 1 - 1 = 0 /\ 1 \in 1..1
  OBVIOUS
<1>1. PICK p : Goes(client, h, <<f>>, g, p)
  BY DEF Road
<1>2. PICK s : Goes(client, g, <<e>>, i, s)
  BY DEF Road
<1>3. /\ p[0] = h /\ p[1] = g
      /\ Fits(client, h.items, h.why, f) /\ g = Hear(client, h, f)
  BY <1>0, <1>1 DEF Goes
<1>4. /\ s[0] = g /\ s[1] = i
      /\ Fits(client, g.items, g.why, e) /\ i = Hear(client, g, e)
  BY <1>0, <1>2 DEF Goes
<1>. DEFINE o == [k \in 0..2 |-> IF k = 0 THEN h ELSE IF k = 1 THEN g ELSE i]
<1>5. o = [k \in 0..2 |-> o[k]] /\ o[0] = h /\ o[1] = g /\ o[2] = i
  OBVIOUS
<1>6. /\ <<f, e>> \in Seq(Frames) /\ Len(<<f, e>>) = 2 /\ <<f, e>>[1] = f /\ <<f, e>>[2] = e
      /\ 1..2 = {1, 2} /\ 2 - 1 = 1
  OBVIOUS
<1>. HIDE DEF o
<1>7. Goes(client, h, <<f, e>>, i, o)
  BY <1>0, <1>3, <1>4, <1>5, <1>6 DEF Goes
<1>. QED
  BY <1>6, <1>7 DEF Road

LEMMA RoadItem ==
  ASSUME NEW client, client # "chat", NEW h, Whole(client, h), h.why = "none",
         NEW kind \in {"text", "call"}, NEW id \in Nat, NEW args \in Seq(Nat),
         NEW x, x = Item(Len(h.items), kind, id, args)
  PROVE  /\ Road(client, h, <<Open(Len(h.items), kind, id), Delta(Len(h.items), args)>>,
                 Heard(Append(h.items, x), "none"))
         /\ x \in Items /\ x.at = Len(h.items) /\ x.kind = kind /\ x.id = id /\ x.parts = args /\ x.open
<1>0. h.items \in Seq(Items) /\ Len(h.items) \in Nat /\ <<>> \in Seq(Nat)
  BY DEF Whole, Good
<1>. DEFINE n == Len(h.items)
<1>. DEFINE y == Item(n, kind, id, <<>>)
<1>. DEFINE b == Append(h.items, y)
<1>1. y \in Items /\ y.kind = kind /\ y.open
  BY <1>0 DEF Item, Items
<1>2. x \in Items /\ x.at = n /\ x.kind = kind /\ x.id = id /\ x.parts = args /\ x.open
  BY <1>0, ItemIs
<1>3. Road(client, h, <<Open(n, kind, id)>>, Heard(b, "none"))
  BY RoadEmptyItem
<1>4. Whole(client, Heard(b, "none"))
  BY <1>3, RoadKeeps
<1>5. Extend(b, n + 1, args) = Append(h.items, x)
  BY <1>0, BegunAndExtended
<1>. HIDE DEF y
<1>6. b \in Seq(Items) /\ Len(b) = n + 1 /\ n + 1 \in 1..Len(b) /\ b[n + 1] = y
  BY <1>0, <1>1
<1>7. Heard(b, "none").items = b /\ Heard(b, "none").why = "none"
  BY DEF Heard
<1>. HIDE DEF b
<1>8. LastText(b, n + 1)
  BY <1>0, <1>6 DEF LastText
<1>. HIDE DEF n
<1>. DEFINE g == Heard(b, "none")
<1>9. g.items = b /\ g.why = "none" /\ Whole(client, g)
  BY <1>4, <1>7
<1>. HIDE DEF g
<1>10. /\ n \in Nat /\ n + 1 \in 1..Len(g.items) /\ g.items[n + 1].open
       /\ g.items[n + 1].kind = "text" => LastText(g.items, n + 1)
  BY <1>0, <1>1, <1>6, <1>8, <1>9 DEF n
<1>11. Road(client, g, <<Delta(n, args)>>, Heard(Extend(g.items, n + 1, args), "none"))
  BY <1>9, <1>10, RoadDelta
<1>12. Road(client, h, <<Open(n, kind, id)>>, g)
  BY <1>3 DEF g
<1>13. Road(client, g, <<Delta(n, args)>>, Heard(Append(h.items, x), "none"))
  BY <1>5, <1>9, <1>11
<1>14. Open(n, kind, id) \in Frames /\ Delta(n, args) \in Frames
  BY <1>0, FramesMade DEF n
<1>15. Road(client, h, <<Open(n, kind, id), Delta(n, args)>>, Heard(Append(h.items, x), "none"))
  BY <1>12, <1>13, <1>14, RoadTwo
<1>. QED
  BY <1>2, <1>15 DEF n

LEMMA RoadWhy ==
  ASSUME NEW client, client # "chat", NEW h, Whole(client, h), h.why = "none",
         \A i \in 1..Len(h.items) : ~h.items[i].open,
         NEW why \in Whys \ {"none"}, NEW u \in Usage
  PROVE  Road(client, h, <<Why(why, u)>>, Heard(h.items, why))
<1>. DEFINE f == Why(why, u)
<1>1. f \in Frames /\ f.d = "why" /\ f.why = why
  BY FramesMade DEF Why
<1>. HIDE DEF f
<1>2. Fits(client, h.items, h.why, f)
  BY <1>1 DEF Fits, FitsEvent
<1>3. h = Heard(h.items, "none")
  BY DEF Whole
<1>4. HearEvent(Heard(h.items, "none"), f) = Heard(h.items, f.why)
  BY <1>1 DEF HearEvent, Heard
<1>5. Hear(client, h, f) = Heard(h.items, why)
  BY <1>1, <1>3, <1>4 DEF Hear
<1>6. Road(client, h, <<f>>, Hear(client, h, f))
  BY <1>1, <1>2, RoadOne
<1>. QED
  BY <1>5, <1>6 DEF f

LEMMA RoadOver ==
  ASSUME NEW client, client # "chat", NEW h
  PROVE  Road(client, h, <<Over>>, h)
<1>1. Over \in Frames /\ Fits(client, h.items, h.why, Over)
  BY FramesMade DEF Fits, FitsEvent, Over
<1>2. Hear(client, h, Over) = h
  BY DEF Hear, HearEvent, Over
<1>. QED
  BY <1>1, <1>2, RoadOne

-----------------------------------------------------------------------------
(* Items that are still open are closed, one after the other. *)
Closed(a, b, I) ==
  /\ b \in Seq(Items) /\ Len(b) = Len(a)
  /\ \A i \in 1..Len(a) : /\ b[i].at = a[i].at /\ b[i].kind = a[i].kind
                          /\ b[i].id = a[i].id /\ b[i].parts = a[i].parts
                          /\ b[i].open <=> a[i].open /\ i \notin I


LEMMA ClosedMore ==
  ASSUME NEW a \in Seq(Items), NEW b, NEW I, Closed(a, b, I), NEW k \in 1..Len(a)
  PROVE  Closed(a, Shut(b, k), I \cup {k})
<1>1. b \in Seq(Items) /\ Len(b) = Len(a) /\ k \in 1..Len(b)
  BY DEF Closed
<1>. DEFINE c == Shut(b, k)
<1>1a. c = Shut(b, k)
  OBVIOUS
<1>. HIDE DEF c
<1>2. /\ c \in Seq(Items) /\ Len(c) = Len(b)
      /\ \A i \in 1..Len(b) : i # k => c[i] = b[i]
      /\ \A i \in 1..Len(b) : /\ c[i].at = b[i].at /\ c[i].kind = b[i].kind
                              /\ c[i].id = b[i].id /\ c[i].parts = b[i].parts
      /\ ~c[k].open
  BY <1>1, <1>1a, ShutIs
<1>3. ASSUME NEW i \in 1..Len(a) PROVE c[i].open <=> a[i].open /\ i \notin I \cup {k}
  <2>1. CASE i = k
    BY <1>2, <2>1
  <2>2. CASE i # k
    BY <1>1, <1>2, <2>2 DEF Closed
  <2>. QED
    BY <2>1, <2>2
<1>4. Closed(a, c, I \cup {k})
  BY <1>1, <1>2, <1>3 DEF Closed
<1>. QED
  BY <1>4 DEF c

CloseFirst(bs, n) == [i \in 1..n |-> Close(bs[i])]
FirstPlaces(bs, n) == {bs[k] + 1 : k \in 1..n}

LEMMA ClosesNext ==
  ASSUME NEW bs \in Seq(Nat), NEW n \in Nat, n + 1 <= Len(bs)
  PROVE  /\ CloseFirst(bs, n + 1) = CloseFirst(bs, n) \o <<Close(bs[n + 1])>>
         /\ FirstPlaces(bs, n + 1) = FirstPlaces(bs, n) \cup {bs[n + 1] + 1}
<1>. DEFINE q == CloseFirst(bs, n)
<1>. DEFINE f == Close(bs[n + 1])
<1>1. \A i \in 1..n : bs[i] \in Nat /\ Close(bs[i]) \in Frames
  <2>1. \A i \in 1..n : bs[i] \in Nat
    OBVIOUS
  <2>. QED
    BY <2>1, FramesMade
<1>2. f \in Frames
  <2>1. bs[n + 1] \in Nat
    OBVIOUS
  <2>. QED
    BY <2>1, FramesMade
<1>3. q \in [1..n -> Frames] /\ \A i \in 1..n : q[i] = Close(bs[i])
  BY <1>1 DEF CloseFirst
<1>4. q \in Seq(Frames) /\ Len(q) = n
  BY <1>3
<1>5. CloseFirst(bs, n + 1) = [i \in 1..(n + 1) |-> IF i <= n THEN q[i] ELSE f]
  <2>1. \A i \in 1..(n + 1) : i \in 1..n \/ (i = n + 1 /\ ~(i <= n))
    OBVIOUS
  <2>2. \A i \in 1..(n + 1) : Close(bs[i]) = IF i <= n THEN q[i] ELSE f
    BY <1>3, <2>1
  <2>. HIDE DEF q, f
  <2>. QED
    BY <2>2 DEF CloseFirst
<1>. HIDE DEF q, f
<1>6. q \o <<f>> = [i \in 1..(n + 1) |-> IF i <= n THEN q[i] ELSE f]
  <2>1. Len(<<f>>) = 1 /\ <<f>>[1] = f /\ <<f>> \in Seq(Frames)
    BY <1>2
  <2>2. \A i \in 1..(n + 1) : (q \o <<f>>)[i] = IF i <= n THEN q[i] ELSE f
    <3>1. \A i \in 1..(n + 1) : i \in 1..n \/ (i = n + 1 /\ ~(i <= n))
      OBVIOUS
    <3>. QED
      BY <1>2, <1>4, <2>1, <3>1
  <2>3. q \o <<f>> \in Seq(Frames) /\ Len(q \o <<f>>) = n + 1
    BY <1>4, <2>1
  <2>. QED
    BY <2>2, <2>3
<1>7. FirstPlaces(bs, n + 1) = FirstPlaces(bs, n) \cup {bs[n + 1] + 1}
  <2>1. \A k \in 1..(n + 1) : k \in 1..n \/ k = n + 1
    OBVIOUS
  <2>2. n + 1 \in 1..(n + 1) /\ \A k \in 1..n : k \in 1..(n + 1)
    OBVIOUS
  <2>. QED
    BY <2>1, <2>2 DEF FirstPlaces
<1>. QED
  BY <1>5, <1>6, <1>7 DEF q, f

ClosedSoFar(client, h, bs, n) ==
  \E g : /\ Road(client, h, CloseFirst(bs, n), g) /\ g.why = "none"
         /\ Closed(h.items, g.items, FirstPlaces(bs, n))

LEMMA RoadCloses ==
  ASSUME NEW client, client # "chat", NEW h, Whole(client, h), h.why = "none",
         NEW bs \in Seq(Nat),
         \A k \in 1..Len(bs) : bs[k] + 1 \in 1..Len(h.items) /\ h.items[bs[k] + 1].open,
         \A k, j \in 1..Len(bs) : bs[k] = bs[j] => k = j
  PROVE  \E g : /\ Road(client, h, Closes(bs), g) /\ g.why = "none"
                /\ Closed(h.items, g.items, {bs[k] + 1 : k \in 1..Len(bs)})
<1>0. h.items \in Seq(Items) /\ Len(bs) \in Nat /\ DOMAIN bs = 1..Len(bs)
  BY DEF Whole, Good
<1>. DEFINE P == {n \in Nat : n <= Len(bs) => ClosedSoFar(client, h, bs, n)}
<1>1. 0 \in P
  <2>1. CloseFirst(bs, 0) = <<>> /\ FirstPlaces(bs, 0) = {}
    BY DEF CloseFirst, FirstPlaces
  <2>2. Road(client, h, <<>>, h)
    BY RoadNone
  <2>3. Closed(h.items, h.items, {})
    BY <1>0 DEF Closed
  <2>4. ClosedSoFar(client, h, bs, 0)
    BY <2>1, <2>2, <2>3 DEF ClosedSoFar
  <2>. QED
    BY <2>4
<1>2. ASSUME NEW n \in Nat, n \in P PROVE n + 1 \in P
  <2>. SUFFICES ASSUME n + 1 <= Len(bs) PROVE ClosedSoFar(client, h, bs, n + 1)
    OBVIOUS
  <2>0. ClosedSoFar(client, h, bs, n)
    BY <1>0, <1>2
  <2>1. PICK g : /\ Road(client, h, CloseFirst(bs, n), g) /\ g.why = "none"
                 /\ Closed(h.items, g.items, FirstPlaces(bs, n))
    BY <2>0 DEF ClosedSoFar
  <2>. DEFINE at == bs[n + 1]
  <2>2. /\ n + 1 \in 1..Len(bs) /\ at \in Nat /\ at + 1 \in 1..Len(h.items) /\ h.items[at + 1].open
    BY <1>0
  <2>3. at + 1 \notin FirstPlaces(bs, n)
    <3>1. ASSUME NEW k \in 1..n PROVE bs[k] # at
      <4>1. k \in 1..Len(bs) /\ k # n + 1
        BY <1>0
      <4>. QED
        BY <2>2, <4>1
    <3>2. \A k \in 1..n : bs[k] \in Nat
      BY <1>0
    <3>. QED
      BY <2>2, <3>1, <3>2 DEF FirstPlaces
  <2>4. Whole(client, g)
    BY <2>1, RoadKeeps
  <2>. HIDE DEF at
  <2>5. at + 1 \in 1..Len(g.items) /\ g.items[at + 1].open
    BY <2>1, <2>2, <2>3 DEF Closed
  <2>. DEFINE e == Heard(Shut(g.items, at + 1), "none")
  <2>6. Road(client, g, <<Close(at)>>, e)
    BY <2>1, <2>2, <2>4, <2>5, RoadClose
  <2>8. e.items = Shut(g.items, at + 1) /\ e.why = "none"
    BY DEF Heard
  <2>. HIDE DEF e
  <2>9. Closed(h.items, e.items, FirstPlaces(bs, n) \cup {at + 1})
    <3>1. Closed(h.items, Shut(g.items, at + 1), FirstPlaces(bs, n) \cup {at + 1})
      BY <1>0, <2>1, <2>2, ClosedMore
    <3>. QED
      BY <2>8, <3>1
  <2>10. /\ CloseFirst(bs, n + 1) = CloseFirst(bs, n) \o <<Close(at)>>
         /\ FirstPlaces(bs, n + 1) = FirstPlaces(bs, n) \cup {at + 1}
    BY ClosesNext DEF at
  <2>11. Road(client, h, CloseFirst(bs, n) \o <<Close(at)>>, e)
    BY <2>1, <2>6, RoadConcat
  <2>. QED
    BY <2>8, <2>9, <2>10, <2>11 DEF ClosedSoFar
<1>. HIDE DEF P
<1>3. Nat \subseteq P
  BY <1>1, <1>2, SpokenFold!Induction
<1>4. ClosedSoFar(client, h, bs, Len(bs))
  BY <1>0, <1>3 DEF P
<1>5. CloseFirst(bs, Len(bs)) = Closes(bs)
  BY <1>0 DEF Closes, CloseFirst
<1>. QED
  BY <1>4, <1>5 DEF ClosedSoFar, FirstPlaces

-----------------------------------------------------------------------------
(***************************************************************************)
(* From chat chunks to Messages events.                                    *)
(***************************************************************************)
(* The state of the translator from chat chunks to Messages events.        *)
IsClaude(st) == DOMAIN st = {"started", "next", "text", "tools"}

LEMMA ClaudeStarted ==
  ASSUME NEW st, IsClaude(st), NEW s, s = Started(st)
  PROVE  IsClaude(s) /\ s.next = st.next /\ s.text = st.text /\ s.tools = st.tools
BY DEF Started, IsClaude

LEMMA ClaudeTextOpened ==
  ASSUME NEW st, IsClaude(st), NEW s, s = TextOpened(st)
  PROVE  IsClaude(s) /\ s.next = st.next + 1 /\ s.text = st.next /\ s.tools = st.tools
BY DEF TextOpened, IsClaude

LEMMA ClaudeCallOpened ==
  ASSUME NEW st, IsClaude(st), NEW at, NEW s, s = CallOpened(st, at)
  PROVE  IsClaude(s) /\ s.next = st.next + 1 /\ s.text = st.text /\ s.tools = With(st.tools, at, st.next)
BY DEF CallOpened, IsClaude

LEMMA ClaudeIdle ==
  ASSUME NEW st, NEW c, c.d \in {"usage", "done"}
  PROVE  ClaudeEvents(st, c) = Emits(st, <<>>)
BY DEF ClaudeEvents

LEMMA ClaudeRole ==
  ASSUME NEW st, NEW c, c.d = "role"
  PROVE  ClaudeEvents(st, c) = Emits(Started(st), Begin(st))
BY DEF ClaudeEvents

LEMMA ClaudeTextMore ==
  ASSUME NEW st, NEW c, c.d = "text", st.text \in Int, st.text >= 0
  PROVE  ClaudeEvents(st, c) = Emits(Started(st), Begin(st) \o <<Delta(st.text, <<c.p>>)>>)
BY DEF ClaudeEvents

LEMMA ClaudeTextNew ==
  ASSUME NEW st, NEW c, c.d = "text", st.text \in Int, st.text < 0
  PROVE  ClaudeEvents(st, c) =
           Emits(TextOpened(Started(st)),
                 Begin(st) \o <<Open(st.next, "text", 0), Delta(st.next, <<c.p>>)>>)
BY DEF ClaudeEvents

LEMMA ClaudeCallMore ==
  ASSUME NEW st, NEW c, c.d = "call", c.at \in DOMAIN st.tools
  PROVE  ClaudeEvents(st, c) = Emits(Started(st), Begin(st) \o <<Delta(st.tools[c.at], c.args)>>)
BY DEF ClaudeEvents

LEMMA ClaudeCallNew ==
  ASSUME NEW st, NEW c, c.d = "call", c.at \notin DOMAIN st.tools, c.id # 0
  PROVE  ClaudeEvents(st, c) =
           Emits(CallOpened(Started(st), c.at),
                 Begin(st) \o <<Open(st.next, "call", c.id), Delta(st.next, c.args)>>)
BY DEF ClaudeEvents

LEMMA ClaudeFinish ==
  ASSUME NEW st, NEW c, c.d = "finish"
  PROVE  ClaudeEvents(st, c) =
           Emits(Started(st), (Begin(st) \o Closes(Blocks(st)))
                   \o <<Why(FinishToStopReason(c.why), UsageFrom(c.usage)), Over>>)
BY DEF ClaudeEvents

-----------------------------------------------------------------------------
(* Where the translator thinks the blocks are, and where they are. *)
TextAt(next, text, a) ==
  /\ next = Len(a) /\ text \in Int /\ text + 1 \in 0..Len(a)
  /\ \A i \in 1..Len(a) : a[i].open
  /\ \A i \in 1..Len(a) : a[i].kind = "text" <=> i = text + 1
ToolAt(tools, at, a, keys) ==
  /\ tools[at] \in Nat /\ tools[at] + 1 \in 1..Len(a)
  /\ a[tools[at] + 1].kind = "call" /\ <<at, a[tools[at] + 1].id>> \in keys
ToolsAt(tools, a, keys) ==
  /\ \A at : at \in DOMAIN tools <=> \E id : <<at, id>> \in keys
  /\ \A at \in DOMAIN tools : ToolAt(tools, at, a, keys)
MessagesState(st, a, keys) == TextAt(st.next, st.text, a) /\ ToolsAt(st.tools, a, keys)

LEMMA MessagesStateGrows ==
  ASSUME NEW a \in Seq(Items), NEW keys, NEW st, MessagesState(st, a, keys),
         NEW k \in 1..Len(a), NEW args \in Seq(Nat),
         NEW s, s.next = st.next, s.text = st.text, s.tools = st.tools
  PROVE  MessagesState(s, Extend(a, k, args), keys)
<1>. DEFINE b == Extend(a, k, args)
<1>1. Else(a, k, b)
  BY ExtendIs
<1>. HIDE DEF b
<1>2. /\ Len(b) = Len(a)
      /\ \A i \in 1..Len(a) : b[i].kind = a[i].kind /\ b[i].id = a[i].id /\ b[i].open = a[i].open
  BY <1>1 DEF Else
<1>3. TextAt(s.next, s.text, b)
  BY <1>2 DEF MessagesState, TextAt
<1>4. \A at \in DOMAIN s.tools : ToolAt(s.tools, at, b, keys)
  BY <1>2 DEF MessagesState, ToolsAt, ToolAt
<1>5. ToolsAt(s.tools, b, keys)
  BY <1>4 DEF MessagesState, ToolsAt
<1>6. MessagesState(s, b, keys)
  BY <1>3, <1>5 DEF MessagesState
<1>. QED
  BY <1>6 DEF b

LEMMA Appended ==
  ASSUME NEW a \in Seq(Items), NEW x \in Items, NEW b, b = Append(a, x)
  PROVE  /\ Len(b) = Len(a) + 1 /\ b[Len(a) + 1] = x /\ Len(a) \in Nat /\ Len(a) + 1 \in 1..Len(b)
         /\ \A i \in 1..Len(a) : b[i] = a[i] /\ i \in 1..Len(b) /\ i # Len(a) + 1
         /\ \A i \in 1..Len(b) : i \in 1..Len(a) \/ i = Len(a) + 1
OBVIOUS

LEMMA MessagesStateText ==
  ASSUME NEW a \in Seq(Items), NEW keys, NEW st, MessagesState(st, a, keys), st.text < 0,
         NEW x \in Items, x.kind = "text", x.open,
         NEW s, s.next = st.next + 1, s.text = st.next, s.tools = st.tools
  PROVE  MessagesState(s, Append(a, x), keys)
<1>. DEFINE b == Append(a, x)
<1>0. /\ Len(b) = Len(a) + 1 /\ b[Len(a) + 1] = x /\ Len(a) \in Nat
      /\ \A i \in 1..Len(a) : b[i] = a[i] /\ i \in 1..Len(b) /\ i # Len(a) + 1
      /\ \A i \in 1..Len(b) : i \in 1..Len(a) \/ i = Len(a) + 1
  BY Appended
<1>. HIDE DEF b
<1>1. s.next = Len(b) /\ s.text = Len(a) /\ s.tools = st.tools /\ s.text + 1 \in 0..Len(b) /\ s.text \in Int
  BY <1>0 DEF MessagesState, TextAt
<1>2. \A i \in 1..Len(a) : a[i].kind # "text"
  BY DEF MessagesState, TextAt
<1>3. TextAt(s.next, s.text, b)
  <2>1. \A i \in 1..Len(b) : b[i].open
    BY <1>0 DEF MessagesState, TextAt
  <2>2. \A i \in 1..Len(b) : b[i].kind = "text" <=> i = Len(a) + 1
    BY <1>0, <1>2
  <2>. QED
    BY <1>1, <2>1, <2>2 DEF TextAt
<1>4. ASSUME NEW at \in DOMAIN s.tools PROVE ToolAt(s.tools, at, b, keys)
  <2>1. ToolAt(s.tools, at, a, keys)
    BY <1>1 DEF MessagesState, ToolsAt
  <2>. QED
    BY <1>0, <2>1 DEF ToolAt
<1>5. ToolsAt(s.tools, b, keys)
  BY <1>1, <1>4 DEF MessagesState, ToolsAt
<1>6. MessagesState(s, b, keys)
  BY <1>3, <1>5 DEF MessagesState
<1>. QED
  BY <1>6 DEF b

LEMMA MessagesStateCall ==
  ASSUME NEW a \in Seq(Items), NEW keys, NEW st, MessagesState(st, a, keys),
         NEW x \in Items, x.kind = "call", x.open, NEW at, at \notin DOMAIN st.tools,
         NEW s, s.next = st.next + 1, s.text = st.text, s.tools = With(st.tools, at, st.next)
  PROVE  MessagesState(s, Append(a, x), keys \cup {<<at, x.id>>})
<1>. DEFINE b == Append(a, x)
<1>0. /\ Len(b) = Len(a) + 1 /\ b[Len(a) + 1] = x /\ Len(a) \in Nat /\ Len(a) + 1 \in 1..Len(b)
      /\ \A i \in 1..Len(a) : b[i] = a[i] /\ i \in 1..Len(b) /\ i # Len(a) + 1
      /\ \A i \in 1..Len(b) : i \in 1..Len(a) \/ i = Len(a) + 1
  BY Appended
<1>. HIDE DEF b
<1>. DEFINE w == s.tools
<1>1. s.next = Len(b) /\ s.text = st.text /\ st.next = Len(a) /\ st.text \in Int /\ st.text + 1 \in 0..Len(a)
  BY <1>0 DEF MessagesState, TextAt
<1>2. /\ DOMAIN w = DOMAIN st.tools \cup {at} /\ w[at] = st.next
      /\ \A y \in DOMAIN st.tools : w[y] = st.tools[y]
  BY DEF With
<1>. HIDE DEF w
<1>3. TextAt(s.next, s.text, b)
  <2>1. \A i \in 1..Len(b) : b[i].open
    BY <1>0 DEF MessagesState, TextAt
  <2>2. \A i \in 1..Len(b) : b[i].kind = "text" <=> i = st.text + 1
    <3>1. st.text + 1 # Len(a) + 1
      BY <1>0, <1>1
    <3>. QED
      BY <1>0, <1>1, <3>1 DEF MessagesState, TextAt
  <2>. QED
    BY <1>0, <1>1, <2>1, <2>2 DEF TextAt
<1>. DEFINE all == keys \cup {<<at, x.id>>}
<1>4. \A y : y \in DOMAIN w <=> \E id : <<y, id>> \in all
  <2>1. \A y, id : <<y, id>> \in all <=> <<y, id>> \in keys \/ (y = at /\ id = x.id)
    OBVIOUS
  <2>. HIDE DEF all
  <2>. QED
    BY <1>2, <2>1 DEF MessagesState, ToolsAt
<1>5. ASSUME NEW y \in DOMAIN w PROVE ToolAt(w, y, b, all)
  <2>1. CASE y = at
    <3>1. w[y] = Len(a) /\ b[w[y] + 1] = x
      BY <1>0, <1>1, <1>2, <2>1
    <3>. QED
      BY <1>0, <2>1, <3>1 DEF ToolAt
  <2>2. CASE y # at
    <3>1. y \in DOMAIN st.tools /\ w[y] = st.tools[y]
      BY <1>2, <2>2
    <3>2. ToolAt(st.tools, y, a, keys)
      BY <3>1 DEF MessagesState, ToolsAt
    <3>3. b[w[y] + 1] = a[w[y] + 1] /\ w[y] + 1 \in 1..Len(b)
      BY <1>0, <3>1, <3>2 DEF ToolAt
    <3>. QED
      BY <3>1, <3>2, <3>3 DEF ToolAt
  <2>. QED
    BY <2>1, <2>2
<1>6. ToolsAt(w, b, all)
  BY <1>4, <1>5 DEF ToolsAt
<1>7. MessagesState(s, b, all)
  BY <1>3, <1>6 DEF MessagesState, w
<1>. QED
  BY <1>7 DEF b

(* The order in which the blocks are closed has every block once. *)
LEMMA ListOf ==
  ASSUME NEW m \in Nat, NEW r \in [1..m -> Nat]
  PROVE  r \in Seq(Nat) /\ Len(r) = m
OBVIOUS

FirstThen(b, u, r) ==
  /\ b \in Seq(Nat) /\ Len(b) = 1 + Len(r) /\ b[1] = u[1]
  /\ \A k \in 2..Len(b) : b[k] = r[k - 1]

LEMMA Joined ==
  ASSUME NEW u \in Seq(Nat), NEW r \in Seq(Nat)
  PROVE  /\ u \o r \in Seq(Nat) /\ Len(u \o r) = Len(u) + Len(r) /\ Len(u) \in Nat /\ Len(r) \in Nat
         /\ \A k \in 1..Len(u) : (u \o r)[k] = u[k]
         /\ \A k \in (Len(u) + 1)..Len(u \o r) : (u \o r)[k] = r[k - Len(u)]
OBVIOUS

LEMMA AfterFirst ==
  ASSUME NEW u \in Seq(Nat), Len(u) = 1, NEW r \in Seq(Nat)
  PROVE  FirstThen(u \o r, u, r)
<1>. DEFINE b == u \o r
<1>1. /\ b \in Seq(Nat) /\ Len(b) = Len(u) + Len(r) /\ Len(u) \in Nat /\ Len(r) \in Nat
      /\ \A k \in 1..Len(u) : b[k] = u[k]
      /\ \A k \in (Len(u) + 1)..Len(b) : b[k] = r[k - Len(u)]
  BY Joined
<1>. HIDE DEF b
<1>2. b[1] = u[1] /\ Len(b) = 1 + Len(r)
  BY <1>1
<1>3. \A k \in 2..Len(b) : b[k] = r[k - 1]
  BY <1>1
<1>4. FirstThen(b, u, r)
  BY <1>1, <1>2, <1>3 DEF FirstThen
<1>. QED
  BY <1>4 DEF b

TextFirst(bs, n, t) ==
  \A k \in 1..n : bs[k] = IF k = 1 THEN t ELSE IF k - 1 <= t THEN k - 2 ELSE k - 1

LEMMA BlocksAround ==
  ASSUME NEW n \in Nat, NEW t \in Nat, t < n,
         NEW bs, bs = <<t>> \o [i \in 1..(n - 1) |-> IF i <= t THEN i - 1 ELSE i]
  PROVE  /\ bs \in Seq(Nat) /\ Len(bs) = n
         /\ TextFirst(bs, n, t)
<1>. DEFINE r == [i \in 1..(n - 1) |-> IF i <= t THEN i - 1 ELSE i]
<1>. DEFINE u == <<t>>
<1>1. n - 1 \in Nat /\ r \in [1..(n - 1) -> Nat]
  OBVIOUS
<1>2. \A i \in 1..(n - 1) : r[i] = IF i <= t THEN i - 1 ELSE i
  OBVIOUS
<1>3. u \in Seq(Nat) /\ Len(u) = 1 /\ u[1] = t
  OBVIOUS
<1>4. bs = u \o r
  OBVIOUS
<1>. HIDE DEF u, r
<1>5. r \in Seq(Nat) /\ Len(r) = n - 1
  BY <1>1, ListOf
<1>6a. FirstThen(bs, u, r)
  BY <1>3, <1>4, <1>5, AfterFirst
<1>6. bs \in Seq(Nat) /\ Len(bs) = 1 + Len(r) /\ bs[1] = u[1] /\ \A k \in 2..Len(bs) : bs[k] = r[k - 1]
  BY <1>6a DEF FirstThen
<1>7. Len(bs) = n /\ bs[1] = t
  BY <1>3, <1>5, <1>6
<1>8. \A k \in 2..n : bs[k] = r[k - 1]
  BY <1>6, <1>7
<1>9. ASSUME NEW k \in 1..n PROVE bs[k] = IF k = 1 THEN t ELSE IF k - 1 <= t THEN k - 2 ELSE k - 1
  <2>1. CASE k = 1
    BY <1>7, <2>1
  <2>2. CASE k # 1
    <3>1. k \in 2..n /\ k - 1 \in 1..(n - 1) /\ (k - 1) - 1 = k - 2
      BY <2>2
    <3>. QED
      BY <1>2, <1>8, <2>2, <3>1
  <2>. QED
    BY <2>1, <2>2
<1>. QED
  BY <1>6, <1>7, <1>9 DEF TextFirst

EachOnce(bs, n) ==
  /\ \A k \in 1..n : bs[k] + 1 \in 1..n
  /\ \A k, j \in 1..n : bs[k] = bs[j] => k = j
  /\ \A i \in 1..n : \E k \in 1..n : bs[k] + 1 = i

LEMMA BlocksOnce ==
  ASSUME NEW n \in Nat, NEW t \in Nat, t < n, NEW bs, TextFirst(bs, n, t)
  PROVE  EachOnce(bs, n)
<1>1. ASSUME NEW i \in 1..n PROVE \E k \in 1..n : bs[k] + 1 = i
  <2>1. CASE i = t + 1
    <3>1. 1 \in 1..n /\ bs[1] + 1 = i
      BY <2>1 DEF TextFirst
    <3>. QED
      BY <3>1
  <2>2. CASE i < t + 1
    <3>1. i + 1 \in 1..n /\ i + 1 # 1 /\ (i + 1) - 1 <= t /\ (i + 1) - 2 = i - 1 /\ (i - 1) + 1 = i
      BY <2>2
    <3>. QED
      BY <3>1 DEF TextFirst
  <2>3. CASE i > t + 1
    <3>1. i # 1 /\ ~(i - 1 <= t) /\ (i - 1) + 1 = i
      BY <2>3
    <3>. QED
      BY <3>1 DEF TextFirst
  <2>. QED
    BY <2>1, <2>2, <2>3
<1>2. \A k \in 1..n : bs[k] + 1 \in 1..n
  BY DEF TextFirst
<1>3. \A k, j \in 1..n : bs[k] = bs[j] => k = j
  BY DEF TextFirst
<1>. QED
  BY <1>1, <1>2, <1>3 DEF EachOnce

LEMMA BlocksAre ==
  ASSUME NEW st, st.next \in Nat, st.text \in Int, st.text + 1 \in 0..st.next,
         NEW bs, bs = Blocks(st)
  PROVE  /\ bs \in Seq(Nat) /\ Len(bs) = st.next
         /\ EachOnce(bs, st.next)
<1>1. CASE st.text < 0
  <2>1. bs = [i \in 1..st.next |-> i - 1]
    BY <1>1 DEF Blocks
  <2>2. bs \in [1..st.next -> Nat] /\ \A k \in 1..st.next : bs[k] = k - 1
    BY <2>1
  <2>3. bs \in Seq(Nat) /\ Len(bs) = st.next
    BY <2>2
  <2>. QED
    BY <2>2, <2>3 DEF EachOnce
<1>2. CASE ~(st.text < 0)
  <2>1. PICK n \in Nat, t \in Nat : n = st.next /\ t = st.text /\ t < n
    BY <1>2
  <2>2. bs = <<t>> \o [i \in 1..(n - 1) |-> IF i <= t THEN i - 1 ELSE i]
    BY <1>2, <2>1 DEF Blocks
  <2>3. /\ bs \in Seq(Nat) /\ Len(bs) = n
        /\ TextFirst(bs, n, t)
    BY <2>1, <2>2, BlocksAround
  <2>4. EachOnce(bs, n)
    BY <2>1, <2>3, BlocksOnce
  <2>. QED
    BY <2>1, <2>3, <2>4
<1>. QED
  BY <1>1, <1>2

-----------------------------------------------------------------------------
(* A Messages reply d made of the chat reply x, and the translator's state. *)
WhyAcross(why) == IF why = "none" THEN "none" ELSE FinishToStopReason(why)
SameReply(x, d) ==
  /\ Whole("chat", x) /\ Numbered(x.items)
  /\ Whole("messages", d) /\ Numbered(d.items)
  /\ Content(d.items) = Content(x.items)
  /\ d.why = WhyAcross(x.why)
MessagesBridge(st, x, d) ==
  /\ SameReply(x, d) /\ IsClaude(st)
  /\ x.why = "none" => MessagesState(st, d.items, CallKeys(x.items))
Bridged(st, x, d, c) ==
  \E e : /\ Road("messages", d, ClaudeEvents(st, c).out, e)
         /\ MessagesBridge(ClaudeEvents(st, c).st, Hear("chat", x, c), e)

LEMMA EmitsIs == ASSUME NEW st, NEW out PROVE Emits(st, out).st = st /\ Emits(st, out).out = out
BY DEF Emits

LEMMA FrameTyped ==
  ASSUME NEW c \in Frames
  PROVE  /\ c.d = "text" => c.p \in Nat
         /\ c.d = "call" => c.at \in Nat /\ c.id \in Nat /\ c.args \in Seq(Nat)
         /\ c.d = "finish" => c.why \in Whys /\ c.usage \in Usage
BY DEF Frames

(* Nothing is said. *)
LEMMA BridgeIdle ==
  ASSUME NEW st, NEW x, NEW d, MessagesBridge(st, x, d), NEW c, c.d \in {"usage", "done"}
  PROVE  Bridged(st, x, d, c)
<1>1. ClaudeEvents(st, c) = Emits(st, <<>>) /\ Hear("chat", x, c) = x
  BY ClaudeIdle, ChatIdle
<1>2. Road("messages", d, <<>>, d)
  BY RoadNone
<1>. QED
  BY <1>1, <1>2, EmitsIs DEF Bridged

LEMMA BridgeRole ==
  ASSUME NEW st, NEW x, NEW d, MessagesBridge(st, x, d), NEW c, c.d = "role"
  PROVE  Bridged(st, x, d, c)
<1>. DEFINE s == Started(st)
<1>1. ClaudeEvents(st, c) = Emits(s, Begin(st)) /\ Hear("chat", x, c) = x
  BY ClaudeRole, ChatIdle
<1>2. IsClaude(s) /\ s.next = st.next /\ s.text = st.text /\ s.tools = st.tools
  BY ClaudeStarted DEF MessagesBridge
<1>. HIDE DEF s
<1>3. MessagesBridge(s, x, d)
  BY <1>2 DEF MessagesBridge, MessagesState
<1>4. Road("messages", d, Begin(st), d)
  BY RoadBegin
<1>. QED
  BY <1>1, <1>3, <1>4, EmitsIs DEF Bridged

(* The text goes on. *)
LEMMA BridgeTextMore ==
  ASSUME NEW st, NEW x, NEW d, MessagesBridge(st, x, d), NEW c, c.d = "text", c.p \in Nat,
         x.why = "none", st.text >= 0
  PROVE  Bridged(st, x, d, c)
<1>. DEFINE s == Started(st)
<1>. DEFINE y == Hear("chat", x, c)
<1>. DEFINE k == st.text + 1
<1>. DEFINE e == Heard(Extend(d.items, k, <<c.p>>), "none")
<1>0. /\ SameReply(x, d) /\ IsClaude(st) /\ d.why = "none"
      /\ MessagesState(st, d.items, CallKeys(x.items))
  BY DEF MessagesBridge, SameReply, WhyAcross
<1>1. /\ st.text \in Nat /\ k \in 1..Len(d.items) /\ d.items[k].open
      /\ d.items[k].kind = "text" /\ LastText(d.items, k) /\ d.items \in Seq(Items)
  BY <1>0 DEF MessagesState, TextAt, LastText, SameReply, Whole, Good
<1>2. ClaudeEvents(st, c) = Emits(s, Begin(st) \o <<Delta(st.text, <<c.p>>)>>)
  BY <1>1, ClaudeTextMore
<1>3. IsClaude(s) /\ s.next = st.next /\ s.text = st.text /\ s.tools = st.tools
  BY <1>0, ClaudeStarted
<1>4. <<c.p>> \in Seq(Nat)
  OBVIOUS
<1>5. /\ Numbered(y.items) /\ CallKeys(y.items) = CallKeys(x.items) /\ y.why = "none"
      /\ Content(y.items) = TextMore(Content(x.items), <<c.p>>) /\ Whole("chat", y)
  <2>1. Fits("chat", x.items, x.why, c)
    BY DEF Fits, FitsChat
  <2>. QED
    BY <1>0, <2>1, ChatText, HearKeeps DEF SameReply
<1>6. Road("messages", d, <<Delta(st.text, <<c.p>>)>>, e)
  BY <1>0, <1>1, <1>4, RoadDelta DEF SameReply
<1>7. Road("messages", d, Begin(st) \o <<Delta(st.text, <<c.p>>)>>, e)
  BY <1>6, RoadBegin, RoadConcat
<1>8. Whole("messages", e)
  BY <1>0, <1>6, RoadKeeps DEF SameReply
<1>. HIDE DEF s, y, k
<1>9. e.items = Extend(d.items, k, <<c.p>>) /\ e.why = "none"
  BY DEF Heard
<1>10. Numbered(e.items) /\ Content(e.items) = TextMore(Content(d.items), <<c.p>>)
  BY <1>0, <1>1, <1>4, <1>9, ContentExtend DEF SameReply
<1>11. MessagesState(s, e.items, CallKeys(y.items))
  BY <1>0, <1>1, <1>3, <1>4, <1>5, <1>9, MessagesStateGrows
<1>. HIDE DEF e
<1>12. MessagesBridge(s, y, e)
  BY <1>0, <1>3, <1>5, <1>8, <1>9, <1>10, <1>11 DEF MessagesBridge, SameReply, WhyAcross
<1>. QED
  BY <1>2, <1>7, <1>12, EmitsIs DEF Bridged, y
(* The text begins. *)
LEMMA BridgeTextNew ==
  ASSUME NEW st, NEW x, NEW d, MessagesBridge(st, x, d), NEW c, c.d = "text", c.p \in Nat,
         x.why = "none", ~(st.text >= 0)
  PROVE  Bridged(st, x, d, c)
<1>. DEFINE s == TextOpened(Started(st))
<1>. DEFINE y == Hear("chat", x, c)
<1>. DEFINE n == Len(d.items)
<1>. DEFINE i == Item(n, "text", 0, <<c.p>>)
<1>. DEFINE e == Heard(Append(d.items, i), "none")
<1>0. /\ SameReply(x, d) /\ IsClaude(st) /\ d.why = "none"
      /\ MessagesState(st, d.items, CallKeys(x.items))
  BY DEF MessagesBridge, SameReply, WhyAcross
<1>1. st.text \in Int /\ st.text < 0 /\ st.next = n /\ d.items \in Seq(Items)
  BY <1>0 DEF MessagesState, TextAt, SameReply, Whole, Good
<1>. HIDE DEF n
<1>2. ClaudeEvents(st, c) = Emits(s, Begin(st) \o <<Open(n, "text", 0), Delta(n, <<c.p>>)>>)
  BY <1>1, ClaudeTextNew
<1>3. IsClaude(s) /\ s.next = st.next + 1 /\ s.text = st.next /\ s.tools = st.tools
  <2>. DEFINE r == Started(st)
  <2>1. IsClaude(r) /\ r.next = st.next /\ r.text = st.text /\ r.tools = st.tools
    BY <1>0, ClaudeStarted
  <2>. HIDE DEF r
  <2>2. LET q == TextOpened(r) IN IsClaude(q) /\ q.next = r.next + 1 /\ q.text = r.next /\ q.tools = r.tools
    BY <2>1, ClaudeTextOpened
  <2>. QED
    BY <2>1, <2>2 DEF r
<1>4. <<c.p>> \in Seq(Nat)
  OBVIOUS
<1>5. /\ Numbered(y.items) /\ CallKeys(y.items) = CallKeys(x.items) /\ y.why = "none"
      /\ Content(y.items) = TextMore(Content(x.items), <<c.p>>) /\ Whole("chat", y)
  <2>1. Fits("chat", x.items, x.why, c)
    BY DEF Fits, FitsChat
  <2>. QED
    BY <1>0, <2>1, ChatText, HearKeeps DEF SameReply
<1>6. /\ Road("messages", d, <<Open(n, "text", 0), Delta(n, <<c.p>>)>>, e)
      /\ i \in Items /\ i.at = n /\ i.kind = "text" /\ i.parts = <<c.p>> /\ i.open
  <2>. DEFINE zero == 0
  <2>. DEFINE args == <<c.p>>
  <2>. DEFINE text == "text"
  <2>. DEFINE j == Item(n, text, zero, args)
  <2>1. zero \in Nat /\ text \in {"text", "call"} /\ args \in Seq(Nat)
    BY <1>4
  <2>. HIDE DEF zero, args, text
  <2>2. /\ Road("messages", d, <<Open(n, text, zero), Delta(n, args)>>, Heard(Append(d.items, j), "none"))
        /\ j \in Items /\ j.at = n /\ j.kind = text /\ j.parts = args /\ j.open
    BY <1>0, <1>1, <2>1, RoadItem DEF SameReply, n
  <2>. QED
    BY <2>2 DEF zero, args, text
<1>7. Road("messages", d, Begin(st) \o <<Open(n, "text", 0), Delta(n, <<c.p>>)>>, e)
  BY <1>6, RoadBegin, RoadConcat
<1>8. Whole("messages", e)
  BY <1>0, <1>6, RoadKeeps DEF SameReply
<1>. HIDE DEF s, y, i
<1>9. e.items = Append(d.items, i) /\ e.why = "none"
  BY DEF Heard
<1>10. Numbered(e.items) /\ Content(e.items) = TextMore(Content(d.items), <<c.p>>)
  BY <1>0, <1>1, <1>6, <1>9, ContentAppend DEF SameReply
<1>11. MessagesState(s, e.items, CallKeys(y.items))
  BY <1>0, <1>1, <1>3, <1>5, <1>6, <1>9, MessagesStateText
<1>. HIDE DEF e
<1>12. MessagesBridge(s, y, e)
  BY <1>0, <1>3, <1>5, <1>8, <1>9, <1>10, <1>11 DEF MessagesBridge, SameReply, WhyAcross
<1>. QED
  BY <1>2, <1>7, <1>12, EmitsIs DEF Bridged, y

(* A call goes on. *)
LEMMA BridgeCallMore ==
  ASSUME NEW st, NEW x, NEW d, MessagesBridge(st, x, d), NEW c, c.d = "call", c.args \in Seq(Nat),
         x.why = "none", Fits("chat", x.items, x.why, c), c.at \in DOMAIN st.tools
  PROVE  Bridged(st, x, d, c)
<1>. DEFINE s == Started(st)
<1>. DEFINE y == Hear("chat", x, c)
<1>. DEFINE at == st.tools[c.at]
<1>. DEFINE e == Heard(Extend(d.items, at + 1, c.args), "none")
<1>0. /\ SameReply(x, d) /\ IsClaude(st) /\ d.why = "none"
      /\ MessagesState(st, d.items, CallKeys(x.items))
  BY DEF MessagesBridge, SameReply, WhyAcross
<1>1. /\ at \in Nat /\ at + 1 \in 1..Len(d.items) /\ d.items[at + 1].kind = "call"
      /\ <<c.at, d.items[at + 1].id>> \in CallKeys(x.items)
  BY <1>0 DEF MessagesState, ToolsAt, ToolAt
<1>1a. d.items[at + 1].open /\ d.items \in Seq(Items)
  BY <1>0, <1>1 DEF MessagesState, TextAt, SameReply, Whole, Good
<1>2. ClaudeEvents(st, c) = Emits(s, Begin(st) \o <<Delta(at, c.args)>>)
  BY ClaudeCallMore
<1>. HIDE DEF at
<1>3. IsClaude(s) /\ s.next = st.next /\ s.text = st.text /\ s.tools = st.tools
  BY <1>0, ClaudeStarted
<1>. DEFINE id == d.items[at + 1].id
<1>. HIDE DEF id
<1>4. <<c.at, id>> \in CallKeys(x.items)
  BY <1>1 DEF id
<1>5. /\ Numbered(y.items) /\ CallKeys(y.items) = CallKeys(x.items) /\ y.why = "none"
      /\ Content(y.items) = CallMore(Content(x.items), id, c.args) /\ Whole("chat", y)
  BY <1>0, <1>4, ChatMore, HearKeeps DEF SameReply
<1>6. Road("messages", d, <<Delta(at, c.args)>>, e)
  BY <1>0, <1>1, <1>1a, RoadDelta DEF SameReply
<1>7. Road("messages", d, Begin(st) \o <<Delta(at, c.args)>>, e)
  BY <1>6, RoadBegin, RoadConcat
<1>8. Whole("messages", e)
  BY <1>0, <1>6, RoadKeeps DEF SameReply
<1>. HIDE DEF s, y
<1>9. e.items = Extend(d.items, at + 1, c.args) /\ e.why = "none"
  BY DEF Heard
<1>10. Numbered(e.items) /\ Content(e.items) = CallMore(Content(d.items), id, c.args)
  BY <1>0, <1>1, <1>1a, <1>9, ContentExtend DEF SameReply, id
<1>11. MessagesState(s, e.items, CallKeys(y.items))
  BY <1>0, <1>1, <1>1a, <1>3, <1>5, <1>9, MessagesStateGrows
<1>. HIDE DEF e
<1>12. MessagesBridge(s, y, e)
  BY <1>0, <1>3, <1>5, <1>8, <1>9, <1>10, <1>11 DEF MessagesBridge, SameReply, WhyAcross
<1>. QED
  BY <1>2, <1>7, <1>12, EmitsIs DEF Bridged, y

(* A call begins. *)
LEMMA BridgeCallNew ==
  ASSUME NEW st, NEW x, NEW d, MessagesBridge(st, x, d),
         NEW c, c.d = "call", c.at \in Nat, c.id \in Nat, c.args \in Seq(Nat),
         x.why = "none", Fits("chat", x.items, x.why, c), c.at \notin DOMAIN st.tools
  PROVE  Bridged(st, x, d, c)
<1>. DEFINE s == CallOpened(Started(st), c.at)
<1>. DEFINE y == Hear("chat", x, c)
<1>. DEFINE n == Len(d.items)
<1>. DEFINE i == Item(n, "call", c.id, c.args)
<1>. DEFINE e == Heard(Append(d.items, i), "none")
<1>0. /\ SameReply(x, d) /\ IsClaude(st) /\ d.why = "none"
      /\ MessagesState(st, d.items, CallKeys(x.items))
  BY DEF MessagesBridge, SameReply, WhyAcross
<1>1. st.next = n /\ d.items \in Seq(Items) /\ x.items \in Seq(Items)
  BY <1>0 DEF MessagesState, TextAt, SameReply, Whole, Good
<1>. HIDE DEF n
<1>1a. \A id : <<c.at, id>> \notin CallKeys(x.items)
  BY <1>0 DEF MessagesState, ToolsAt
<1>1b. c.id = Len(CallsOf(x.items)) + 1
  <2>1. ~\E k \in 1..Len(x.items) : x.items[k].kind = "call" /\ x.items[k].at = c.at
    BY <1>1a DEF CallKeys
  <2>. QED
    BY <2>1 DEF Fits, FitsChat
<1>1c. Len(CallsOf(x.items)) \in Nat /\ Len(CallsOf(d.items)) = Len(CallsOf(x.items)) /\ c.id # 0
  <2>1. Len(CallsOf(x.items)) \in Nat
    BY <1>1, SaidTyped
  <2>2. Content(d.items).args = Content(x.items).args
    BY <1>0 DEF SameReply
  <2>. QED
    BY <1>1, <1>1b, <2>1, <2>2, ContentTyped
<1>2. ClaudeEvents(st, c) = Emits(s, Begin(st) \o <<Open(n, "call", c.id), Delta(n, c.args)>>)
  BY <1>1, <1>1c, ClaudeCallNew
<1>3. IsClaude(s) /\ s.next = st.next + 1 /\ s.text = st.text /\ s.tools = With(st.tools, c.at, st.next)
  <2>. DEFINE r == Started(st)
  <2>1. IsClaude(r) /\ r.next = st.next /\ r.text = st.text /\ r.tools = st.tools
    BY <1>0, ClaudeStarted
  <2>. HIDE DEF r
  <2>2. LET q == CallOpened(r, c.at)
        IN  IsClaude(q) /\ q.next = r.next + 1 /\ q.text = r.text /\ q.tools = With(r.tools, c.at, r.next)
    BY <2>1, ClaudeCallOpened
  <2>. QED
    BY <2>1, <2>2 DEF r
<1>5. /\ Numbered(y.items) /\ CallKeys(y.items) = CallKeys(x.items) \cup {<<c.at, c.id>>} /\ y.why = "none"
      /\ Content(y.items) = CallNew(Content(x.items), c.args) /\ Whole("chat", y)
  BY <1>0, <1>1a, <1>1b, ChatNew, HearKeeps DEF SameReply
<1>6. /\ Road("messages", d, <<Open(n, "call", c.id), Delta(n, c.args)>>, e)
      /\ i \in Items /\ i.at = n /\ i.kind = "call" /\ i.parts = c.args /\ i.open /\ i.id = c.id
  BY <1>0, <1>1, RoadItem DEF SameReply, n
<1>7. Road("messages", d, Begin(st) \o <<Open(n, "call", c.id), Delta(n, c.args)>>, e)
  BY <1>6, RoadBegin, RoadConcat
<1>8. Whole("messages", e)
  BY <1>0, <1>6, RoadKeeps DEF SameReply
<1>. HIDE DEF s, y, i
<1>9. e.items = Append(d.items, i) /\ e.why = "none"
  BY DEF Heard
<1>10. Numbered(e.items) /\ Content(e.items) = CallNew(Content(d.items), c.args)
  BY <1>0, <1>1, <1>1b, <1>1c, <1>6, <1>9, ContentAppend DEF SameReply
<1>11. MessagesState(s, e.items, CallKeys(y.items))
  <2>1. MessagesState(s, Append(d.items, i), CallKeys(x.items) \cup {<<c.at, i.id>>})
    BY <1>0, <1>1, <1>3, <1>6, MessagesStateCall
  <2>. QED
    BY <1>5, <1>6, <1>9, <2>1
<1>. HIDE DEF e
<1>12. MessagesBridge(s, y, e)
  BY <1>0, <1>3, <1>5, <1>8, <1>9, <1>10, <1>11 DEF MessagesBridge, SameReply, WhyAcross
<1>. QED
  BY <1>2, <1>7, <1>12, EmitsIs DEF Bridged, y

LEMMA UsageChanged ==
  ASSUME NEW u \in Usage, NEW input \in Nat, NEW apart \in BOOLEAN,
         apart \/ u.cached <= input,
         NEW v, v = [u EXCEPT !.input = input, !.apart = apart]
  PROVE  v \in Usage
BY DEF Usage, Usages

LEMMA UsageFromTyped == ASSUME NEW u \in Usage PROVE UsageFrom(u) \in Usage
<1>1. u.input \in Nat /\ u.cached \in Nat /\ u.apart \in BOOLEAN
  BY DEF Usage, Usages
<1>. DEFINE input == IF u.input > u.cached THEN u.input - u.cached ELSE 0
<1>. DEFINE apart == u.cached > 0
<1>2. input \in Nat /\ apart \in BOOLEAN /\ (apart \/ u.cached <= input)
  BY <1>1
<1>. DEFINE v == [u EXCEPT !.input = input, !.apart = apart]
<1>3. UsageFrom(u) = IF u.apart THEN u ELSE v
  BY DEF UsageFrom
<1>. HIDE DEF input, apart
<1>4. v \in Usage
  BY <1>2, UsageChanged
<1>. HIDE DEF v
<1>. QED
  BY <1>3, <1>4

LEMMA WhyTyped == ASSUME NEW why PROVE FinishToStopReason(why) \in Whys \ {"none"}
BY DEF FinishToStopReason, Whys

(* The reply is whole: its blocks are closed, and it has its reason. *)
LEMMA BridgeFinish ==
  ASSUME NEW st, NEW x, NEW d, MessagesBridge(st, x, d), NEW c, c.d = "finish", c.usage \in Usage,
         x.why = "none", Fits("chat", x.items, x.why, c), c.why # "none"
  PROVE  Bridged(st, x, d, c)
<1>. DEFINE s == Started(st)
<1>. DEFINE y == Hear("chat", x, c)
<1>. DEFINE bs == Blocks(st)
<1>. DEFINE why == FinishToStopReason(c.why)
<1>. DEFINE u == UsageFrom(c.usage)
<1>0. /\ SameReply(x, d) /\ IsClaude(st) /\ d.why = "none"
      /\ MessagesState(st, d.items, CallKeys(x.items))
  BY DEF MessagesBridge, SameReply, WhyAcross
<1>1. /\ st.next = Len(d.items) /\ d.items \in Seq(Items) /\ st.next \in Nat
      /\ st.text \in Int /\ st.text + 1 \in 0..st.next
      /\ \A i \in 1..Len(d.items) : d.items[i].open
  BY <1>0 DEF MessagesState, TextAt, SameReply, Whole, Good
<1>2. ClaudeEvents(st, c) = Emits(s, (Begin(st) \o Closes(bs)) \o <<Why(why, u), Over>>)
  BY ClaudeFinish
<1>3. IsClaude(s)
  BY <1>0, ClaudeStarted
<1>4. bs \in Seq(Nat) /\ Len(bs) = st.next /\ EachOnce(bs, st.next)
  BY <1>1, BlocksAre
<1>. HIDE DEF bs
<1>5. /\ \A k \in 1..Len(bs) : bs[k] + 1 \in 1..Len(d.items) /\ d.items[bs[k] + 1].open
      /\ \A k, j \in 1..Len(bs) : bs[k] = bs[j] => k = j
  BY <1>1, <1>4 DEF EachOnce
<1>6. PICK g : /\ Road("messages", d, Closes(bs), g) /\ g.why = "none"
               /\ Closed(d.items, g.items, {bs[k] + 1 : k \in 1..Len(bs)})
  BY <1>0, <1>4, <1>5, RoadCloses DEF SameReply
<1>7. /\ g.items \in Seq(Items) /\ Len(g.items) = Len(d.items)
      /\ \A i \in 1..Len(d.items) : /\ g.items[i].kind = d.items[i].kind /\ g.items[i].id = d.items[i].id
                                    /\ g.items[i].parts = d.items[i].parts
  BY <1>6 DEF Closed
<1>8. \A i \in 1..Len(g.items) : ~g.items[i].open
  <2>1. \A i \in 1..Len(d.items) : i \in {bs[k] + 1 : k \in 1..Len(bs)}
    BY <1>1, <1>4 DEF EachOnce
  <2>. QED
    BY <1>6, <2>1 DEF Closed
<1>9. Numbered(g.items) /\ Content(g.items) = Content(d.items)
  BY <1>0, <1>1, <1>7, ContentSame DEF SameReply
<1>10. Whole("messages", g)
  BY <1>0, <1>6, RoadKeeps DEF SameReply
<1>. DEFINE e == Heard(g.items, why)
<1>11. why \in Whys \ {"none"} /\ u \in Usage
  BY WhyTyped, UsageFromTyped
<1>12. Road("messages", d, (Begin(st) \o Closes(bs)) \o <<Why(why, u), Over>>, e)
  <2>1. Road("messages", g, <<Why(why, u)>>, e)
    BY <1>6, <1>8, <1>10, <1>11, RoadWhy
  <2>2. Road("messages", e, <<Over>>, e)
    BY RoadOver
  <2>3. Why(why, u) \in Frames /\ Over \in Frames
    BY <1>11, FramesMade
  <2>4. Road("messages", g, <<Why(why, u), Over>>, e)
    BY <2>1, <2>2, <2>3, RoadTwo
  <2>5. Road("messages", d, Begin(st) \o Closes(bs), g)
    BY <1>6, RoadBegin, RoadConcat
  <2>. QED
    BY <2>4, <2>5, RoadConcat
<1>13. Whole("messages", e)
  BY <1>0, <1>12, RoadKeeps DEF SameReply
<1>14. /\ Numbered(y.items) /\ y.why = c.why /\ Content(y.items) = Content(x.items) /\ Whole("chat", y)
  BY <1>0, ChatFinish, HearKeeps DEF SameReply
<1>15. e.items = g.items /\ e.why = why
  BY DEF Heard
<1>. HIDE DEF s, y, e
<1>16. MessagesBridge(s, y, e)
  BY <1>0, <1>3, <1>9, <1>13, <1>14, <1>15 DEF MessagesBridge, SameReply, WhyAcross
<1>. QED
  BY <1>2, <1>12, <1>16, EmitsIs DEF Bridged, y

(* Every chunk takes both replies on together. *)
LEMMA BridgeStep ==
  ASSUME NEW st, NEW x, NEW d, MessagesBridge(st, x, d),
         NEW c \in Frames, Fits("chat", x.items, x.why, c)
  PROVE  Bridged(st, x, d, c)
<1>1. CASE c.d \in {"usage", "done"}
  BY <1>1, BridgeIdle
<1>2. CASE c.d = "role"
  BY <1>2, BridgeRole
<1>3. CASE c.d \notin {"role", "usage", "done"}
  <2>1. x.why = "none" /\ c.d \in {"text", "call", "finish"} /\ (c.d = "finish" => c.why # "none")
    BY <1>3 DEF Fits, FitsChat
  <2>. QED
    BY <2>1, FrameTyped, BridgeTextMore, BridgeTextNew, BridgeCallMore, BridgeCallNew, BridgeFinish
<1>. QED
  BY <1>1, <1>2, <1>3

-----------------------------------------------------------------------------
(***************************************************************************)
(* From chat chunks to Responses events.                                   *)
(***************************************************************************)
(* The state of the translator from chat chunks to Responses events.       *)
IsFeed(st) == DOMAIN st = {"started", "next", "text", "calls", "truncated", "finished"}
\* It differs from another one in what is said of it.
FeedIs(s, next, text, calls, finished) ==
  /\ IsFeed(s) /\ s.next = next /\ s.text = text /\ s.calls = calls /\ s.finished = finished

LEMMA FeedStarted ==
  ASSUME NEW st, IsFeed(st)
  PROVE  FeedIs(Started(st), st.next, st.text, st.calls, st.finished)
<1>. DEFINE s == [st EXCEPT !.started = TRUE]
<1>1. FeedIs(s, st.next, st.text, st.calls, st.finished)
  BY DEF IsFeed, FeedIs
<1>. QED
  BY <1>1 DEF Started

LEMMA FeedTextOpened ==
  ASSUME NEW st, IsFeed(st)
  PROVE  FeedIs(TextOpened(st), st.next + 1, st.next, st.calls, st.finished)
<1>. DEFINE s == [st EXCEPT !.text = st.next, !.next = st.next + 1]
<1>1. FeedIs(s, st.next + 1, st.next, st.calls, st.finished)
  BY DEF IsFeed, FeedIs
<1>. QED
  BY <1>1 DEF TextOpened

LEMMA FeedTextForgotten ==
  ASSUME NEW st, IsFeed(st)
  PROVE  FeedIs(TextForgotten(st), st.next, -1, st.calls, st.finished)
<1>. DEFINE s == [st EXCEPT !.text = -1]
<1>1. FeedIs(s, st.next, -1, st.calls, st.finished)
  BY DEF IsFeed, FeedIs
<1>. QED
  BY <1>1 DEF TextForgotten

LEMMA FeedCallListed ==
  ASSUME NEW st, IsFeed(st), NEW at
  PROVE  FeedIs(CallListed(st, at), st.next + 1, st.text,
                Append(st.calls, [tool |-> at, index |-> st.next]), st.finished)
<1>. DEFINE w == Append(st.calls, [tool |-> at, index |-> st.next])
<1>. DEFINE s == [st EXCEPT !.calls = w, !.next = st.next + 1]
<1>. HIDE DEF w
<1>1. FeedIs(s, st.next + 1, st.text, w, st.finished)
  BY DEF IsFeed, FeedIs
<1>. QED
  BY <1>1 DEF CallListed, w

LEMMA FeedCutShort ==
  ASSUME NEW st, IsFeed(st), NEW why
  PROVE  FeedIs(CutShort(st, why), st.next, st.text, st.calls, st.finished)
<1>. DEFINE t == st.truncated \/ why = "length"
<1>. DEFINE s == [st EXCEPT !.truncated = t]
<1>1. FeedIs(s, st.next, st.text, st.calls, st.finished)
  BY DEF IsFeed, FeedIs
<1>. QED
  BY <1>1 DEF CutShort

LEMMA FeedDone ==
  ASSUME NEW st, ~st.finished, NEW c, c.d = "done"
  PROVE  Feed(st, c) = Emits(st, <<>>)
BY DEF Feed

LEMMA FeedRole ==
  ASSUME NEW st, ~st.finished, NEW c, c.d \in {"role", "usage"}
  PROVE  Feed(st, c) = Emits(Started(st), Begin(st))
BY DEF Feed

LEMMA FeedTextMore ==
  ASSUME NEW st, ~st.finished, NEW c, c.d = "text", st.text \in Int, st.text >= 0
  PROVE  Feed(st, c) = Emits(Started(st), Begin(st) \o <<Delta(st.text, <<c.p>>)>>)
BY DEF Feed

LEMMA FeedTextNew ==
  ASSUME NEW st, ~st.finished, NEW c, c.d = "text", st.text \in Int, st.text < 0
  PROVE  Feed(st, c) = Emits(TextOpened(Started(st)),
               Begin(st) \o <<Open(st.next, "text", 0), Delta(st.next, <<c.p>>)>>)
BY DEF Feed

LEMMA FeedCallMore ==
  ASSUME NEW st, ~st.finished, NEW c, c.d = "call", NEW k, k = CallAt(st, c.at), k \in Nat, k > 0
  PROVE  Feed(st, c) = Emits(TextForgotten(Started(st)),
               (Begin(st) \o CloseText(st)) \o <<Delta(st.calls[k].index, c.args)>>)
BY DEF Feed

LEMMA FeedCallNew ==
  ASSUME NEW st, ~st.finished, NEW c, c.d = "call", CallAt(st, c.at) = 0
  PROVE  Feed(st, c) = Emits(CallListed(TextForgotten(Started(st)), c.at),
               (Begin(st) \o CloseText(st))
                 \o <<Open(st.next, "call", c.id), Delta(st.next, c.args)>>)
BY DEF Feed

LEMMA FeedFinish ==
  ASSUME NEW st, ~st.finished, NEW c, c.d = "finish"
  PROVE  Feed(st, c) = Emits(CutShort(Started(st), c.why), Begin(st))
BY DEF Feed

(* The call an index stands for. *)
Listings == [tool : Nat, index : Nat]
Apart(calls) == \A k, j \in 1..Len(calls) : calls[k].tool = calls[j].tool => k = j

LEMMA CallAtIs ==
  ASSUME NEW st, st.calls \in Seq(Listings), Apart(st.calls), NEW at, NEW k, k = CallAt(st, at)
  PROVE  \/ k = 0 /\ \A j \in 1..Len(st.calls) : st.calls[j].tool # at
         \/ k \in 1..Len(st.calls) /\ st.calls[k].tool = at
<1>. DEFINE I == {i \in 1..Len(st.calls) : st.calls[i].tool = at}
<1>1. k = IF I # {} THEN Min(I) ELSE 0
  BY DEF CallAt, SelectInSeq
<1>2. CASE I = {}
  BY <1>1, <1>2
<1>3. CASE I # {}
  <2>1. PICK i \in I : TRUE
    BY <1>3
  <2>2. \A j \in I : j = i
    BY <2>1 DEF Apart
  <2>3. i \in Int /\ i \in 1..Len(st.calls) /\ st.calls[i].tool = at
    BY <2>1
  <2>. HIDE DEF I
  <2>4. I = {i}
    BY <2>1, <2>2
  <2>5. Min({i}) = i
    BY <2>3 DEF Min
  <2>. QED
    BY <1>1, <1>3, <2>3, <2>4, <2>5
<1>. QED
  BY <1>2, <1>3

-----------------------------------------------------------------------------
(* Where the translator thinks the items are, and where they are. The text *)
(* item that takes text is the last item, and the calls stay open.         *)
TextNow(next, text, a) ==
  /\ next = Len(a)
  /\ \/ text = -1
     \/ text \in Nat /\ text + 1 = Len(a) /\ a[Len(a)].kind = "text"
CallNow(l, a, keys) ==
  /\ l.index + 1 \in 1..Len(a) /\ a[l.index + 1].kind = "call"
  /\ <<l.tool, a[l.index + 1].id>> \in keys
CallsNow(calls, a, keys) ==
  /\ calls \in Seq(Listings) /\ Apart(calls)
  /\ \A k \in 1..Len(calls) : CallNow(calls[k], a, keys)
  /\ \A k, j \in 1..Len(calls) : calls[k].index = calls[j].index => k = j
  /\ \A at, id : <<at, id>> \in keys => \E k \in 1..Len(calls) : calls[k].tool = at
OpenNow(text, calls, a) ==
  \A i \in 1..Len(a) : a[i].open <=> i = text + 1 \/ \E k \in 1..Len(calls) : calls[k].index + 1 = i
FeedState(next, text, calls, a, keys) ==
  TextNow(next, text, a) /\ CallsNow(calls, a, keys) /\ OpenNow(text, calls, a)

LEMMA FeedStateGrows ==
  ASSUME NEW a \in Seq(Items), NEW next, NEW text, NEW calls, NEW keys,
         FeedState(next, text, calls, a, keys), NEW k \in 1..Len(a), NEW args \in Seq(Nat)
  PROVE  FeedState(next, text, calls, Extend(a, k, args), keys)
<1>. DEFINE b == Extend(a, k, args)
<1>1. Else(a, k, b)
  BY ExtendIs
<1>. HIDE DEF b
<1>2. /\ Len(b) = Len(a) /\ Len(a) \in Nat
      /\ \A i \in 1..Len(a) : b[i].kind = a[i].kind /\ b[i].id = a[i].id /\ b[i].open = a[i].open
  BY <1>1 DEF Else
<1>3. TextNow(next, text, b)
  BY <1>2 DEF FeedState, TextNow
<1>4. CallsNow(calls, b, keys)
  <2>1. \A j \in 1..Len(calls) : CallNow(calls[j], b, keys)
    BY <1>2 DEF FeedState, CallsNow, CallNow
  <2>. QED
    BY <2>1 DEF FeedState, CallsNow
<1>5. OpenNow(text, calls, b)
  BY <1>2 DEF FeedState, OpenNow
<1>6. FeedState(next, text, calls, b, keys)
  BY <1>3, <1>4, <1>5 DEF FeedState
<1>. QED
  BY <1>6 DEF b

LEMMA CallsNowMore ==
  ASSUME NEW a \in Seq(Items), NEW calls, NEW keys, CallsNow(calls, a, keys),
         NEW b \in Seq(Items), Len(b) >= Len(a),
         \A i \in 1..Len(a) : b[i].kind = a[i].kind /\ b[i].id = a[i].id
  PROVE  CallsNow(calls, b, keys)
<1>1. \A i \in 1..Len(a) : i \in 1..Len(b)
  OBVIOUS
<1>2. \A j \in 1..Len(calls) : CallNow(calls[j], b, keys)
  BY <1>1 DEF CallsNow, CallNow
<1>. QED
  BY <1>2 DEF CallsNow

LEMMA CallsApartFromText ==
  ASSUME NEW a \in Seq(Items), NEW next, NEW text, NEW calls, NEW keys,
         FeedState(next, text, calls, a, keys), NEW k \in 1..Len(calls)
  PROVE  calls[k].index \in Nat /\ calls[k].index + 1 \in 1..Len(a) /\ calls[k].index # text
<1>1. calls[k] \in Listings
  BY DEF FeedState, CallsNow
<1>2. calls[k].index \in Nat
  BY <1>1 DEF Listings
<1>3. calls[k].index + 1 \in 1..Len(a) /\ a[calls[k].index + 1].kind = "call"
  BY DEF FeedState, CallsNow, CallNow
<1>4. text = -1 \/ (text + 1 = Len(a) /\ a[Len(a)].kind = "text")
  BY DEF FeedState, TextNow
<1>. QED
  BY <1>2, <1>3, <1>4

LEMMA FeedStateShut ==
  ASSUME NEW a \in Seq(Items), NEW next, NEW text \in Nat, NEW calls, NEW keys,
         FeedState(next, text, calls, a, keys)
  PROVE  FeedState(next, -1, calls, Shut(a, text + 1), keys)
<1>. DEFINE b == Shut(a, text + 1)
<1>0. text + 1 \in 1..Len(a) /\ Len(a) \in Nat
  BY DEF FeedState, TextNow
<1>1. /\ b \in Seq(Items) /\ Len(b) = Len(a)
      /\ \A i \in 1..Len(a) : i # text + 1 => b[i] = a[i]
      /\ \A i \in 1..Len(a) : b[i].kind = a[i].kind /\ b[i].id = a[i].id
      /\ ~b[text + 1].open
  BY <1>0, ShutIs
<1>. HIDE DEF b
<1>2. TextNow(next, -1, b)
  BY <1>1 DEF FeedState, TextNow
<1>3. CallsNow(calls, b, keys)
  BY <1>0, <1>1, CallsNowMore DEF FeedState
<1>4. ASSUME NEW i \in 1..Len(b)
      PROVE  b[i].open <=> i = (-1) + 1 \/ \E k \in 1..Len(calls) : calls[k].index + 1 = i
  <2>1. i \in 1..Len(a) /\ i # (-1) + 1
    BY <1>0, <1>1
  <2>2. CASE i = text + 1
    <3>1. \A k \in 1..Len(calls) : calls[k].index + 1 # i
      BY <2>2, CallsApartFromText
    <3>. QED
      BY <1>1, <2>1, <2>2, <3>1
  <2>3. CASE i # text + 1
    <3>1. b[i] = a[i]
      BY <1>1, <2>1, <2>3
    <3>. QED
      BY <2>1, <2>3, <3>1 DEF FeedState, OpenNow
  <2>. QED
    BY <2>2, <2>3
<1>5. OpenNow(-1, calls, b)
  BY <1>4 DEF OpenNow
<1>6. FeedState(next, -1, calls, b, keys)
  BY <1>2, <1>3, <1>5 DEF FeedState
<1>. QED
  BY <1>6 DEF b

LEMMA FeedStateText ==
  ASSUME NEW a \in Seq(Items), NEW next, NEW calls, NEW keys, FeedState(next, -1, calls, a, keys),
         NEW x \in Items, x.kind = "text", x.open
  PROVE  FeedState(next + 1, next, calls, Append(a, x), keys)
<1>. DEFINE b == Append(a, x)
<1>0. /\ Len(b) = Len(a) + 1 /\ b[Len(a) + 1] = x /\ Len(a) \in Nat
      /\ \A i \in 1..Len(a) : b[i] = a[i] /\ i \in 1..Len(b) /\ i # Len(a) + 1
      /\ \A i \in 1..Len(b) : i \in 1..Len(a) \/ i = Len(a) + 1
  BY Appended
<1>1. b \in Seq(Items)
  OBVIOUS
<1>. HIDE DEF b
<1>2. next = Len(a)
  BY DEF FeedState, TextNow
<1>3. TextNow(next + 1, next, b)
  BY <1>0, <1>2 DEF TextNow
<1>4. CallsNow(calls, b, keys)
  <2>1. Len(b) >= Len(a)
    BY <1>0
  <2>. QED
    BY <1>0, <1>1, <2>1, CallsNowMore DEF FeedState
<1>5. ASSUME NEW i \in 1..Len(b)
      PROVE  b[i].open <=> i = next + 1 \/ \E k \in 1..Len(calls) : calls[k].index + 1 = i
  <2>1. CASE i = Len(a) + 1
    BY <1>0, <1>2, <2>1
  <2>2. CASE i # Len(a) + 1
    <3>1. i \in 1..Len(a) /\ b[i] = a[i] /\ i # (-1) + 1 /\ i # next + 1
      BY <1>0, <1>2, <2>2
    <3>. QED
      BY <3>1 DEF FeedState, OpenNow
  <2>. QED
    BY <2>1, <2>2
<1>6. OpenNow(next, calls, b)
  BY <1>5 DEF OpenNow
<1>7. FeedState(next + 1, next, calls, b, keys)
  BY <1>3, <1>4, <1>6 DEF FeedState
<1>. QED
  BY <1>7 DEF b

LEMMA FeedStateCall ==
  ASSUME NEW a \in Seq(Items), NEW next, NEW calls, NEW keys, FeedState(next, -1, calls, a, keys),
         NEW x \in Items, x.kind = "call", x.open, NEW at \in Nat,
         \A k \in 1..Len(calls) : calls[k].tool # at,
         NEW w, w = Append(calls, [tool |-> at, index |-> next])
  PROVE  FeedState(next + 1, -1, w, Append(a, x), keys \cup {<<at, x.id>>})
<1>. DEFINE b == Append(a, x)
<1>0. /\ Len(b) = Len(a) + 1 /\ b[Len(a) + 1] = x /\ Len(a) \in Nat /\ Len(a) + 1 \in 1..Len(b)
      /\ \A i \in 1..Len(a) : b[i] = a[i] /\ i \in 1..Len(b) /\ i # Len(a) + 1
      /\ \A i \in 1..Len(b) : i \in 1..Len(a) \/ i = Len(a) + 1
  BY Appended
<1>1. b \in Seq(Items)
  OBVIOUS
<1>. HIDE DEF b
<1>2. next = Len(a) /\ next \in Nat
  BY <1>0 DEF FeedState, TextNow
<1>. DEFINE l == [tool |-> at, index |-> next]
<1>3. l \in Listings /\ l.tool = at /\ l.index = next
  BY <1>2 DEF Listings
<1>. HIDE DEF l
<1>4. calls \in Seq(Listings)
  BY DEF FeedState, CallsNow
<1>. DEFINE m == Len(calls)
<1>5. /\ w \in Seq(Listings) /\ Len(w) = m + 1 /\ w[m + 1] = l /\ m \in Nat /\ m + 1 \in 1..Len(w)
      /\ \A k \in 1..m : w[k] = calls[k] /\ k \in 1..Len(w)
      /\ \A k \in 1..Len(w) : k \in 1..m \/ k = m + 1
  BY <1>3, <1>4 DEF l
<1>6. \A k \in 1..m : calls[k].index \in Nat /\ calls[k].index + 1 \in 1..Len(a) /\ calls[k].index # next
  BY <1>0, <1>2, CallsApartFromText
<1>. HIDE DEF m
<1>. DEFINE all == keys \cup {<<at, x.id>>}
<1>7. \A y, id : <<y, id>> \in all <=> <<y, id>> \in keys \/ (y = at /\ id = x.id)
  OBVIOUS
<1>. HIDE DEF all
<1>8. TextNow(next + 1, -1, b)
  BY <1>0, <1>2 DEF TextNow
<1>9. CallsNow(w, b, all)
  <2>1. Apart(w)
    <3>1. \A k, j \in 1..m : calls[k].tool = calls[j].tool => k = j
      BY DEF FeedState, CallsNow, Apart, m
    <3>2. \A k \in 1..m : calls[k].tool # at
      BY DEF m
    <3>. QED
      BY <1>3, <1>5, <3>1, <3>2 DEF Apart
  <2>2. ASSUME NEW k \in 1..Len(w) PROVE CallNow(w[k], b, all)
    <3>1. CASE k = m + 1
      BY <1>0, <1>2, <1>3, <1>5, <1>7, <3>1 DEF CallNow
    <3>2. CASE k # m + 1
      <4>1. k \in 1..m /\ w[k] = calls[k]
        BY <1>5, <3>2
      <4>2. CallNow(calls[k], a, keys)
        BY <4>1 DEF FeedState, CallsNow, m
      <4>. QED
        BY <1>0, <1>7, <4>1, <4>2 DEF CallNow
    <3>. QED
      BY <3>1, <3>2
  <2>3. \A k, j \in 1..Len(w) : w[k].index = w[j].index => k = j
    <3>1. \A k, j \in 1..m : calls[k].index = calls[j].index => k = j
      BY DEF FeedState, CallsNow, m
    <3>. QED
      BY <1>3, <1>5, <1>6, <3>1
  <2>4. ASSUME NEW y, NEW id, <<y, id>> \in all PROVE \E k \in 1..Len(w) : w[k].tool = y
    <3>1. CASE y = at
      BY <1>3, <1>5, <3>1
    <3>2. CASE y # at
      <4>1. <<y, id>> \in keys
        BY <1>7, <2>4, <3>2
      <4>2. PICK k \in 1..m : calls[k].tool = y
        BY <4>1 DEF FeedState, CallsNow, m
      <4>. QED
        BY <1>5, <4>2
    <3>. QED
      BY <3>1, <3>2
  <2>. QED
    BY <1>5, <2>1, <2>2, <2>3, <2>4 DEF CallsNow
<1>10. ASSUME NEW i \in 1..Len(b)
       PROVE  b[i].open <=> i = (-1) + 1 \/ \E k \in 1..Len(w) : w[k].index + 1 = i
  <2>0. i # (-1) + 1
    BY <1>0
  <2>1. CASE i = Len(a) + 1
    <3>1. w[m + 1].index + 1 = i
      BY <1>2, <1>3, <1>5, <2>1
    <3>. QED
      BY <1>0, <1>5, <2>1, <3>1
  <2>2. CASE i # Len(a) + 1
    <3>1. i \in 1..Len(a) /\ b[i] = a[i]
      BY <1>0, <2>2
    <3>2. b[i].open <=> \E k \in 1..m : calls[k].index + 1 = i
      BY <2>0, <3>1 DEF FeedState, OpenNow, m
    <3>3. ASSUME NEW k \in 1..Len(w), w[k].index + 1 = i PROVE \E j \in 1..m : calls[j].index + 1 = i
      <4>1. k # m + 1
        BY <1>2, <1>3, <1>5, <2>2, <3>3
      <4>. QED
        BY <1>5, <3>3, <4>1
    <3>4. ASSUME NEW j \in 1..m, calls[j].index + 1 = i PROVE \E k \in 1..Len(w) : w[k].index + 1 = i
      BY <1>5, <3>4
    <3>. QED
      BY <2>0, <3>2, <3>3, <3>4
  <2>. QED
    BY <2>1, <2>2
<1>11. OpenNow(-1, w, b)
  BY <1>10 DEF OpenNow
<1>12. FeedState(next + 1, -1, w, b, all)
  BY <1>8, <1>9, <1>11 DEF FeedState
<1>. QED
  BY <1>12 DEF b, all

-----------------------------------------------------------------------------
(* A Responses reply d made of the chat reply x, and the translator's      *)
(* state, as long as the reply has not been finished.                      *)
SameContent(x, d) ==
  /\ Whole("chat", x) /\ Numbered(x.items)
  /\ Whole("responses", d) /\ Numbered(d.items)
  /\ Content(d.items) = Content(x.items)
ResponsesBridge(st, x, d) ==
  /\ SameContent(x, d) /\ IsFeed(st) /\ ~st.finished /\ d.why = "none"
  /\ FeedState(st.next, st.text, st.calls, d.items, CallKeys(x.items))
Fed(st, x, d, c) ==
  \E e : /\ Road("responses", d, Feed(st, c).out, e)
         /\ ResponsesBridge(Feed(st, c).st, Hear("chat", x, c), e)

LEMMA FedIdle ==
  ASSUME NEW st, NEW x, NEW d, ResponsesBridge(st, x, d), NEW c, c.d = "done"
  PROVE  Fed(st, x, d, c)
<1>1. Feed(st, c) = Emits(st, <<>>) /\ Hear("chat", x, c) = x
  BY FeedDone, ChatIdle DEF ResponsesBridge
<1>2. Road("responses", d, <<>>, d)
  BY RoadNone
<1>. QED
  BY <1>1, <1>2, EmitsIs DEF Fed

LEMMA FedRole ==
  ASSUME NEW st, NEW x, NEW d, ResponsesBridge(st, x, d), NEW c, c.d \in {"role", "usage"}
  PROVE  Fed(st, x, d, c)
<1>. DEFINE s == Started(st)
<1>1. Feed(st, c) = Emits(s, Begin(st)) /\ Hear("chat", x, c) = x
  BY FeedRole, ChatIdle DEF ResponsesBridge
<1>2. FeedIs(s, st.next, st.text, st.calls, st.finished)
  BY FeedStarted DEF ResponsesBridge
<1>. HIDE DEF s
<1>3. ResponsesBridge(s, x, d)
  BY <1>2 DEF ResponsesBridge, FeedIs
<1>4. Road("responses", d, Begin(st), d)
  BY RoadBegin
<1>. QED
  BY <1>1, <1>3, <1>4, EmitsIs DEF Fed

(* A reason changes what the translator remembers, and nothing is said. *)
LEMMA FedFinish ==
  ASSUME NEW st, NEW x, NEW d, ResponsesBridge(st, x, d), NEW c, c.d = "finish",
         Fits("chat", x.items, x.why, c)
  PROVE  Fed(st, x, d, c)
<1>. DEFINE r == Started(st)
<1>. DEFINE s == CutShort(r, c.why)
<1>. DEFINE y == Hear("chat", x, c)
<1>1. Feed(st, c) = Emits(s, Begin(st))
  BY FeedFinish DEF ResponsesBridge
<1>2. FeedIs(r, st.next, st.text, st.calls, st.finished)
  BY FeedStarted DEF ResponsesBridge
<1>. HIDE DEF r
<1>3. FeedIs(s, r.next, r.text, r.calls, r.finished)
  BY <1>2, FeedCutShort DEF FeedIs
<1>. HIDE DEF s
<1>4. FeedIs(s, st.next, st.text, st.calls, st.finished)
  BY <1>2, <1>3 DEF FeedIs
<1>5. /\ Numbered(y.items) /\ CallKeys(y.items) = CallKeys(x.items) /\ Content(y.items) = Content(x.items)
      /\ Whole("chat", y)
  BY ChatFinish, HearKeeps DEF ResponsesBridge, SameContent
<1>. HIDE DEF y
<1>6. ResponsesBridge(s, y, d)
  BY <1>4, <1>5 DEF ResponsesBridge, FeedIs, SameContent
<1>7. Road("responses", d, Begin(st), d)
  BY RoadBegin
<1>. QED
  BY <1>1, <1>6, <1>7, EmitsIs DEF Fed, y

TextOf(i, n, p) == i \in Items /\ i.at = n /\ i.kind = "text" /\ i.parts = <<p>> /\ i.open

LEMMA TextItem ==
  ASSUME NEW client, client # "chat", NEW h, Whole(client, h), h.why = "none", NEW p \in Nat
  PROVE  /\ Road(client, h, <<Open(Len(h.items), "text", 0), Delta(Len(h.items), <<p>>)>>,
                 Heard(Append(h.items, Item(Len(h.items), "text", 0, <<p>>)), "none"))
         /\ TextOf(Item(Len(h.items), "text", 0, <<p>>), Len(h.items), p)
<1>. DEFINE zero == 0
<1>. DEFINE args == <<p>>
<1>. DEFINE text == "text"
<1>. DEFINE j == Item(Len(h.items), text, zero, args)
<1>1. zero \in Nat /\ text \in {"text", "call"} /\ args \in Seq(Nat)
  OBVIOUS
<1>. HIDE DEF zero, args, text
<1>2. Road(client, h, <<Open(Len(h.items), text, zero), Delta(Len(h.items), args)>>,
           Heard(Append(h.items, j), "none"))
  BY <1>1, RoadItem
<1>3. Len(h.items) \in Int
  BY DEF Whole, Good
<1>4. j \in Items /\ j.at = Len(h.items) /\ j.kind = text /\ j.parts = args /\ j.open
  BY <1>1, <1>3, ItemIs
<1>. QED
  BY <1>2, <1>4 DEF zero, args, text, TextOf

(* The text goes on. *)
LEMMA FedTextMore ==
  ASSUME NEW st, NEW x, NEW d, ResponsesBridge(st, x, d), NEW c, c.d = "text", c.p \in Nat,
         x.why = "none", st.text \in Nat
  PROVE  Fed(st, x, d, c)
<1>. DEFINE s == Started(st)
<1>. DEFINE y == Hear("chat", x, c)
<1>. DEFINE k == st.text + 1
<1>. DEFINE e == Heard(Extend(d.items, k, <<c.p>>), "none")
<1>0. /\ SameContent(x, d) /\ IsFeed(st) /\ d.why = "none" /\ ~st.finished
      /\ FeedState(st.next, st.text, st.calls, d.items, CallKeys(x.items))
  BY DEF ResponsesBridge
<1>1. /\ k \in 1..Len(d.items) /\ d.items[k].open /\ d.items \in Seq(Items)
      /\ d.items[k].kind = "text" /\ LastText(d.items, k)
  <2>1. d.items \in Seq(Items) /\ Len(d.items) \in Nat
    BY <1>0 DEF SameContent, Whole, Good
  <2>2. k = Len(d.items) /\ d.items[k].kind = "text"
    BY <1>0 DEF FeedState, TextNow
  <2>3. k \in 1..Len(d.items)
    BY <2>1, <2>2
  <2>4. d.items[k].open
    BY <1>0, <2>3 DEF FeedState, OpenNow
  <2>. QED
    BY <2>1, <2>2, <2>3, <2>4 DEF LastText
<1>2. Feed(st, c) = Emits(s, Begin(st) \o <<Delta(st.text, <<c.p>>)>>)
  BY <1>0, FeedTextMore
<1>3. FeedIs(s, st.next, st.text, st.calls, st.finished)
  BY <1>0, FeedStarted
<1>4. <<c.p>> \in Seq(Nat)
  OBVIOUS
<1>5. /\ Numbered(y.items) /\ CallKeys(y.items) = CallKeys(x.items)
      /\ Content(y.items) = TextMore(Content(x.items), <<c.p>>) /\ Whole("chat", y)
  <2>1. Fits("chat", x.items, x.why, c)
    BY DEF Fits, FitsChat
  <2>. QED
    BY <1>0, <2>1, ChatText, HearKeeps DEF SameContent
<1>6. Road("responses", d, <<Delta(st.text, <<c.p>>)>>, e)
  BY <1>0, <1>1, <1>4, RoadDelta DEF SameContent
<1>7. Road("responses", d, Begin(st) \o <<Delta(st.text, <<c.p>>)>>, e)
  BY <1>6, RoadBegin, RoadConcat
<1>8. Whole("responses", e)
  BY <1>0, <1>6, RoadKeeps DEF SameContent
<1>. HIDE DEF s, y, k
<1>9. e.items = Extend(d.items, k, <<c.p>>) /\ e.why = "none"
  BY DEF Heard
<1>10. Numbered(e.items) /\ Content(e.items) = TextMore(Content(d.items), <<c.p>>)
  BY <1>0, <1>1, <1>4, <1>9, ContentExtend DEF SameContent
<1>11. FeedState(st.next, st.text, st.calls, e.items, CallKeys(y.items))
  BY <1>0, <1>1, <1>4, <1>5, <1>9, FeedStateGrows
<1>. HIDE DEF e
<1>12. ResponsesBridge(s, y, e)
  BY <1>0, <1>3, <1>5, <1>8, <1>9, <1>10, <1>11 DEF ResponsesBridge, SameContent, FeedIs
<1>. QED
  BY <1>2, <1>7, <1>12, EmitsIs DEF Fed, y

(* The text begins, or begins again. *)
LEMMA FedTextNew ==
  ASSUME NEW st, NEW x, NEW d, ResponsesBridge(st, x, d), NEW c, c.d = "text", c.p \in Nat,
         x.why = "none", st.text = -1
  PROVE  Fed(st, x, d, c)
<1>. DEFINE s == TextOpened(Started(st))
<1>. DEFINE y == Hear("chat", x, c)
<1>. DEFINE n == Len(d.items)
<1>. DEFINE i == Item(n, "text", 0, <<c.p>>)
<1>. DEFINE e == Heard(Append(d.items, i), "none")
<1>0. /\ SameContent(x, d) /\ IsFeed(st) /\ d.why = "none" /\ ~st.finished
      /\ FeedState(st.next, -1, st.calls, d.items, CallKeys(x.items))
  BY DEF ResponsesBridge
<1>1. st.next = n /\ d.items \in Seq(Items)
  BY <1>0 DEF FeedState, TextNow, SameContent, Whole, Good
<1>. HIDE DEF n
<1>2. Feed(st, c) = Emits(s, Begin(st) \o <<Open(n, "text", 0), Delta(n, <<c.p>>)>>)
  BY <1>0, <1>1, FeedTextNew
<1>3. FeedIs(s, st.next + 1, st.next, st.calls, st.finished)
  <2>. DEFINE r == Started(st)
  <2>1. FeedIs(r, st.next, st.text, st.calls, st.finished)
    BY <1>0, FeedStarted
  <2>. HIDE DEF r
  <2>2. FeedIs(TextOpened(r), r.next + 1, r.next, r.calls, r.finished)
    BY <2>1, FeedTextOpened DEF FeedIs
  <2>. QED
    BY <2>1, <2>2 DEF r, FeedIs
<1>5. /\ Numbered(y.items) /\ CallKeys(y.items) = CallKeys(x.items)
      /\ Content(y.items) = TextMore(Content(x.items), <<c.p>>) /\ Whole("chat", y)
  <2>1. Fits("chat", x.items, x.why, c)
    BY DEF Fits, FitsChat
  <2>. QED
    BY <1>0, <2>1, ChatText, HearKeeps DEF SameContent
<1>6. /\ Road("responses", d, <<Open(n, "text", 0), Delta(n, <<c.p>>)>>, e)
      /\ i \in Items /\ i.at = n /\ i.kind = "text" /\ i.parts = <<c.p>> /\ i.open
  <2>1. Whole("responses", d)
    BY <1>0 DEF SameContent
  <2>2. Road("responses", d, <<Open(n, "text", 0), Delta(n, <<c.p>>)>>, e) /\ TextOf(i, n, c.p)
    BY <1>0, <2>1, TextItem DEF n
  <2>. QED
    BY <2>2 DEF TextOf
<1>7. Road("responses", d, Begin(st) \o <<Open(n, "text", 0), Delta(n, <<c.p>>)>>, e)
  BY <1>6, RoadBegin, RoadConcat
<1>8. Whole("responses", e)
  BY <1>0, <1>6, RoadKeeps DEF SameContent
<1>. HIDE DEF s, y, i
<1>9. e.items = Append(d.items, i) /\ e.why = "none"
  BY DEF Heard
<1>10. Numbered(e.items) /\ Content(e.items) = TextMore(Content(d.items), <<c.p>>)
  BY <1>0, <1>1, <1>6, <1>9, ContentAppend DEF SameContent
<1>11. FeedState(st.next + 1, st.next, st.calls, e.items, CallKeys(y.items))
  BY <1>0, <1>1, <1>5, <1>6, <1>9, FeedStateText
<1>. HIDE DEF e
<1>12. ResponsesBridge(s, y, e)
  BY <1>0, <1>3, <1>5, <1>8, <1>9, <1>10, <1>11 DEF ResponsesBridge, SameContent, FeedIs
<1>. QED
  BY <1>2, <1>7, <1>12, EmitsIs DEF Fed, y

-----------------------------------------------------------------------------
(* The text item is closed. *)
TextClosed(client, next, text, calls, keys, h, out) ==
  \E g : /\ Road(client, h, out, g) /\ Whole(client, g) /\ g.why = "none"
         /\ Numbered(g.items) /\ Content(g.items) = Content(h.items)
         /\ FeedState(next, -1, calls, g.items, keys)

LEMMA TextCloses ==
  ASSUME NEW st, NEW keys, NEW d, Whole("responses", d), d.why = "none", Numbered(d.items),
         FeedState(st.next, st.text, st.calls, d.items, keys)
  PROVE  TextClosed("responses", st.next, st.text, st.calls, keys, d, CloseText(st))
<1>0. d.items \in Seq(Items) /\ Len(d.items) \in Nat
  BY DEF Whole, Good
<1>1. CASE st.text = -1
  <2>1. CloseText(st) = <<>>
    BY <1>1 DEF CloseText
  <2>2. Road("responses", d, <<>>, d)
    BY RoadNone
  <2>. QED
    BY <1>1, <2>1, <2>2 DEF TextClosed
<1>2. CASE st.text # -1
  <2>. DEFINE k == st.text + 1
  <2>. DEFINE g == Heard(Shut(d.items, k), "none")
  <2>1. st.text \in Nat /\ k = Len(d.items)
    BY <1>2 DEF FeedState, TextNow
  <2>2. k \in 1..Len(d.items)
    BY <1>0, <2>1
  <2>3. d.items[k].open
    BY <2>2 DEF FeedState, OpenNow
  <2>4. CloseText(st) = <<Close(st.text)>>
    BY <2>1 DEF CloseText
  <2>5. Road("responses", d, <<Close(st.text)>>, g)
    BY <2>1, <2>2, <2>3, RoadClose
  <2>6. Whole("responses", g)
    BY <2>5, RoadKeeps
  <2>7. g.items = Shut(d.items, k) /\ g.why = "none"
    BY DEF Heard
  <2>. HIDE DEF g
  <2>8. Numbered(g.items) /\ Content(g.items) = Content(d.items)
    BY <1>0, <2>2, <2>7, ContentShut
  <2>9. FeedState(st.next, -1, st.calls, g.items, keys)
    BY <1>0, <2>1, <2>7, FeedStateShut
  <2>. QED
    BY <2>4, <2>5, <2>6, <2>7, <2>8, <2>9 DEF TextClosed
<1>. QED
  BY <1>1, <1>2

(* A call goes on. *)
LEMMA FedCallMore ==
  ASSUME NEW st, NEW x, NEW d, ResponsesBridge(st, x, d), NEW c, c.d = "call", c.args \in Seq(Nat),
         x.why = "none", Fits("chat", x.items, x.why, c), NEW k, k = CallAt(st, c.at), k # 0
  PROVE  Fed(st, x, d, c)
<1>. DEFINE s == TextForgotten(Started(st))
<1>. DEFINE y == Hear("chat", x, c)
<1>. DEFINE at == st.calls[k].index
<1>0. /\ SameContent(x, d) /\ IsFeed(st) /\ d.why = "none" /\ ~st.finished
      /\ FeedState(st.next, st.text, st.calls, d.items, CallKeys(x.items))
  BY DEF ResponsesBridge
<1>1. k \in 1..Len(st.calls) /\ st.calls[k].tool = c.at /\ k \in Nat /\ k > 0
  <2>1. st.calls \in Seq(Listings) /\ Apart(st.calls)
    BY <1>0 DEF FeedState, CallsNow
  <2>2. k \in 1..Len(st.calls) /\ st.calls[k].tool = c.at
    BY <2>1, CallAtIs
  <2>. QED
    BY <2>2
<1>2. Feed(st, c) = Emits(s, (Begin(st) \o CloseText(st)) \o <<Delta(at, c.args)>>)
  BY <1>0, <1>1, FeedCallMore
<1>3. FeedIs(s, st.next, -1, st.calls, st.finished)
  <2>. DEFINE r == Started(st)
  <2>1. FeedIs(r, st.next, st.text, st.calls, st.finished)
    BY <1>0, FeedStarted
  <2>. HIDE DEF r
  <2>2. FeedIs(TextForgotten(r), r.next, -1, r.calls, r.finished)
    BY <2>1, FeedTextForgotten DEF FeedIs
  <2>. QED
    BY <2>1, <2>2 DEF r, FeedIs
<1>4. PICK g : /\ Road("responses", d, CloseText(st), g) /\ Whole("responses", g) /\ g.why = "none"
               /\ Numbered(g.items) /\ Content(g.items) = Content(d.items)
               /\ FeedState(st.next, -1, st.calls, g.items, CallKeys(x.items))
  BY <1>0, TextCloses DEF TextClosed, SameContent
<1>5. /\ at \in Nat /\ at + 1 \in 1..Len(g.items) /\ g.items[at + 1].kind = "call"
      /\ <<c.at, g.items[at + 1].id>> \in CallKeys(x.items)
  <2>1. st.calls[k] \in Listings
    BY <1>1, <1>4 DEF FeedState, CallsNow
  <2>2. CallNow(st.calls[k], g.items, CallKeys(x.items))
    BY <1>1, <1>4 DEF FeedState, CallsNow
  <2>. QED
    BY <1>1, <2>1, <2>2 DEF Listings, CallNow
<1>6. g.items[at + 1].open /\ g.items \in Seq(Items)
  <2>1. at + 1 = st.calls[k].index + 1
    OBVIOUS
  <2>. HIDE DEF at
  <2>. QED
    BY <1>1, <1>4, <1>5, <2>1 DEF FeedState, OpenNow, Whole, Good
<1>. HIDE DEF at
<1>. DEFINE id == g.items[at + 1].id
<1>. DEFINE e == Heard(Extend(g.items, at + 1, c.args), "none")
<1>. HIDE DEF id
<1>7. <<c.at, id>> \in CallKeys(x.items)
  BY <1>5 DEF id
<1>8. /\ Numbered(y.items) /\ CallKeys(y.items) = CallKeys(x.items)
      /\ Content(y.items) = CallMore(Content(x.items), id, c.args) /\ Whole("chat", y)
  BY <1>0, <1>7, ChatMore, HearKeeps DEF SameContent
<1>9. Road("responses", g, <<Delta(at, c.args)>>, e)
  BY <1>4, <1>5, <1>6, RoadDelta
<1>10. Road("responses", d, (Begin(st) \o CloseText(st)) \o <<Delta(at, c.args)>>, e)
  BY <1>4, <1>9, RoadBegin, RoadConcat
<1>11. Whole("responses", e)
  BY <1>4, <1>9, RoadKeeps
<1>. HIDE DEF s, y
<1>12. e.items = Extend(g.items, at + 1, c.args) /\ e.why = "none"
  BY DEF Heard
<1>13. Numbered(e.items) /\ Content(e.items) = CallMore(Content(g.items), id, c.args)
  BY <1>4, <1>5, <1>6, <1>12, ContentExtend DEF id
<1>14. FeedState(st.next, -1, st.calls, e.items, CallKeys(y.items))
  BY <1>4, <1>5, <1>6, <1>8, <1>12, FeedStateGrows
<1>. HIDE DEF e
<1>15. ResponsesBridge(s, y, e)
  BY <1>0, <1>3, <1>4, <1>8, <1>11, <1>12, <1>13, <1>14 DEF ResponsesBridge, SameContent, FeedIs
<1>. QED
  BY <1>2, <1>10, <1>15, EmitsIs DEF Fed, y

(* A call begins. *)
LEMMA FedCallNew ==
  ASSUME NEW st, NEW x, NEW d, ResponsesBridge(st, x, d),
         NEW c, c.d = "call", c.at \in Nat, c.id \in Nat, c.args \in Seq(Nat),
         x.why = "none", Fits("chat", x.items, x.why, c), CallAt(st, c.at) = 0
  PROVE  Fed(st, x, d, c)
<1>. DEFINE s == CallListed(TextForgotten(Started(st)), c.at)
<1>. DEFINE y == Hear("chat", x, c)
<1>. DEFINE w == Append(st.calls, [tool |-> c.at, index |-> st.next])
<1>0. /\ SameContent(x, d) /\ IsFeed(st) /\ d.why = "none" /\ ~st.finished
      /\ FeedState(st.next, st.text, st.calls, d.items, CallKeys(x.items))
  BY DEF ResponsesBridge
<1>1. \A k \in 1..Len(st.calls) : st.calls[k].tool # c.at
  <2>1. st.calls \in Seq(Listings) /\ Apart(st.calls)
    BY <1>0 DEF FeedState, CallsNow
  <2>. QED
    BY <2>1, CallAtIs
<1>2. Feed(st, c) = Emits(s, (Begin(st) \o CloseText(st))
                               \o <<Open(st.next, "call", c.id), Delta(st.next, c.args)>>)
  BY <1>0, FeedCallNew
<1>3. FeedIs(s, st.next + 1, -1, w, st.finished)
  <2>. DEFINE r == Started(st)
  <2>. DEFINE q == TextForgotten(r)
  <2>1. FeedIs(r, st.next, st.text, st.calls, st.finished)
    BY <1>0, FeedStarted
  <2>. HIDE DEF r
  <2>2. FeedIs(q, r.next, -1, r.calls, r.finished)
    BY <2>1, FeedTextForgotten DEF FeedIs
  <2>. HIDE DEF q
  <2>3. FeedIs(q, st.next, -1, st.calls, st.finished)
    BY <2>1, <2>2 DEF FeedIs
  <2>4. IsFeed(q)
    BY <2>3 DEF FeedIs
  <2>5. FeedIs(CallListed(q, c.at), q.next + 1, q.text,
               Append(q.calls, [tool |-> c.at, index |-> q.next]), q.finished)
    BY <2>4, FeedCallListed
  <2>. QED
    BY <2>3, <2>5 DEF q, r, FeedIs
<1>3a. w = Append(st.calls, [tool |-> c.at, index |-> st.next])
  OBVIOUS
<1>. HIDE DEF w
<1>4. PICK g : /\ Road("responses", d, CloseText(st), g) /\ Whole("responses", g) /\ g.why = "none"
               /\ Numbered(g.items) /\ Content(g.items) = Content(d.items)
               /\ FeedState(st.next, -1, st.calls, g.items, CallKeys(x.items))
  BY <1>0, TextCloses DEF TextClosed, SameContent
<1>. DEFINE n == Len(g.items)
<1>. DEFINE i == Item(n, "call", c.id, c.args)
<1>. DEFINE e == Heard(Append(g.items, i), "none")
<1>5. st.next = n /\ g.items \in Seq(Items) /\ x.items \in Seq(Items) /\ d.items \in Seq(Items)
  BY <1>0, <1>4 DEF FeedState, TextNow, SameContent, Whole, Good
<1>6. \A id : <<c.at, id>> \notin CallKeys(x.items)
  BY <1>1, <1>4 DEF FeedState, CallsNow
<1>7. c.id = Len(CallsOf(x.items)) + 1
  <2>1. ~\E k \in 1..Len(x.items) : x.items[k].kind = "call" /\ x.items[k].at = c.at
    BY <1>6 DEF CallKeys
  <2>. QED
    BY <2>1 DEF Fits, FitsChat
<1>8. Len(CallsOf(g.items)) = Len(CallsOf(x.items))
  <2>1. Content(g.items).args = Content(x.items).args
    BY <1>0, <1>4 DEF SameContent
  <2>. QED
    BY <1>5, <2>1, ContentTyped
<1>9. /\ Numbered(y.items) /\ CallKeys(y.items) = CallKeys(x.items) \cup {<<c.at, c.id>>}
      /\ Content(y.items) = CallNew(Content(x.items), c.args) /\ Whole("chat", y)
  BY <1>0, <1>6, <1>7, ChatNew, HearKeeps DEF SameContent
<1>10. /\ Road("responses", g, <<Open(n, "call", c.id), Delta(n, c.args)>>, e)
       /\ i \in Items /\ i.at = n /\ i.kind = "call" /\ i.parts = c.args /\ i.open /\ i.id = c.id
  BY <1>4, RoadItem
<1>11. Road("responses", d, (Begin(st) \o CloseText(st))
                              \o <<Open(st.next, "call", c.id), Delta(st.next, c.args)>>, e)
  <2>1. Road("responses", d, Begin(st) \o CloseText(st), g)
    BY <1>4, RoadBegin, RoadConcat
  <2>. QED
    BY <1>5, <1>10, <2>1, RoadConcat
<1>12. Whole("responses", e)
  BY <1>4, <1>10, RoadKeeps
<1>. HIDE DEF s, y, i, n
<1>13. e.items = Append(g.items, i) /\ e.why = "none"
  BY DEF Heard
<1>14. Numbered(e.items) /\ Content(e.items) = CallNew(Content(g.items), c.args)
  BY <1>4, <1>5, <1>7, <1>8, <1>10, <1>13, ContentAppend
<1>15. FeedState(st.next + 1, -1, w, e.items, CallKeys(y.items))
  <2>1. FeedState(st.next + 1, -1, w, Append(g.items, i), CallKeys(x.items) \cup {<<c.at, i.id>>})
    BY <1>1, <1>3a, <1>4, <1>5, <1>10, FeedStateCall
  <2>. QED
    BY <1>9, <1>10, <1>13, <2>1
<1>. HIDE DEF e
<1>16. ResponsesBridge(s, y, e)
  BY <1>0, <1>3, <1>4, <1>9, <1>12, <1>13, <1>14, <1>15 DEF ResponsesBridge, SameContent, FeedIs
<1>. QED
  BY <1>2, <1>11, <1>16, EmitsIs DEF Fed, y

(* Every chunk takes both replies on together. *)
LEMMA FedStep ==
  ASSUME NEW st, NEW x, NEW d, ResponsesBridge(st, x, d),
         NEW c \in Frames, Fits("chat", x.items, x.why, c)
  PROVE  Fed(st, x, d, c)
<1>1. CASE c.d = "done"
  BY <1>1, FedIdle
<1>2. CASE c.d \in {"role", "usage"}
  BY <1>2, FedRole
<1>3. CASE c.d = "finish"
  BY <1>3, FedFinish
<1>4. CASE c.d \notin {"role", "usage", "done", "finish"}
  <2>1. x.why = "none" /\ c.d \in {"text", "call"}
    BY <1>4 DEF Fits, FitsChat
  <2>2. st.text = -1 \/ st.text \in Nat
    BY DEF ResponsesBridge, FeedState, TextNow
  <2>. QED
    BY <2>1, <2>2, FrameTyped, FedTextMore, FedTextNew, FedCallMore, FedCallNew
<1>. QED
  BY <1>1, <1>2, <1>3, <1>4

-----------------------------------------------------------------------------
(* The reply is finished: what is still open is closed, and it has its     *)
(* reason.                                                                 *)
LEMMA CallIndexesAre ==
  ASSUME NEW st, st.calls \in Seq(Listings), NEW bs, bs = CallIndexes(st)
  PROVE  /\ bs \in Seq(Nat) /\ Len(bs) = Len(st.calls)
         /\ \A k \in 1..Len(bs) : bs[k] = st.calls[k].index
<1>1. Len(st.calls) \in Nat /\ \A k \in 1..Len(st.calls) : st.calls[k].index \in Nat
  <2>1. Len(st.calls) \in Nat /\ \A k \in 1..Len(st.calls) : st.calls[k] \in Listings
    OBVIOUS
  <2>. QED
    BY <2>1 DEF Listings
<1>2. bs = [i \in 1..Len(st.calls) |-> st.calls[i].index]
  BY DEF CallIndexes
<1>3. bs \in [1..Len(st.calls) -> Nat]
  BY <1>1, <1>2
<1>4. bs \in Seq(Nat) /\ Len(bs) = Len(st.calls)
  BY <1>1, <1>3, ListOf
<1>. QED
  BY <1>2, <1>4

(* However the chat stream stops, the Responses reply is finished: every   *)
(* item that is open is closed, nothing of its content changes, and it has *)
(* a reason.                                                               *)
THEOREM FeedFinished ==
  ASSUME NEW st, NEW x, NEW d, ResponsesBridge(st, x, d)
  PROVE  \E e : /\ Road("responses", d, FinishResponse(st).out, e)
                /\ SameContent(x, e) /\ e.why # "none"
<1>. DEFINE bs == CallIndexes(st)
<1>. DEFINE why == IF st.truncated THEN "incomplete" ELSE "completed"
<1>0. /\ SameContent(x, d) /\ IsFeed(st) /\ d.why = "none" /\ ~st.finished
      /\ FeedState(st.next, st.text, st.calls, d.items, CallKeys(x.items))
  BY DEF ResponsesBridge
<1>1. FinishResponse(st).out = ((Begin(st) \o CloseText(st)) \o Closes(bs)) \o <<Why(why, NoUsage)>>
  BY <1>0 DEF FinishResponse, Emits
<1>2. PICK g : /\ Road("responses", d, CloseText(st), g) /\ Whole("responses", g) /\ g.why = "none"
               /\ Numbered(g.items) /\ Content(g.items) = Content(d.items)
               /\ FeedState(st.next, -1, st.calls, g.items, CallKeys(x.items))
  BY <1>0, TextCloses DEF TextClosed, SameContent
<1>3. /\ bs \in Seq(Nat) /\ Len(bs) = Len(st.calls)
      /\ \A k \in 1..Len(bs) : bs[k] = st.calls[k].index
  BY <1>2, CallIndexesAre DEF FeedState, CallsNow
<1>. HIDE DEF bs
<1>4. /\ \A k \in 1..Len(bs) : bs[k] + 1 \in 1..Len(g.items) /\ g.items[bs[k] + 1].open
      /\ \A k, j \in 1..Len(bs) : bs[k] = bs[j] => k = j
  <2>1. ASSUME NEW k \in 1..Len(bs) PROVE bs[k] + 1 \in 1..Len(g.items) /\ g.items[bs[k] + 1].open
    <3>1. bs[k] + 1 = st.calls[k].index + 1 /\ bs[k] + 1 \in 1..Len(g.items)
      BY <1>2, <1>3 DEF FeedState, CallsNow, CallNow
    <3>. QED
      BY <1>2, <1>3, <3>1 DEF FeedState, OpenNow
  <2>2. \A k, j \in 1..Len(bs) : bs[k] = bs[j] => k = j
    BY <1>2, <1>3 DEF FeedState, CallsNow
  <2>. QED
    BY <2>1, <2>2
<1>5. PICK i : /\ Road("responses", g, Closes(bs), i) /\ i.why = "none"
               /\ Closed(g.items, i.items, {bs[k] + 1 : k \in 1..Len(bs)})
  BY <1>2, <1>3, <1>4, RoadCloses
<1>6. g.items \in Seq(Items) /\ Len(g.items) \in Nat
  BY <1>2 DEF Whole, Good
<1>7. /\ i.items \in Seq(Items) /\ Len(i.items) = Len(g.items)
      /\ \A j \in 1..Len(g.items) : /\ i.items[j].kind = g.items[j].kind /\ i.items[j].id = g.items[j].id
                                    /\ i.items[j].parts = g.items[j].parts
  BY <1>5 DEF Closed
<1>8. ASSUME NEW j \in 1..Len(i.items) PROVE ~i.items[j].open
  <2>1. j \in 1..Len(g.items) /\ j # (-1) + 1
    BY <1>6, <1>7
  <2>2. CASE g.items[j].open
    <3>1. \E k \in 1..Len(st.calls) : st.calls[k].index + 1 = j
      BY <1>2, <2>1, <2>2 DEF FeedState, OpenNow
    <3>2. j \in {bs[k] + 1 : k \in 1..Len(bs)}
      BY <1>3, <3>1
    <3>. QED
      BY <1>5, <2>1, <3>2 DEF Closed
  <2>3. CASE ~g.items[j].open
    BY <1>5, <2>1, <2>3 DEF Closed
  <2>. QED
    BY <2>2, <2>3
<1>9. Numbered(i.items) /\ Content(i.items) = Content(g.items)
  BY <1>2, <1>6, <1>7, ContentSame
<1>10. Whole("responses", i)
  BY <1>2, <1>5, RoadKeeps
<1>. DEFINE e == Heard(i.items, why)
<1>11. why \in Whys \ {"none"}
  BY DEF Whys
<1>. HIDE DEF why
<1>12. Road("responses", i, <<Why(why, NoUsage)>>, e)
  BY <1>5, <1>8, <1>10, <1>11, NoUsageIs, RoadWhy
<1>13. Road("responses", d, ((Begin(st) \o CloseText(st)) \o Closes(bs)) \o <<Why(why, NoUsage)>>, e)
  <2>1. Road("responses", d, Begin(st) \o CloseText(st), g)
    BY <1>2, RoadBegin, RoadConcat
  <2>2. Road("responses", d, (Begin(st) \o CloseText(st)) \o Closes(bs), i)
    BY <1>5, <2>1, RoadConcat
  <2>. QED
    BY <1>12, <2>2, RoadConcat
<1>14. Whole("responses", e)
  BY <1>10, <1>12, RoadKeeps
<1>15. e.items = i.items /\ e.why = why
  BY DEF Heard
<1>. HIDE DEF e
<1>. QED
  BY <1>0, <1>1, <1>2, <1>9, <1>11, <1>13, <1>14, <1>15 DEF SameContent

-----------------------------------------------------------------------------
(***************************************************************************)
(* What the frames of a reply bill, and whole stretches of road.           *)
(***************************************************************************)
(* What a list of frames bills: no frame or several, but always the same.  *)
NoBill == UsageOf(NoUsage)
BilledIn(q, n) == {UsageIn(q[k]) : k \in 1..n} \ {NoBill}
Billed(q) == BilledIn(q, Len(q))

(* What is left of it in Messages events: a chunk with nothing but the     *)
(* bill is not translated.                                                 *)
KeptOf(f) == IF f.d = "usage" THEN {} ELSE {UsageIn(f)} \ {NoBill}
KeptIn(q, n) == UNION {KeptOf(q[k]) : k \in 1..n}
Kept(q) == KeptIn(q, Len(q))

LEMMA UsageCounts == ASSUME NEW u \in Usages PROVE UsageOf(u) \in Counts
<1>. DEFINE input == IF u.apart THEN u.input + u.cached ELSE u.input
<1>1. input \in Nat /\ u.cached \in Nat /\ u.output \in Nat
  BY DEF Usages
<1>2. UsageOf(u) = [input |-> input, cached |-> u.cached, output |-> u.output]
  BY DEF UsageOf
<1>. HIDE DEF input
<1>. QED
  BY <1>1, <1>2 DEF Counts

LEMMA NoBillIs == NoBill = [input |-> 0, cached |-> 0, output |-> 0] /\ NoBill \in Counts
BY DEF NoBill, UsageOf, NoUsage, Counts

(* A frame bills nothing, or what it says. *)
BillsOf(f, u) == f.d \in {"finish", "usage", "begin", "why"} /\ "usage" \in DOMAIN f /\ f.usage = u

LEMMA FrameBills ==
  ASSUME NEW f
  PROVE  /\ f.d \notin {"finish", "begin", "why", "usage"} => UsageIn(f) = NoBill
         /\ \A u : BillsOf(f, u) => UsageIn(f) = UsageOf(u)
BY DEF UsageIn, NoBill, BillsOf

LEMMA FramesBill ==
  /\ UsageIn(Over) = NoBill /\ UsageIn(Done) = NoBill /\ UsageIn(Role) = NoBill
  /\ \A at, args : UsageIn(Delta(at, args)) = NoBill
  /\ \A at : UsageIn(Close(at)) = NoBill
  /\ \A at, kind, id : UsageIn(Open(at, kind, id)) = NoBill
  /\ \A why, u : UsageIn(Why(why, u)) = UsageOf(u)
  /\ \A why, u : UsageIn(Finish(why, u)) = UsageOf(u)
  /\ \A u : UsageIn(Begun(u)) = UsageOf(u) /\ UsageIn(UsageChunk(u)) = UsageOf(u)
<1>1. UsageIn(Over) = NoBill /\ UsageIn(Done) = NoBill /\ UsageIn(Role) = NoBill
  BY FrameBills DEF Over, Done, Role
<1>2. \A at, args : Delta(at, args).d = "delta"
  BY DEF Delta
<1>3. \A at : Close(at).d = "close"
  BY DEF Close
<1>4. \A at, kind, id : Open(at, kind, id).d = "open"
  BY DEF Open
<1>5. ASSUME NEW why, NEW u PROVE UsageIn(Why(why, u)) = UsageOf(u)
  <2>1. BillsOf(Why(why, u), u)
    BY DEF BillsOf, Why
  <2>. QED
    BY <2>1, FrameBills
<1>6. ASSUME NEW why, NEW u PROVE UsageIn(Finish(why, u)) = UsageOf(u)
  <2>1. BillsOf(Finish(why, u), u)
    BY DEF BillsOf, Finish
  <2>. QED
    BY <2>1, FrameBills
<1>7. ASSUME NEW u PROVE UsageIn(Begun(u)) = UsageOf(u) /\ UsageIn(UsageChunk(u)) = UsageOf(u)
  <2>1. BillsOf(Begun(u), u) /\ BillsOf(UsageChunk(u), u)
    BY DEF BillsOf, Begun, UsageChunk
  <2>. QED
    BY <2>1, FrameBills
<1>. QED
  BY <1>1, <1>2, <1>3, <1>4, <1>5, <1>6, <1>7, FrameBills

Free(q) == /\ \E S : q \in Seq(S)
           /\ \A k \in 1..Len(q) : UsageIn(q[k]) = NoBill

LEMMA Catenated ==
  ASSUME NEW S, NEW q \in Seq(S), NEW r \in Seq(S)
  PROVE  /\ q \o r \in Seq(S) /\ Len(q \o r) = Len(q) + Len(r) /\ Len(q) \in Nat /\ Len(r) \in Nat
         /\ \A k \in 1..Len(q) : (q \o r)[k] = q[k]
         /\ \A k \in (Len(q) + 1)..Len(q \o r) : (q \o r)[k] = r[k - Len(q)]
OBVIOUS

LEMMA BilledConcat ==
  ASSUME NEW S, NEW q \in Seq(S), NEW r \in Seq(S)
  PROVE  Billed(q \o r) = Billed(q) \cup Billed(r)
<1>. DEFINE t == q \o r
<1>1. /\ Len(t) = Len(q) + Len(r) /\ Len(q) \in Nat /\ Len(r) \in Nat
      /\ \A k \in 1..Len(q) : t[k] = q[k]
      /\ \A k \in (Len(q) + 1)..Len(t) : t[k] = r[k - Len(q)]
  BY Catenated
<1>. HIDE DEF t
<1>2. ASSUME NEW k \in 1..Len(t)
      PROVE  \/ k \in 1..Len(q) /\ t[k] = q[k]
             \/ k - Len(q) \in 1..Len(r) /\ t[k] = r[k - Len(q)]
  <2>1. CASE k <= Len(q)
    BY <1>1, <2>1
  <2>2. CASE ~(k <= Len(q))
    <3>1. k \in (Len(q) + 1)..Len(t) /\ k - Len(q) \in 1..Len(r)
      BY <1>1, <2>2
    <3>. QED
      BY <1>1, <3>1
  <2>. QED
    BY <2>1, <2>2
<1>3. \A k \in 1..Len(q) : k \in 1..Len(t) /\ t[k] = q[k]
  BY <1>1
<1>4. ASSUME NEW k \in 1..Len(r) PROVE \E j \in 1..Len(t) : t[j] = r[k]
  <2>1. /\ Len(q) + k \in (Len(q) + 1)..Len(t) /\ Len(q) + k \in 1..Len(t)
        /\ (Len(q) + k) - Len(q) = k
    BY <1>1
  <2>. QED
    BY <1>1, <2>1
<1>5. Billed(t) = Billed(q) \cup Billed(r)
  BY <1>2, <1>3, <1>4 DEF Billed, BilledIn
<1>. QED
  BY <1>5 DEF t

LEMMA FreeJoins ==
  ASSUME NEW q, NEW r, Free(q), Free(r)
  PROVE  Free(q \o r)
<1>1. PICK S : q \in Seq(S)
  BY DEF Free
<1>2. PICK T : r \in Seq(T)
  BY DEF Free
<1>. DEFINE U == S \cup T
<1>3. q \in Seq(U) /\ r \in Seq(U)
  BY <1>1, <1>2
<1>. DEFINE t == q \o r
<1>. HIDE DEF U
<1>4. /\ t \in Seq(U) /\ Len(t) = Len(q) + Len(r) /\ Len(q) \in Nat /\ Len(r) \in Nat
      /\ \A k \in 1..Len(q) : t[k] = q[k]
      /\ \A k \in (Len(q) + 1)..Len(t) : t[k] = r[k - Len(q)]
  BY <1>3, Catenated
<1>. HIDE DEF t
<1>5. ASSUME NEW k \in 1..Len(t) PROVE UsageIn(t[k]) = NoBill
  <2>1. CASE k <= Len(q)
    BY <1>4, <2>1 DEF Free
  <2>2. CASE ~(k <= Len(q))
    <3>1. k \in (Len(q) + 1)..Len(t) /\ k - Len(q) \in 1..Len(r)
      BY <1>4, <2>2
    <3>. QED
      BY <1>4, <3>1 DEF Free
  <2>. QED
    BY <2>1, <2>2
<1>6. Free(t)
  BY <1>4, <1>5 DEF Free
<1>. QED
  BY <1>6 DEF t

LEMMA FreeOnes ==
  /\ Free(<<>>)
  /\ \A f : UsageIn(f) = NoBill => Free(<<f>>)
  /\ \A f, e : UsageIn(f) = NoBill /\ UsageIn(e) = NoBill => Free(<<f, e>>)
<1>1. Free(<<>>)
  <2>1. <<>> \in Seq({}) /\ Len(<<>>) = 0
    OBVIOUS
  <2>. QED
    BY <2>1 DEF Free
<1>2. ASSUME NEW f, UsageIn(f) = NoBill PROVE Free(<<f>>)
  <2>1. <<f>> \in Seq({f}) /\ Len(<<f>>) = 1 /\ <<f>>[1] = f
    OBVIOUS
  <2>2. \A k \in 1..1 : k = 1
    OBVIOUS
  <2>. QED
    BY <1>2, <2>1, <2>2 DEF Free
<1>3. ASSUME NEW f, NEW e, UsageIn(f) = NoBill, UsageIn(e) = NoBill PROVE Free(<<f, e>>)
  <2>1. <<f, e>> \in Seq({f, e}) /\ Len(<<f, e>>) = 2 /\ <<f, e>>[1] = f /\ <<f, e>>[2] = e
    OBVIOUS
  <2>2. \A k \in 1..2 : k = 1 \/ k = 2
    OBVIOUS
  <2>. QED
    BY <1>3, <2>1, <2>2 DEF Free
<1>. QED
  BY <1>1, <1>2, <1>3

LEMMA BeginFree == ASSUME NEW st PROVE Free(Begin(st))
<1>1. UsageIn(Begun(NoUsage)) = NoBill
  BY FramesBill DEF NoBill
<1>. QED
  BY <1>1, FreeOnes DEF Begin

LEMMA ClosesFree == ASSUME NEW bs \in Seq(Nat) PROVE Free(Closes(bs))
<1>. DEFINE q == Closes(bs)
<1>1. q = [i \in 1..Len(bs) |-> Close(bs[i])] /\ Len(bs) \in Nat
  BY DEF Closes
<1>. DEFINE S == {Close(n) : n \in Nat}
<1>2. q \in [1..Len(bs) -> S]
  BY <1>1
<1>. HIDE DEF S
<1>3. q \in Seq(S) /\ Len(q) = Len(bs)
  BY <1>1, <1>2
<1>4. \A i \in 1..Len(q) : q[i] = Close(bs[i])
  BY <1>1, <1>3
<1>. HIDE DEF q
<1>5. Free(q)
  BY <1>3, <1>4, FramesBill DEF Free
<1>. QED
  BY <1>5 DEF q

LEMMA FreeBills == ASSUME NEW q, Free(q) PROVE Billed(q) = {}
BY DEF Free, Billed, BilledIn

-----------------------------------------------------------------------------
(* A Messages reply bills what the chat reply bills, but for the chunks    *)
(* with nothing but the bill.                                              *)
LEMMA BilledOne ==
  ASSUME NEW f
  PROVE  Billed(<<f>>) = {UsageIn(f)} \ {NoBill}
<1>1. Len(<<f>>) = 1 /\ <<f>>[1] = f /\ 1..1 = {1}
  OBVIOUS
<1>. QED
  BY <1>1 DEF Billed, BilledIn

LEMMA FreeThen ==
  ASSUME NEW q, Free(q), NEW f, NEW e, UsageIn(e) = NoBill
  PROVE  Billed(q \o <<f, e>>) = {UsageIn(f)} \ {NoBill}
<1>1. PICK S : q \in Seq(S)
  BY DEF Free
<1>. DEFINE U == S \cup {f, e}
<1>. DEFINE r == <<f, e>>
<1>2. q \in Seq(U) /\ r \in Seq(U)
  BY <1>1
<1>3. Len(r) = 2 /\ r[1] = f /\ r[2] = e /\ 1..2 = {1, 2}
  OBVIOUS
<1>. HIDE DEF U, r
<1>4. Billed(q \o r) = Billed(q) \cup Billed(r)
  BY <1>2, BilledConcat
<1>5. Billed(r) = {UsageIn(f)} \ {NoBill}
  BY <1>3 DEF Billed, BilledIn
<1>. QED
  BY <1>4, <1>5, FreeBills DEF r

LEMMA ClaudeBills ==
  ASSUME NEW st, NEW x, NEW d, MessagesBridge(st, x, d),
         NEW c \in Frames, Fits("chat", x.items, x.why, c)
  PROVE  Billed(ClaudeEvents(st, c).out) = KeptOf(c)
<1>. DEFINE out == ClaudeEvents(st, c).out
<1>1. \/ c.d \in {"role", "usage", "done"}
      \/ x.why = "none" /\ c.d \in {"text", "call"}
      \/ x.why = "none" /\ c.d = "finish"
  BY DEF Fits, FitsChat
<1>2. x.why = "none" => /\ st.next = Len(d.items) /\ st.next \in Nat /\ st.text \in Int
                        /\ st.text + 1 \in 0..st.next
  BY DEF MessagesBridge, SameReply, Whole, Good, MessagesState, TextAt
<1>3. ASSUME Free(out), c.d # "finish" PROVE Billed(out) = KeptOf(c)
  <2>1. KeptOf(c) = {}
    <3>1. c.d \in {"role", "done", "text", "call"} => UsageIn(c) = NoBill
      BY FrameBills
    <3>. QED
      BY <1>1, <1>3, <3>1 DEF KeptOf
  <2>. HIDE DEF out
  <2>. QED
    BY <1>3, <2>1, FreeBills
<1>4. CASE c.d \in {"usage", "done"}
  <2>1. out = <<>>
    BY <1>4, ClaudeIdle, EmitsIs
  <2>. QED
    BY <1>3, <1>4, <2>1, FreeOnes
<1>5. CASE c.d = "role"
  <2>1. out = Begin(st)
    BY <1>5, ClaudeRole, EmitsIs
  <2>2. Free(out)
    BY <2>1, BeginFree
  <2>. QED
    BY <1>3, <1>5, <2>2
<1>6. CASE c.d = "text" /\ x.why = "none"
  <2>1. CASE st.text >= 0
    <3>1. out = Begin(st) \o <<Delta(st.text, <<c.p>>)>>
      <4>. DEFINE s == Started(st)
      <4>. DEFINE o == Begin(st) \o <<Delta(st.text, <<c.p>>)>>
      <4>1. ClaudeEvents(st, c) = Emits(s, o)
        BY <1>2, <1>6, <2>1, ClaudeTextMore
      <4>. HIDE DEF s, o
      <4>2. out = o
        BY <4>1, EmitsIs
      <4>. QED
        BY <4>2 DEF o
    <3>2. Free(<<Delta(st.text, <<c.p>>)>>)
      BY FreeOnes, FramesBill
    <3>3. Free(out)
      BY <3>1, <3>2, BeginFree, FreeJoins
    <3>. QED
      BY <1>3, <1>6, <3>3
  <2>2. CASE st.text < 0
    <3>1. out = Begin(st) \o <<Open(st.next, "text", 0), Delta(st.next, <<c.p>>)>>
      <4>. DEFINE s == TextOpened(Started(st))
      <4>. DEFINE o == Begin(st) \o <<Open(st.next, "text", 0), Delta(st.next, <<c.p>>)>>
      <4>1. ClaudeEvents(st, c) = Emits(s, o)
        BY <1>2, <1>6, <2>2, ClaudeTextNew
      <4>. HIDE DEF s, o
      <4>2. out = o
        BY <4>1, EmitsIs
      <4>. QED
        BY <4>2 DEF o
    <3>2. Free(<<Open(st.next, "text", 0), Delta(st.next, <<c.p>>)>>)
      BY FreeOnes, FramesBill
    <3>3. Free(out)
      BY <3>1, <3>2, BeginFree, FreeJoins
    <3>. QED
      BY <1>3, <1>6, <3>3
  <2>. QED
    BY <1>2, <1>6, <2>1, <2>2
<1>7. CASE c.d = "call" /\ x.why = "none"
  <2>0. ToolsAt(st.tools, d.items, CallKeys(x.items))
    BY <1>7 DEF MessagesBridge, MessagesState
  <2>1. CASE c.at \in DOMAIN st.tools
    <3>1. out = Begin(st) \o <<Delta(st.tools[c.at], c.args)>>
      <4>. DEFINE s == Started(st)
      <4>. DEFINE o == Begin(st) \o <<Delta(st.tools[c.at], c.args)>>
      <4>1. ClaudeEvents(st, c) = Emits(s, o)
        BY <1>7, <2>1, ClaudeCallMore
      <4>. HIDE DEF s, o
      <4>2. out = o
        BY <4>1, EmitsIs
      <4>. QED
        BY <4>2 DEF o
    <3>2. Free(<<Delta(st.tools[c.at], c.args)>>)
      BY FreeOnes, FramesBill
    <3>3. Free(out)
      BY <3>1, <3>2, BeginFree, FreeJoins
    <3>. QED
      BY <1>3, <1>7, <3>3
  <2>2. CASE c.at \notin DOMAIN st.tools
    <3>0. c.id # 0
      <4>1. \A i \in 1..Len(x.items) : ~(x.items[i].kind = "call" /\ x.items[i].at = c.at)
        <5>. SUFFICES ASSUME NEW i \in 1..Len(x.items), x.items[i].kind = "call", x.items[i].at = c.at
                      PROVE  FALSE
          OBVIOUS
        <5>1. <<c.at, x.items[i].id>> \in CallKeys(x.items)
          BY DEF CallKeys
        <5>. QED
          BY <2>0, <2>2, <5>1 DEF ToolsAt
      <4>2. c.id = Len(CallsOf(x.items)) + 1
        BY <1>7, <4>1 DEF Fits, FitsChat
      <4>3. Len(CallsOf(x.items)) \in Nat
        BY SaidTyped DEF MessagesBridge, SameReply, Whole, Good
      <4>. QED
        BY <4>2, <4>3
    <3>1. out = Begin(st) \o <<Open(st.next, "call", c.id), Delta(st.next, c.args)>>
      <4>. DEFINE s == CallOpened(Started(st), c.at)
      <4>. DEFINE o == Begin(st) \o <<Open(st.next, "call", c.id), Delta(st.next, c.args)>>
      <4>1. ClaudeEvents(st, c) = Emits(s, o)
        BY <1>7, <2>2, <3>0, ClaudeCallNew
      <4>. HIDE DEF s, o
      <4>2. out = o
        BY <4>1, EmitsIs
      <4>. QED
        BY <4>2 DEF o
    <3>2. Free(<<Open(st.next, "call", c.id), Delta(st.next, c.args)>>)
      BY FreeOnes, FramesBill
    <3>3. Free(out)
      BY <3>1, <3>2, BeginFree, FreeJoins
    <3>. QED
      BY <1>3, <1>7, <3>3
  <2>. QED
    BY <2>1, <2>2
<1>8. CASE c.d = "finish" /\ x.why = "none"
  <2>. DEFINE bs == Blocks(st)
  <2>. DEFINE q == Begin(st) \o Closes(bs)
  <2>. DEFINE f == Why(FinishToStopReason(c.why), UsageFrom(c.usage))
  <2>1. out = q \o <<f, Over>>
    <3>. DEFINE s == Started(st)
    <3>. DEFINE o == q \o <<f, Over>>
    <3>1. ClaudeEvents(st, c) = Emits(s, o)
      BY <1>8, ClaudeFinish
    <3>. HIDE DEF s, o
    <3>2. out = o
      BY <3>1, EmitsIs
    <3>. QED
      BY <3>2 DEF o
  <2>2. bs \in Seq(Nat)
    BY <1>2, <1>8, BlocksAre
  <2>3. Free(q)
    <3>. HIDE DEF bs
    <3>. QED
      BY <2>2, BeginFree, ClosesFree, FreeJoins
  <2>4. UsageIn(f) = UsageIn(c) /\ UsageIn(Over) = NoBill
    <3>1. c.usage \in Usage /\ "usage" \in DOMAIN c
      BY <1>8 DEF Frames
    <3>2. UsageIn(c) = UsageOf(c.usage)
      BY <1>8, <3>1, FrameBills DEF BillsOf
    <3>3. UsageIn(f) = UsageOf(UsageFrom(c.usage))
      BY FramesBill
    <3>. QED
      BY <3>1, <3>2, <3>3, DeductingKeeps, FramesBill DEF Usage
  <2>. HIDE DEF q, f
  <2>5. Billed(out) = {UsageIn(c)} \ {NoBill}
    BY <2>1, <2>3, <2>4, FreeThen
  <2>. QED
    BY <1>8, <2>5 DEF KeptOf
<1>9. \/ c.d \in {"usage", "done"}
      \/ c.d = "role"
      \/ c.d = "text" /\ x.why = "none"
      \/ c.d = "call" /\ x.why = "none"
      \/ c.d = "finish" /\ x.why = "none"
  BY <1>1
<1>. QED
  BY <1>4, <1>5, <1>6, <1>7, <1>8, <1>9

LEMMA KeptNext ==
  ASSUME NEW q, NEW n \in Nat
  PROVE  KeptIn(q, n + 1) = KeptIn(q, n) \cup KeptOf(q[n + 1])
<1>1. 1..(n + 1) = (1..n) \cup {n + 1}
  OBVIOUS
<1>. QED
  BY <1>1 DEF KeptIn

LEMMA BilledNext ==
  ASSUME NEW q, NEW n \in Nat
  PROVE  BilledIn(q, n + 1) = BilledIn(q, n) \cup ({UsageIn(q[n + 1])} \ {NoBill})
<1>1. 1..(n + 1) = (1..n) \cup {n + 1}
  OBVIOUS
<1>. QED
  BY <1>1 DEF BilledIn

-----------------------------------------------------------------------------
(* A translator takes the chunks of a stretch of road one after the other. *)
MessagesPass(acc, c) == Emits(ClaudeEvents(acc.st, c).st, acc.out \o ClaudeEvents(acc.st, c).out)
FeedPass(acc, c) == Emits(Feed(acc.st, c).st, acc.out \o Feed(acc.st, c).out)

MessagesFold == INSTANCE FoldProofs WITH op <- MessagesPass
FeedFold == INSTANCE FoldProofs WITH op <- FeedPass

LEMMA MessagesIsFold ==
  ASSUME NEW st, NEW chunks
  PROVE  MessagesFold!Folded(Emits(st, <<>>), chunks) = ToMessages(st, chunks)
BY DEF ToMessages, Through, MessagesPass, MessagesFold!Folded, MessagesFold!FoldLeft, FoldLeft,
       MessagesFold!MapThenFoldSet, MapThenFoldSet, Max, MessagesFold!Max

LEMMA FeedIsFold ==
  ASSUME NEW st, NEW chunks
  PROVE  FeedFold!Folded(Emits(st, <<>>), chunks) = ToResponses(st, chunks)
BY DEF ToResponses, Through, FeedPass, FeedFold!Folded, FeedFold!FoldLeft, FoldLeft,
       FeedFold!MapThenFoldSet, MapThenFoldSet, Max, FeedFold!Max

(* What openai_sse_to_claude makes of chat chunks: from any state that     *)
(* fits the replies heard so far, chunks that fit the chat reply become    *)
(* events that fit the Messages reply; the replies still say the same, and *)
(* the bill is the same, but for chunks with nothing but the bill.         *)
THEOREM MessagesPasses ==
  ASSUME NEW st, NEW x, NEW d, MessagesBridge(st, x, d), NEW chunks, NEW y, Road("chat", x, chunks, y)
  PROVE  \E e : /\ Road("messages", d, ToMessages(st, chunks).out, e)
                /\ MessagesBridge(ToMessages(st, chunks).st, y, e)
                /\ Billed(ToMessages(st, chunks).out) = Kept(chunks)
<1>. DEFINE b == Emits(st, <<>>)
<1>1. PICK p : Goes("chat", x, chunks, y, p)
  BY DEF Road
<1>2. chunks \in Seq(Frames) /\ Len(chunks) \in Nat /\ DOMAIN chunks = 1..Len(chunks)
  BY DEF Road
<1>3. PICK h : MessagesFold!Unrolls(b, chunks, Len(chunks), h)
  BY <1>2, MessagesFold!Unrolled
<1>4. /\ h[0] = b /\ h[Len(chunks)] = ToMessages(st, chunks)
      /\ \A k \in 1..Len(chunks) : h[k] = MessagesPass(h[k - 1], chunks[k])
  BY <1>3, MessagesIsFold DEF MessagesFold!Unrolls
<1>. DEFINE Q(n) == \E e : /\ Road("messages", d, h[n].out, e) /\ MessagesBridge(h[n].st, p[n], e)
                           /\ Billed(h[n].out) = KeptIn(chunks, n)
<1>. DEFINE P == {n \in Nat : n <= Len(chunks) => Q(n)}
<1>5. 0 \in P
  <2>1. h[0].st = st /\ h[0].out = <<>>
    BY <1>4, EmitsIs
  <2>2. p[0] = x
    BY <1>1 DEF Goes
  <2>3. Road("messages", d, <<>>, d)
    BY RoadNone
  <2>4. Billed(<<>>) = {} /\ KeptIn(chunks, 0) = {}
    <3>1. 1..0 = {}
      OBVIOUS
    <3>. QED
      BY <3>1, FreeOnes, FreeBills DEF KeptIn
  <2>. QED
    BY <2>1, <2>2, <2>3, <2>4
<1>6. ASSUME NEW n \in Nat, n \in P PROVE n + 1 \in P
  <2>. SUFFICES ASSUME n + 1 <= Len(chunks) PROVE Q(n + 1)
    OBVIOUS
  <2>1. n + 1 \in 1..Len(chunks) /\ (n + 1) - 1 = n /\ Q(n)
    BY <1>2, <1>6
  <2>. DEFINE c == chunks[n + 1]
  <2>. DEFINE r == ClaudeEvents(h[n].st, c)
  <2>2. PICK e : /\ Road("messages", d, h[n].out, e) /\ MessagesBridge(h[n].st, p[n], e)
                 /\ Billed(h[n].out) = KeptIn(chunks, n)
    BY <2>1
  <2>3. Fits("chat", p[n].items, p[n].why, c) /\ p[n + 1] = Hear("chat", p[n], c) /\ c \in Frames
    <3>1. c \in Frames
      BY <1>2, <2>1
    <3>2. Fits("chat", p[n].items, p[n].why, c) /\ p[n + 1] = Hear("chat", p[n], c)
      BY <1>1, <2>1 DEF Goes
    <3>. QED
      BY <3>1, <3>2
  <2>4. h[n + 1] = MessagesPass(h[n], c)
    BY <1>4, <2>1
  <2>5. h[n + 1].st = r.st /\ h[n + 1].out = h[n].out \o r.out
    <3>. DEFINE s == r.st
    <3>. DEFINE o == h[n].out \o r.out
    <3>1. h[n + 1] = Emits(s, o)
      BY <2>4 DEF MessagesPass
    <3>. HIDE DEF s, o
    <3>2. h[n + 1].st = s /\ h[n + 1].out = o
      BY <3>1, EmitsIs
    <3>. QED
      BY <3>2 DEF s, o
  <2>6. Bridged(h[n].st, p[n], e, c)
    BY <2>2, <2>3, BridgeStep
  <2>11. Billed(r.out) = KeptOf(c)
    BY <2>2, <2>3, ClaudeBills
  <2>12. KeptIn(chunks, n + 1) = KeptIn(chunks, n) \cup KeptOf(c)
    BY KeptNext
  <2>7. PICK i : Road("messages", e, r.out, i) /\ MessagesBridge(r.st, Hear("chat", p[n], c), i)
    BY <2>6 DEF Bridged
  <2>. HIDE DEF c, r
  <2>8. Road("messages", d, h[n].out \o r.out, i)
    BY <2>2, <2>7, RoadConcat
  <2>10. Billed(h[n].out \o r.out) = KeptIn(chunks, n + 1)
    <3>1. h[n].out \in Seq(Frames) /\ r.out \in Seq(Frames)
      BY <2>2, <2>7 DEF Road
    <3>2. Billed(h[n].out \o r.out) = Billed(h[n].out) \cup Billed(r.out)
      BY <3>1, BilledConcat
    <3>. QED
      BY <2>2, <2>11, <2>12, <3>2
  <2>9. Road("messages", d, h[n + 1].out, i) /\ MessagesBridge(h[n + 1].st, p[n + 1], i)
    BY <2>3, <2>5, <2>7, <2>8
  <2>. QED
    BY <2>5, <2>9, <2>10
<1>. HIDE DEF P
<1>7. Nat \subseteq P
  BY <1>5, <1>6, SpokenFold!Induction
<1>8. Q(Len(chunks))
  BY <1>2, <1>7 DEF P
<1>9. p[Len(chunks)] = y
  BY <1>1 DEF Goes
<1>. QED
  BY <1>4, <1>8, <1>9 DEF Kept

(* What translate_stream makes of chat chunks, likewise for a Responses    *)
(* reply.                                                                  *)
THEOREM FeedPasses ==
  ASSUME NEW st, NEW x, NEW d, ResponsesBridge(st, x, d), NEW chunks, NEW y, Road("chat", x, chunks, y)
  PROVE  \E e : /\ Road("responses", d, ToResponses(st, chunks).out, e)
                /\ ResponsesBridge(ToResponses(st, chunks).st, y, e)
<1>. DEFINE b == Emits(st, <<>>)
<1>1. PICK p : Goes("chat", x, chunks, y, p)
  BY DEF Road
<1>2. chunks \in Seq(Frames) /\ Len(chunks) \in Nat /\ DOMAIN chunks = 1..Len(chunks)
  BY DEF Road
<1>3. PICK h : FeedFold!Unrolls(b, chunks, Len(chunks), h)
  BY <1>2, FeedFold!Unrolled
<1>4. /\ h[0] = b /\ h[Len(chunks)] = ToResponses(st, chunks)
      /\ \A k \in 1..Len(chunks) : h[k] = FeedPass(h[k - 1], chunks[k])
  BY <1>3, FeedIsFold DEF FeedFold!Unrolls
<1>. DEFINE Q(n) == \E e : Road("responses", d, h[n].out, e) /\ ResponsesBridge(h[n].st, p[n], e)
<1>. DEFINE P == {n \in Nat : n <= Len(chunks) => Q(n)}
<1>5. 0 \in P
  <2>1. h[0].st = st /\ h[0].out = <<>>
    BY <1>4, EmitsIs
  <2>2. p[0] = x
    BY <1>1 DEF Goes
  <2>3. Road("responses", d, <<>>, d)
    BY RoadNone
  <2>. QED
    BY <2>1, <2>2, <2>3
<1>6. ASSUME NEW n \in Nat, n \in P PROVE n + 1 \in P
  <2>. SUFFICES ASSUME n + 1 <= Len(chunks) PROVE Q(n + 1)
    OBVIOUS
  <2>1. n + 1 \in 1..Len(chunks) /\ (n + 1) - 1 = n /\ Q(n)
    BY <1>2, <1>6
  <2>. DEFINE c == chunks[n + 1]
  <2>. DEFINE r == Feed(h[n].st, c)
  <2>2. PICK e : Road("responses", d, h[n].out, e) /\ ResponsesBridge(h[n].st, p[n], e)
    BY <2>1
  <2>3. Fits("chat", p[n].items, p[n].why, c) /\ p[n + 1] = Hear("chat", p[n], c) /\ c \in Frames
    <3>1. c \in Frames
      BY <1>2, <2>1
    <3>2. Fits("chat", p[n].items, p[n].why, c) /\ p[n + 1] = Hear("chat", p[n], c)
      BY <1>1, <2>1 DEF Goes
    <3>. QED
      BY <3>1, <3>2
  <2>4. h[n + 1] = FeedPass(h[n], c)
    BY <1>4, <2>1
  <2>5. h[n + 1].st = r.st /\ h[n + 1].out = h[n].out \o r.out
    <3>. DEFINE s == r.st
    <3>. DEFINE o == h[n].out \o r.out
    <3>1. h[n + 1] = Emits(s, o)
      BY <2>4 DEF FeedPass
    <3>. HIDE DEF s, o
    <3>2. h[n + 1].st = s /\ h[n + 1].out = o
      BY <3>1, EmitsIs
    <3>. QED
      BY <3>2 DEF s, o
  <2>6. Fed(h[n].st, p[n], e, c)
    BY <2>2, <2>3, FedStep
  <2>7. PICK i : Road("responses", e, r.out, i) /\ ResponsesBridge(r.st, Hear("chat", p[n], c), i)
    BY <2>6 DEF Fed
  <2>. HIDE DEF c, r
  <2>8. Road("responses", d, h[n].out \o r.out, i)
    BY <2>2, <2>7, RoadConcat
  <2>9. Road("responses", d, h[n + 1].out, i) /\ ResponsesBridge(h[n + 1].st, p[n + 1], i)
    BY <2>3, <2>5, <2>7, <2>8
  <2>. QED
    BY <2>9
<1>. HIDE DEF P
<1>7. Nat \subseteq P
  BY <1>5, <1>6, SpokenFold!Induction
<1>8. Q(Len(chunks))
  BY <1>2, <1>7 DEF P
<1>9. p[Len(chunks)] = y
  BY <1>1 DEF Goes
<1>. QED
  BY <1>4, <1>8, <1>9
=============================================================================
