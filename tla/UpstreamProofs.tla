--------------------------- MODULE UpstreamProofs ---------------------------
(***************************************************************************)
(* From what an upstream says to what its client is sent: each shape's     *)
(* events as chat chunks, the whole way of one event through the two       *)
(* translators, and what the dataset copy and the token meter make of the  *)
(* frames that pass, for any reply and any pieces.                         *)
(*                                                                         *)
(* The argument: a translator's memory of the calls begun and of the       *)
(* arguments forwarded is that of the reply said so far, so that the       *)
(* chunks of one event are the road from the reply before it to the reply  *)
(* after it; the copy and the meter are folds over the frames, and so keep *)
(* what each frame adds.                                                   *)
(***************************************************************************)
EXTENDS RepliesProofs

-----------------------------------------------------------------------------
(***************************************************************************)
(* From the upstream's events to chat chunks, event by event.              *)
(***************************************************************************)
(* The upstream's reply: what its shape says of the places of its items.   *)
ByRank(n) == {<<r - 1, r>> : r \in 1..n}
CallCount(items) == Len(CallsOf(items))

SaidIn(shape, said) ==
  /\ said \in Seq(Items) /\ Numbered(said)
  /\ shape \in {"codex", "http_anthropic", "cc_messages"} => Placed(said)
  /\ shape \in {"http_openai", "cc_chat"} => CallKeys(said) = ByRank(CallCount(said))

(* The reply a listener to the adapter's chunks would have, and what the   *)
(* adapter remembers.                                                      *)
Places(said) == 0..(Len(said) - 1)

CodexTracks(said, st, x) ==
  /\ st = [saw |-> st.saw, sent |-> st.sent]
  /\ CallKeys(x.items) = CallKeys(said)
  /\ st.saw = (CallCount(said) # 0)
  /\ st.sent = {at \in Places(said) : said[at + 1].kind = "call" /\ said[at + 1].parts # <<>>}
GenerateTracks(said, st, x) ==
  /\ st.saw = (CallCount(said) # 0)
  /\ CallCount(x.items) = 0 <=> CallCount(said) = 0
  /\ CallCount(x.items) <= 1 /\ CallKeys(x.items) = ByRank(CallCount(x.items))
ClaudeTracks(said, st, x) ==
  /\ DOMAIN st = {"kinds", "tools", "next"}
  /\ CallKeys(x.items) = ByRank(CallCount(x.items))
  /\ st.next = CallCount(said)
  /\ DOMAIN st.kinds = Places(said)
  /\ \A at \in Places(said) : st.kinds[at] = said[at + 1].kind
  /\ DOMAIN st.tools = {at \in Places(said) : said[at + 1].kind = "call"}
  /\ \A at \in Places(said) : said[at + 1].kind = "call" => st.tools[at] = said[at + 1].id - 1
Tracks(shape, said, st, x) ==
  /\ shape = "codex" => CodexTracks(said, st, x)
  /\ shape = "cc_generate" => GenerateTracks(said, st, x)
  /\ shape \in {"http_openai", "cc_chat"} => CallKeys(x.items) = ByRank(CallCount(x.items))
  /\ shape \in {"http_anthropic", "cc_messages"} => ClaudeTracks(said, st, x)

(* A line of the generate transport brings a call whole, and a second one  *)
(* would be taken for more of the first.                                   *)
Faithful(shape) == shape # "cc_generate" \/ ~ParallelLines

\* The word for how a reply has ended.
Ends(shape, said, why, word) ==
  /\ why = "whole" => word \in {"stop", "tool_calls"}
  /\ why = "length" /\ shape # "codex" =>
       word = "length" \/ (shape \in {"http_anthropic", "cc_messages"} /\ CallCount(said) # 0)

Says(shape, said, why, st, x) ==
  /\ SaidIn(shape, said)
  /\ Whole("chat", x) /\ Numbered(x.items)
  /\ why = "none" => x.why = "none"
  /\ why # "none" => Ends(shape, said, why, x.why)
  /\ Faithful(shape) => Content(x.items) = Content(said)
  /\ Tracks(shape, said, st, x)

-----------------------------------------------------------------------------
LEMMA SameCount ==
  ASSUME NEW a \in Seq(Items), NEW b \in Seq(Items), Content(a) = Content(b)
  PROVE  CallCount(a) = CallCount(b)
BY ContentTyped DEF CallCount

LEMMA CountTyped == ASSUME NEW a \in Seq(Items) PROVE CallCount(a) \in Nat
BY SaidTyped DEF CallCount

(* What is said more of text. *)
CallsStay(a, b) ==
  /\ \A i : i \in 1..Len(a) /\ a[i].kind = "call" <=> i \in 1..Len(b) /\ b[i].kind = "call"
  /\ \A i \in 1..Len(a) : a[i].kind = "call" => /\ b[i].id = a[i].id /\ b[i].parts = a[i].parts
                                                /\ b[i].at = a[i].at

LEMMA CountText ==
  ASSUME NEW a \in Seq(Items), NEW b \in Seq(Items), NEW parts,
         Content(b) = TextMore(Content(a), parts)
  PROVE  CallCount(b) = CallCount(a)
<1>1. Content(b).args = Content(a).args
  BY DEF TextMore
<1>. QED
  BY <1>1, ContentTyped DEF CallCount

LEMMA CountNew ==
  ASSUME NEW a \in Seq(Items), NEW b \in Seq(Items), NEW parts,
         Content(b) = CallNew(Content(a), parts)
  PROVE  CallCount(b) = CallCount(a) + 1
<1>1. Content(b).args = Append(Content(a).args, parts)
  BY DEF CallNew
<1>2. Content(a).args \in Seq(Seq(Nat)) /\ Len(Content(a).args) = CallCount(a)
  BY ContentTyped DEF CallCount
<1>3. Len(Append(Content(a).args, parts)) = Len(Content(a).args) + 1
  BY <1>2
<1>4. Len(Content(b).args) = CallCount(b)
  BY ContentTyped DEF CallCount
<1>. QED
  BY <1>1, <1>2, <1>3, <1>4

LEMMA CountMore ==
  ASSUME NEW a \in Seq(Items), NEW b \in Seq(Items), NEW r, NEW parts,
         Content(b) = CallMore(Content(a), r, parts)
  PROVE  CallCount(b) = CallCount(a)
<1>. DEFINE args == Content(a).args
<1>1. Content(b).args = [args EXCEPT ![r] = args[r] \o parts]
  BY DEF CallMore
<1>2. args \in Seq(Seq(Nat)) /\ Len(args) = CallCount(a)
  BY ContentTyped DEF CallCount
<1>. HIDE DEF args
<1>3. Content(b).args \in Seq(Seq(Nat)) /\ Len(Content(b).args) = CallCount(b)
  BY ContentTyped DEF CallCount
<1>4. DOMAIN Content(b).args = DOMAIN args
  BY <1>1
<1>5. Len(Content(b).args) = Len(args)
  BY <1>2, <1>3, <1>4
<1>. QED
  BY <1>2, <1>3, <1>5

LEMMA CountStays ==
  ASSUME NEW a \in Seq(Items), NEW b \in Seq(Items), Len(b) = Len(a),
         \A i \in 1..Len(a) : b[i].kind = a[i].kind /\ b[i].id = a[i].id /\ b[i].parts = a[i].parts
  PROVE  CallCount(b) = CallCount(a)
BY ContentSame, SameCount

LEMMA ByRankGrows ==
  ASSUME NEW n \in Nat
  PROVE  /\ ByRank(n + 1) = ByRank(n) \cup {<<n, n + 1>>}
         /\ \A id : <<n, id>> \notin ByRank(n)
         /\ ByRank(0) = {}
<1>1. 1..(n + 1) = (1..n) \cup {n + 1} /\ (n + 1) - 1 = n /\ 1..0 = {}
  OBVIOUS
<1>2. ASSUME NEW id, NEW r \in 1..n, <<n, id>> = <<r - 1, r>> PROVE FALSE
  <2>1. n = r - 1
    BY <1>2
  <2>. QED
    BY <2>1
<1>. QED
  BY <1>1, <1>2 DEF ByRank

LEMMA TextItemIs ==
  ASSUME NEW n \in Int, NEW parts \in Seq(Nat), NEW x, x = Item(n, "text", 0, parts)
  PROVE  x \in Items /\ x.at = n /\ x.kind = "text" /\ x.parts = parts /\ x.open
BY DEF Item, Items

LEMMA CallItemIs ==
  ASSUME NEW n \in Int, NEW id \in Nat, NEW parts \in Seq(Nat), NEW x, x = Item(n, "call", id, parts)
  PROVE  /\ x \in Items /\ x.at = n /\ x.kind = "call" /\ x.id = id /\ x.parts = parts /\ x.open
BY DEF Item, Items

(* A text item at the end is extended, or there is a new one. *)
EndsInText(said) == Len(said) > 0 /\ said[Len(said)].kind = "text" /\ said[Len(said)].open
TextSaid(said, more, p) == IF more THEN Extend(said, Len(said), <<p>>)
                           ELSE Append(said, Item(Len(said), "text", 0, <<p>>))
SameKinds(a, b) == Len(b) = Len(a) /\ \A i \in 1..Len(a) : b[i].kind = a[i].kind

LEMMA SaidText ==
  ASSUME NEW shape, NEW said, SaidIn(shape, said), NEW p \in Nat,
         NEW more \in BOOLEAN, more => EndsInText(said),
         NEW next, next = TextSaid(said, more, p)
  PROVE  /\ SaidIn(shape, next) /\ Content(next) = TextMore(Content(said), <<p>>)
         /\ CallKeys(next) = CallKeys(said) /\ CallCount(next) = CallCount(said)
         /\ CallsStay(said, next)
         /\ more => SameKinds(said, next)
<1>. DEFINE n == Len(said)
<1>0. said \in Seq(Items) /\ n \in Nat /\ <<p>> \in Seq(Nat) /\ Numbered(said)
  <2>1. <<p>> \in Seq(Nat)
    OBVIOUS
  <2>. QED
    BY <2>1 DEF SaidIn
<1>1. CASE more
  <2>1. n \in 1..Len(said) /\ said[n].kind = "text" /\ next = Extend(said, n, <<p>>)
    BY <1>0, <1>1 DEF TextSaid, EndsInText
  <2>2. LastText(said, n)
    BY <1>0 DEF LastText
  <2>3. Numbered(next) /\ Content(next) = TextMore(Content(said), <<p>>)
    BY <1>0, <2>1, <2>2, ContentExtend
  <2>4. CallKeys(next) = CallKeys(said) /\ Else(said, n, next)
    BY <1>0, <2>1, KeysExtend, ExtendIs
  <2>5. CallCount(next) = CallCount(said)
    BY <1>0, <2>3, <2>4, CountText DEF Else
  <2>6. /\ next \in Seq(Items) /\ Len(next) = Len(said)
        /\ \A i \in 1..Len(said) : next[i].kind = said[i].kind /\ next[i].at = said[i].at
        /\ \A i \in 1..Len(said) : i # n => next[i] = said[i]
    BY <2>4 DEF Else
  <2>7. SaidIn(shape, next)
    BY <2>3, <2>4, <2>5, <2>6 DEF SaidIn, Placed
  <2>8. CallsStay(said, next)
    BY <2>1, <2>6 DEF CallsStay
  <2>. QED
    BY <2>3, <2>4, <2>5, <2>6, <2>7, <2>8 DEF SameKinds
<1>2. CASE ~more
  <2>. DEFINE x == Item(n, "text", 0, <<p>>)
  <2>1. x \in Items /\ x.at = n /\ x.kind = "text" /\ x.parts = <<p>>
    <3>. DEFINE args == <<p>>
    <3>1. n \in Int /\ args \in Seq(Nat) /\ x = Item(n, "text", 0, args)
      BY <1>0
    <3>. HIDE DEF x, args
    <3>2. x \in Items /\ x.at = n /\ x.kind = "text" /\ x.parts = args
      BY <3>1, TextItemIs
    <3>. QED
      BY <3>2 DEF args
  <2>2. next = Append(said, x)
    BY <1>2 DEF TextSaid
  <2>. HIDE DEF x
  <2>3. Numbered(next) /\ Content(next) = TextMore(Content(said), <<p>>)
    BY <1>0, <2>1, <2>2, ContentAppend
  <2>4. CallKeys(next) = CallKeys(said)
    BY <1>0, <2>1, <2>2, KeysAppend
  <2>5. /\ next \in Seq(Items) /\ Len(next) = Len(said) + 1 /\ next[Len(said) + 1] = x
        /\ \A i \in 1..Len(said) : next[i] = said[i] /\ i \in 1..Len(next)
        /\ \A i \in 1..Len(next) : i \in 1..Len(said) \/ i = Len(said) + 1
    BY <1>0, <2>1, <2>2
  <2>6. CallCount(next) = CallCount(said)
    BY <1>0, <2>3, <2>5, CountText
  <2>7. Placed(said) => Placed(next)
    BY <1>0, <2>1, <2>5 DEF Placed
  <2>8. SaidIn(shape, next)
    BY <2>3, <2>4, <2>5, <2>6, <2>7 DEF SaidIn
  <2>9. CallsStay(said, next)
    BY <2>1, <2>5 DEF CallsStay
  <2>. QED
    BY <1>2, <2>3, <2>4, <2>6, <2>8, <2>9
<1>. QED
  BY <1>1, <1>2

-----------------------------------------------------------------------------
(* What the adapter of a shape makes of one event.                         *)
ChunkOf(shape, st, e) ==
  CASE shape = "codex" -> CodexChunk(st, e)
    [] shape = "cc_generate" -> GenerateChunk(st, e)
    [] shape \in {"http_anthropic", "cc_messages"} -> ClaudeChunk(st, e)
    [] shape \in {"http_openai", "cc_chat"} -> Emits(st, <<e>>)

LEMMA ToChatIs == ASSUME NEW st, NEW e PROVE ToChat(st, e) = ChunkOf(ask.shape, st, e)
BY DEF ToChat, ChunkOf

(* The adapter emits a stretch of road to a reply that says what the       *)
(* upstream now says, and bills what it bills in frames that are kept.     *)
Moves(shape, said, why, x, a, bills) ==
  \E y : /\ Road("chat", x, a.out, y)
         /\ Says(shape, said, why, a.st, y)
         /\ Billed(a.out) = bills /\ Kept(a.out) = bills

LEMMA KeptBilled == ASSUME NEW q PROVE Kept(q) \subseteq Billed(q)
BY DEF Kept, KeptIn, KeptOf, Billed, BilledIn

LEMMA KeptOne == ASSUME NEW f PROVE Kept(<<f>>) = KeptOf(f)
<1>1. Len(<<f>>) = 1 /\ <<f>>[1] = f /\ 1..1 = {1}
  OBVIOUS
<1>. QED
  BY <1>1 DEF Kept, KeptIn

LEMMA MovesNot ==
  ASSUME NEW shape, NEW said, NEW st, NEW x, Says(shape, said, "none", st, x), NEW a, a = Emits(st, <<>>)
  PROVE  Moves(shape, said, "none", x, a, {})
<1>1. a.st = st /\ a.out = <<>>
  BY EmitsIs
<1>2. Road("chat", x, <<>>, x) /\ Billed(<<>>) = {}
  BY RoadNone, FreeOnes, FreeBills
<1>3. Kept(<<>>) = {}
  BY <1>2, KeptBilled
<1>. QED
  BY <1>1, <1>2, <1>3 DEF Moves

(* One frame that is kept. *)
LEMMA MovesOne ==
  ASSUME NEW shape, NEW said, NEW why, NEW x, Whole("chat", x), NEW st, NEW f \in Frames,
         Fits("chat", x.items, x.why, f), NEW a, a = Emits(st, <<f>>),
         Says(shape, said, why, st, Hear("chat", x, f)), NEW bills, bills = {UsageIn(f)} \ {NoBill},
         bills = {} \/ f.d # "usage"
  PROVE  Moves(shape, said, why, x, a, bills)
<1>. DEFINE o == <<f>>
<1>. DEFINE y == Hear("chat", x, f)
<1>1. Road("chat", x, o, y) /\ Billed(o) = bills /\ a = Emits(st, o)
  BY RoadOne, BilledOne
<1>3. Kept(o) = KeptOf(f)
  BY KeptOne
<1>4. KeptOf(f) = bills
  BY DEF KeptOf
<1>. HIDE DEF o, y
<1>2. a.st = st /\ a.out = o
  BY <1>1, EmitsIs
<1>. QED
  BY <1>1, <1>2, <1>3, <1>4 DEF Moves, y

LEMMA WholeHears ==
  ASSUME NEW x, Whole("chat", x), NEW f, Fits("chat", x.items, x.why, f)
  PROVE  Whole("chat", Hear("chat", x, f))
BY HearKeeps

-----------------------------------------------------------------------------
LEMMA MovesRole ==
  ASSUME NEW shape, NEW said, NEW st, NEW x, Says(shape, said, "none", st, x),
         NEW a, a = Emits(st, <<Role>>)
  PROVE  Moves(shape, said, "none", x, a, {})
<1>1. Role \in Frames /\ Role.d = "role" /\ UsageIn(Role) = NoBill
  BY FramesMade, FramesBill DEF Role
<1>2. Fits("chat", x.items, x.why, Role) /\ Hear("chat", x, Role) = x
  BY <1>1, ChatIdle DEF Fits, FitsChat
<1>. DEFINE bills == {UsageIn(Role)} \ {NoBill}
<1>3. bills = {}
  BY <1>1
<1>4. Moves(shape, said, "none", x, a, bills)
  BY <1>1, <1>2, MovesOne DEF Says
<1>. QED
  BY <1>3, <1>4

-----------------------------------------------------------------------------
(* More text. *)
LEMMA TracksText ==
  ASSUME NEW shape, NEW said \in Seq(Items), NEW st, NEW x, NEW y, Tracks(shape, said, st, x),
         CallKeys(y.items) = CallKeys(x.items), CallCount(y.items) = CallCount(x.items),
         NEW next \in Seq(Items), CallKeys(next) = CallKeys(said), CallCount(next) = CallCount(said),
         CallsStay(said, next),
         shape \in {"http_anthropic", "cc_messages"} =>
           SameKinds(said, next)
  PROVE  Tracks(shape, next, st, y)
<1>1. shape = "codex" => CodexTracks(next, st, y)
  <2>. SUFFICES ASSUME shape = "codex" PROVE CodexTracks(next, st, y)
    OBVIOUS
  <2>1. CodexTracks(said, st, x)
    BY DEF Tracks
  <2>2. ASSUME NEW at
        PROVE  /\ at \in Places(said) /\ said[at + 1].kind = "call" <=>
                     at \in Places(next) /\ next[at + 1].kind = "call"
               /\ at \in Places(said) /\ said[at + 1].kind = "call" =>
                     next[at + 1].parts = said[at + 1].parts
    <3>1. at \in Places(said) <=> at \in Int /\ at + 1 \in 1..Len(said)
      BY DEF Places
    <3>. QED
      BY DEF CallsStay, Places
  <2>3. {at \in Places(said) : said[at + 1].kind = "call" /\ said[at + 1].parts # <<>>}
          = {at \in Places(next) : next[at + 1].kind = "call" /\ next[at + 1].parts # <<>>}
    BY <2>2
  <2>. QED
    BY <2>1, <2>3 DEF CodexTracks
<1>2. shape = "cc_generate" => GenerateTracks(next, st, y)
  BY DEF Tracks, GenerateTracks
<1>3. shape \in {"http_openai", "cc_chat"} => CallKeys(y.items) = ByRank(CallCount(y.items))
  BY DEF Tracks
<1>4. shape \in {"http_anthropic", "cc_messages"} => ClaudeTracks(next, st, y)
  <2>. SUFFICES ASSUME shape \in {"http_anthropic", "cc_messages"} PROVE ClaudeTracks(next, st, y)
    OBVIOUS
  <2>1. ClaudeTracks(said, st, x)
    BY DEF Tracks
  <2>3. /\ Places(next) = Places(said)
        /\ \A at \in Places(said) : next[at + 1].kind = said[at + 1].kind
        /\ \A at \in Places(said) : said[at + 1].kind = "call" => next[at + 1].id = said[at + 1].id
    <3>1. Len(next) = Len(said) /\ \A i \in 1..Len(said) : next[i].kind = said[i].kind
      BY DEF SameKinds
    <3>2. \A i \in 1..Len(said) : said[i].kind = "call" => next[i].id = said[i].id
      BY DEF CallsStay
    <3>3. \A at \in Places(said) : at + 1 \in 1..Len(said)
      BY DEF Places
    <3>. QED
      BY <3>1, <3>2, <3>3 DEF Places
  <2>4. /\ DOMAIN st = {"kinds", "tools", "next"}
        /\ CallKeys(y.items) = ByRank(CallCount(y.items))
        /\ st.next = CallCount(next)
    BY <2>1 DEF ClaudeTracks
  <2>5. /\ DOMAIN st.kinds = Places(next)
        /\ \A at \in Places(next) : st.kinds[at] = next[at + 1].kind
    BY <2>1, <2>3 DEF ClaudeTracks
  <2>6. /\ DOMAIN st.tools = {at \in Places(next) : next[at + 1].kind = "call"}
        /\ \A at \in Places(next) : next[at + 1].kind = "call" => st.tools[at] = next[at + 1].id - 1
    BY <2>1, <2>3 DEF ClaudeTracks
  <2>. QED
    BY <2>4, <2>5, <2>6 DEF ClaudeTracks
<1>. QED
  BY <1>1, <1>2, <1>3, <1>4 DEF Tracks

(* The event of a shape that says a piece of text. *)
TextEvent(shape, n, p) ==
  CASE shape \in {"codex", "cc_generate"} -> [ev |-> "text", p |-> p]
    [] shape \in {"http_openai", "cc_chat"} -> Text(p)
    [] shape \in {"http_anthropic", "cc_messages"} -> Delta(n - 1, <<p>>)

LEMMA TextChunk ==
  ASSUME NEW shape \in Shapes, NEW said \in Seq(Items), NEW st, NEW x, Tracks(shape, said, st, x),
         NEW p \in Nat,
         NEW n \in Int, shape \in {"http_anthropic", "cc_messages"} => n \in 1..Len(said) /\ said[n].kind = "text"
  PROVE  ChunkOf(shape, st, TextEvent(shape, n, p)) = Emits(st, <<Text(p)>>)
<1>1. CASE shape = "codex"
  BY <1>1 DEF ChunkOf, TextEvent, CodexChunk
<1>2. CASE shape = "cc_generate"
  BY <1>2 DEF ChunkOf, TextEvent, GenerateChunk
<1>3. CASE shape \in {"http_openai", "cc_chat"}
  BY <1>3 DEF ChunkOf, TextEvent
<1>4. CASE shape \in {"http_anthropic", "cc_messages"}
  <2>. DEFINE e == Delta(n - 1, <<p>>)
  <2>1. e.d = "delta" /\ e.at = n - 1 /\ e.args = <<p>>
    BY DEF Delta
  <2>2. st.kinds[n - 1] = "text" /\ n - 1 \in DOMAIN st.kinds
    <3>1. n - 1 \in Places(said) /\ (n - 1) + 1 = n
      BY <1>4 DEF Places
    <3>2. ClaudeTracks(said, st, x)
      BY <1>4 DEF Tracks
    <3>. QED
      BY <1>4, <3>1, <3>2 DEF ClaudeTracks
  <2>3. TextEvent(shape, n, p) = e
    BY <1>4 DEF TextEvent
  <2>. DEFINE texts == [i \in DOMAIN e.args |-> Text(e.args[i])]
  <2>4. texts = <<Text(p)>>
    <3>1. DOMAIN <<p>> = 1..1 /\ <<p>>[1] = p /\ 1..1 = {1}
      OBVIOUS
    <3>2. texts = [i \in {1} |-> Text(p)]
      BY <2>1, <3>1
    <3>3. <<Text(p)>> = [i \in {1} |-> Text(p)]
      BY <3>1
    <3>. QED
      BY <3>2, <3>3
  <2>. HIDE DEF e
  <2>5. ClaudeChunk(st, e) = Emits(st, texts)
    BY <2>1, <2>2 DEF ClaudeChunk
  <2>6. ChunkOf(shape, st, e) = ClaudeChunk(st, e)
    BY <1>4 DEF ChunkOf
  <2>. QED
    BY <2>3, <2>4, <2>5, <2>6
<1>. QED
  BY <1>1, <1>2, <1>3, <1>4 DEF Shapes

LEMMA MovesText ==
  ASSUME NEW shape \in Shapes, NEW said, NEW st, NEW x, Says(shape, said, "none", st, x),
         NEW p \in Nat, NEW more \in BOOLEAN, more => EndsInText(said),
         shape \in {"http_anthropic", "cc_messages"} => more,
         NEW e, e = TextEvent(shape, Len(said), p)
  PROVE  Moves(shape, TextSaid(said, more, p), "none", x, ChunkOf(shape, st, e), {})
<1>. DEFINE next == TextSaid(said, more, p)
<1>. DEFINE n == Len(said)
<1>0. SaidIn(shape, said) /\ said \in Seq(Items) /\ n \in Nat
  BY DEF Says, SaidIn
<1>. HIDE DEF next
<1>1. /\ SaidIn(shape, next) /\ Content(next) = TextMore(Content(said), <<p>>)
      /\ CallKeys(next) = CallKeys(said) /\ CallCount(next) = CallCount(said)
      /\ CallsStay(said, next)
      /\ more => SameKinds(said, next)
  BY <1>0, SaidText DEF next
<1>2. ChunkOf(shape, st, e) = Emits(st, <<Text(p)>>)
  <2>1. more => n \in 1..Len(said) /\ said[n].kind = "text"
    BY <1>0 DEF EndsInText
  <2>. QED
    BY <1>0, <2>1, TextChunk DEF Says
<1>. DEFINE f == Text(p)
<1>. DEFINE y == Hear("chat", x, f)
<1>3. f \in Frames /\ f.d = "text" /\ f.p = p /\ UsageIn(f) = NoBill
  <2>1. f.d = "text" /\ f.p = p
    BY DEF Text
  <2>. QED
    BY <2>1, FramesMade, FrameBills
<1>. HIDE DEF f
<1>4. x.why = "none" /\ Whole("chat", x) /\ Numbered(x.items)
  BY DEF Says
<1>5. Fits("chat", x.items, x.why, f)
  BY <1>3, <1>4 DEF Fits, FitsChat
<1>6. /\ Numbered(y.items) /\ CallKeys(y.items) = CallKeys(x.items) /\ y.why = "none"
      /\ Content(y.items) = TextMore(Content(x.items), <<p>>)
  BY <1>3, <1>4, ChatText
<1>7. Whole("chat", y)
  BY <1>4, <1>5, WholeHears
<1>. HIDE DEF y
<1>8. CallCount(y.items) = CallCount(x.items)
  BY <1>4, <1>6, <1>7, CountText DEF Whole, Good
<1>9. Tracks(shape, next, st, y)
  BY <1>0, <1>1, <1>6, <1>8, TracksText DEF Says, SaidIn
<1>10. Says(shape, next, "none", st, y)
  BY <1>1, <1>6, <1>7, <1>9 DEF Says
<1>. DEFINE bills == {UsageIn(f)} \ {NoBill}
<1>11. bills = {}
  BY <1>3
<1>12. ChunkOf(shape, st, e) = Emits(st, <<f>>)
  BY <1>2 DEF f
<1>. HIDE DEF bills
<1>13. Moves(shape, next, "none", x, ChunkOf(shape, st, e), bills)
  BY <1>3, <1>4, <1>5, <1>10, <1>12, MovesOne DEF y, bills
<1>. QED
  BY <1>11, <1>13 DEF next

-----------------------------------------------------------------------------
(* A chunk that begins a call, and one that has more of its arguments.     *)
LEMMA CallFrame ==
  ASSUME NEW at \in Nat, NEW id \in Nat, NEW args \in Seq(Nat), NEW f, f = Call(at, id, args)
  PROVE  /\ f \in Frames /\ f.d = "call" /\ f.at = at /\ f.id = id /\ f.args = args
         /\ {UsageIn(f)} \ {NoBill} = {}
<1>1. f.d = "call" /\ f.at = at /\ f.id = id /\ f.args = args
  BY DEF Call
<1>2. f \in Frames
  BY FramesMade
<1>3. UsageIn(f) = NoBill
  BY <1>1, <1>2, FrameBills
<1>. QED
  BY <1>1, <1>2, <1>3

LEMMA NewChunk ==
  ASSUME NEW x, Whole("chat", x), Numbered(x.items), x.why = "none",
         NEW at \in Nat, NEW args \in Seq(Nat), NEW id, id = CallCount(x.items) + 1,
         \A k : <<at, k>> \notin CallKeys(x.items),
         NEW f, f = Call(at, id, args), NEW y, y = Hear("chat", x, f)
  PROVE  /\ f \in Frames /\ Fits("chat", x.items, x.why, f) /\ {UsageIn(f)} \ {NoBill} = {}
         /\ Whole("chat", y) /\ Numbered(y.items) /\ y.why = "none"
         /\ CallKeys(y.items) = CallKeys(x.items) \cup {<<at, id>>}
         /\ Content(y.items) = CallNew(Content(x.items), args)
         /\ CallCount(y.items) = CallCount(x.items) + 1
<1>1. x.items \in Seq(Items) /\ CallCount(x.items) \in Nat
  BY CountTyped DEF Whole, Good
<1>2. /\ f \in Frames /\ f.d = "call" /\ f.at = at /\ f.id = id /\ f.args = args
      /\ {UsageIn(f)} \ {NoBill} = {}
  BY <1>1, CallFrame
<1>3. f.id = Len(CallsOf(x.items)) + 1 /\ f.id \in Nat
  BY <1>1, <1>2 DEF CallCount
<1>4. Fits("chat", x.items, x.why, f)
  BY <1>2, <1>3 DEF Fits, FitsChat
<1>5. /\ Numbered(y.items) /\ CallKeys(y.items) = CallKeys(x.items) \cup {<<f.at, f.id>>}
      /\ y.why = "none" /\ Content(y.items) = CallNew(Content(x.items), f.args)
  BY <1>2, <1>3, ChatNew
<1>6. Whole("chat", y)
  BY <1>4, WholeHears
<1>7. CallCount(y.items) = CallCount(x.items) + 1
  BY <1>1, <1>5, <1>6, CountNew DEF Whole, Good
<1>. QED
  BY <1>2, <1>4, <1>5, <1>6, <1>7

LEMMA MoreChunk ==
  ASSUME NEW x, Whole("chat", x), Numbered(x.items), x.why = "none",
         NEW at \in Nat, NEW id \in Nat, NEW args \in Seq(Nat), NEW r, <<at, r>> \in CallKeys(x.items),
         NEW f, f = Call(at, id, args), NEW y, y = Hear("chat", x, f)
  PROVE  /\ f \in Frames /\ Fits("chat", x.items, x.why, f) /\ {UsageIn(f)} \ {NoBill} = {}
         /\ Whole("chat", y) /\ Numbered(y.items) /\ y.why = "none"
         /\ CallKeys(y.items) = CallKeys(x.items)
         /\ Content(y.items) = CallMore(Content(x.items), r, args)
         /\ CallCount(y.items) = CallCount(x.items)
<1>1. x.items \in Seq(Items)
  BY DEF Whole, Good
<1>2. /\ f \in Frames /\ f.d = "call" /\ f.at = at /\ f.id = id /\ f.args = args
      /\ {UsageIn(f)} \ {NoBill} = {}
  BY CallFrame
<1>3. \E i \in 1..Len(x.items) : x.items[i].kind = "call" /\ x.items[i].at = f.at
  BY <1>2 DEF CallKeys
<1>4. Fits("chat", x.items, x.why, f)
  BY <1>2, <1>3 DEF Fits, FitsChat
<1>5. /\ Numbered(y.items) /\ CallKeys(y.items) = CallKeys(x.items) /\ y.why = "none"
      /\ Content(y.items) = CallMore(Content(x.items), r, f.args)
  BY <1>2, ChatMore
<1>6. Whole("chat", y)
  BY <1>4, WholeHears
<1>7. CallCount(y.items) = CallCount(x.items)
  BY <1>1, <1>5, <1>6, CountMore DEF Whole, Good
<1>. QED
  BY <1>2, <1>4, <1>5, <1>6, <1>7

-----------------------------------------------------------------------------
(* The upstream begins a call. *)
NewCall(shape, said, c) ==
  /\ c \in Items /\ c.kind = "call" /\ c.id = CallCount(said) + 1
  /\ shape \in {"codex", "http_anthropic", "cc_messages"} => c.at = Len(said)
  /\ shape \in {"http_openai", "cc_chat"} => c.at = CallCount(said)
CallSaid(shape, said, c, next) ==
  /\ SaidIn(shape, next) /\ Content(next) = CallNew(Content(said), c.parts)
  /\ CallKeys(next) = CallKeys(said) \cup {<<c.at, c.id>>}
  /\ CallCount(next) = CallCount(said) + 1
  /\ next \in Seq(Items) /\ Len(next) = Len(said) + 1 /\ next[Len(said) + 1] = c
  /\ \A i \in 1..Len(said) : next[i] = said[i]

LEMMA SaidCall ==
  ASSUME NEW shape, NEW said, SaidIn(shape, said), NEW c, NewCall(shape, said, c),
         NEW next, next = Append(said, c)
  PROVE  CallSaid(shape, said, c, next)
<1>0. c \in Items /\ c.kind = "call" /\ c.id = CallCount(said) + 1
  BY DEF NewCall
<1>1. said \in Seq(Items) /\ Numbered(said) /\ CallCount(said) \in Nat
  BY CountTyped DEF SaidIn
<1>2. Numbered(next) /\ Content(next) = CallNew(Content(said), c.parts)
  BY <1>0, <1>1, ContentAppend DEF CallCount
<1>3. CallKeys(next) = CallKeys(said) \cup {<<c.at, c.id>>}
  BY <1>0, <1>1, KeysAppend
<1>4. /\ next \in Seq(Items) /\ Len(next) = Len(said) + 1 /\ next[Len(said) + 1] = c
      /\ \A i \in 1..Len(said) : next[i] = said[i]
      /\ \A i \in 1..Len(next) : i \in 1..Len(said) \/ i = Len(said) + 1
  BY <1>0, <1>1
<1>5. CallCount(next) = CallCount(said) + 1
  BY <1>1, <1>2, <1>4, CountNew
<1>6. shape \in {"codex", "http_anthropic", "cc_messages"} => Placed(next)
  <2>. SUFFICES ASSUME shape \in {"codex", "http_anthropic", "cc_messages"} PROVE Placed(next)
    OBVIOUS
  <2>1. Placed(said) /\ c.at = Len(said) /\ Len(said) \in Nat
    BY <1>1 DEF SaidIn, NewCall
  <2>. QED
    BY <1>4, <2>1 DEF Placed
<1>7. shape \in {"http_openai", "cc_chat"} => CallKeys(next) = ByRank(CallCount(next))
  <2>. SUFFICES ASSUME shape \in {"http_openai", "cc_chat"} PROVE CallKeys(next) = ByRank(CallCount(next))
    OBVIOUS
  <2>1. CallKeys(said) = ByRank(CallCount(said)) /\ c.at = CallCount(said)
    BY DEF SaidIn, NewCall
  <2>. QED
    BY <1>0, <1>1, <1>3, <1>5, <2>1, ByRankGrows
<1>. QED
  BY <1>2, <1>3, <1>4, <1>5, <1>6, <1>7 DEF SaidIn, CallSaid

LEMMA RankOne == ByRank(1) = {<<0, 1>>} /\ ByRank(0) = {}
<1>1. 0 \in Nat /\ 0 + 1 = 1
  OBVIOUS
<1>2. ByRank(0 + 1) = ByRank(0) \cup {<<0, 0 + 1>>} /\ ByRank(0) = {}
  BY <1>1, ByRankGrows
<1>. QED
  BY <1>1, <1>2

(* The places of what the upstream has said, with one more item. *)
LEMMA PlacesGrow ==
  ASSUME NEW said \in Seq(Items), NEW next, Len(next) = Len(said) + 1
  PROVE  /\ Places(next) = Places(said) \cup {Len(said)} /\ Len(said) \notin Places(said)
         /\ \A at \in Places(said) : at + 1 \in 1..Len(said)
<1>1. Len(said) \in Nat
  OBVIOUS
<1>. QED
  BY <1>1 DEF Places

(* The indices of the calls of a list whose items are in their places. *)
LEMMA NoKeyAfter ==
  ASSUME NEW said \in Seq(Items), Placed(said)
  PROVE  \A k : <<Len(said), k>> \notin CallKeys(said)
<1>1. Len(said) \in Nat
  OBVIOUS
<1>2. ASSUME NEW k, <<Len(said), k>> \in CallKeys(said) PROVE FALSE
  <2>1. PICK i \in {j \in 1..Len(said) : said[j].kind = "call"} : <<Len(said), k>> = <<said[i].at, said[i].id>>
    BY <1>2 DEF CallKeys
  <2>2. Len(said) = said[i].at /\ said[i].at = i - 1 /\ i \in 1..Len(said)
    BY <2>1 DEF Placed
  <2>. QED
    BY <1>1, <2>2
<1>. QED
  BY <1>2

-----------------------------------------------------------------------------
(* A call begins: Codex. *)
LEMMA MovesCallCodex ==
  ASSUME NEW said, NEW st, NEW x, Says("codex", said, "none", st, x),
         NEW c \in Items, c.kind = "call", c.id = CallCount(said) + 1, c.at = Len(said), c.parts = <<>>,
         NEW next, next = Append(said, c),
         NEW e, e = [ev |-> "item_added", at |-> c.at, id |-> c.id, args |-> <<>>]
  PROVE  Moves("codex", next, "none", x, ChunkOf("codex", st, e), {})
<1>. DEFINE at == c.at
<1>. DEFINE id == c.id
<1>. DEFINE none == <<>>
<1>. DEFINE f == Call(at, id, none)
<1>. DEFINE t == [saw |-> TRUE, sent |-> st.sent]
<1>. DEFINE y == Hear("chat", x, f)
<1>1. ChunkOf("codex", st, e) = Emits(t, <<f>>)
  <2>1. e.ev = "item_added" /\ e.at = at /\ e.id = id /\ e.args = none
    OBVIOUS
  <2>. HIDE DEF at, id
  <2>2. CodexChunk(st, e) = Emits(t, <<f>>)
    BY <2>1 DEF CodexChunk
  <2>. QED
    BY <2>2 DEF ChunkOf
<1>0. /\ SaidIn("codex", said) /\ said \in Seq(Items) /\ Placed(said) /\ CallCount(said) \in Nat
      /\ Whole("chat", x) /\ Numbered(x.items) /\ x.why = "none" /\ x.items \in Seq(Items)
      /\ Content(x.items) = Content(said) /\ CodexTracks(said, st, x)
      /\ at \in Nat /\ none \in Seq(Nat) /\ id \in Nat
  BY CountTyped DEF Says, SaidIn, Tracks, Faithful, Whole, Good
<1>2. CallCount(x.items) = CallCount(said) /\ CallKeys(x.items) = CallKeys(said)
  BY <1>0, SameCount DEF CodexTracks
<1>3. \A k : <<at, k>> \notin CallKeys(x.items)
  BY <1>0, <1>2, NoKeyAfter
<1>4. /\ SaidIn("codex", next) /\ Content(next) = CallNew(Content(said), c.parts)
      /\ CallKeys(next) = CallKeys(said) \cup {<<c.at, c.id>>}
      /\ CallCount(next) = CallCount(said) + 1
      /\ next \in Seq(Items) /\ Len(next) = Len(said) + 1 /\ next[Len(said) + 1] = c
      /\ \A i \in 1..Len(said) : next[i] = said[i]
  <2>1. NewCall("codex", said, c)
    BY DEF NewCall
  <2>2. CallSaid("codex", said, c, next)
    BY <1>0, <2>1, SaidCall
  <2>. QED
    BY <2>2 DEF CallSaid
<1>. HIDE DEF at, id, none, f, y
<1>5. /\ f \in Frames /\ Fits("chat", x.items, x.why, f) /\ {UsageIn(f)} \ {NoBill} = {}
      /\ Whole("chat", y) /\ Numbered(y.items) /\ y.why = "none"
      /\ CallKeys(y.items) = CallKeys(x.items) \cup {<<at, id>>}
      /\ Content(y.items) = CallNew(Content(x.items), none)
  <2>1. id = CallCount(x.items) + 1
    BY <1>2 DEF id
  <2>. QED
    BY <1>0, <1>3, <2>1, NewChunk DEF f, y
<1>6. CodexTracks(next, t, y)
  <2>1. t = [saw |-> t.saw, sent |-> t.sent] /\ t.saw = TRUE /\ t.sent = st.sent
    OBVIOUS
  <2>2. st.sent = {k \in Places(said) : said[k + 1].kind = "call" /\ said[k + 1].parts # <<>>}
    BY <1>0 DEF CodexTracks
  <2>3. /\ Places(next) = Places(said) \cup {Len(said)} /\ Len(said) \notin Places(said)
        /\ \A k \in Places(said) : k + 1 \in 1..Len(said)
    BY <1>0, <1>4, PlacesGrow
  <2>4. st.sent = {k \in Places(next) : next[k + 1].kind = "call" /\ next[k + 1].parts # <<>>}
    BY <1>4, <2>2, <2>3
  <2>5. CallKeys(y.items) = CallKeys(next)
    BY <1>2, <1>4, <1>5 DEF at, id
  <2>6. CallCount(next) # 0
    BY <1>0, <1>4
  <2>. HIDE DEF t
  <2>. QED
    BY <2>1, <2>4, <2>5, <2>6 DEF CodexTracks
<1>. HIDE DEF t
<1>7. Says("codex", next, "none", t, y)
  <2>1. Content(y.items) = Content(next)
    BY <1>0, <1>4, <1>5 DEF none
  <2>. QED
    BY <1>4, <1>5, <1>6, <2>1 DEF Says, Tracks
<1>8. Moves("codex", next, "none", x, Emits(t, <<f>>), {})
  BY <1>0, <1>5, <1>7, MovesOne DEF y
<1>. QED
  BY <1>1, <1>8

(* A call begins: Chat. *)
LEMMA MovesCallChat ==
  ASSUME NEW shape \in {"http_openai", "cc_chat"}, NEW said, NEW st, NEW x, Says(shape, said, "none", st, x),
         NEW c \in Items, c.kind = "call", c.id = CallCount(said) + 1, c.at = CallCount(said), c.parts = <<>>,
         NEW next, next = Append(said, c),
         NEW e, e = Call(c.at, c.id, <<>>)
  PROVE  Moves(shape, next, "none", x, ChunkOf(shape, st, e), {})
<1>. DEFINE at == c.at
<1>. DEFINE id == c.id
<1>. DEFINE none == <<>>
<1>. DEFINE f == Call(at, id, none)
<1>. DEFINE y == Hear("chat", x, f)
<1>1. ChunkOf(shape, st, e) = Emits(st, <<f>>)
  BY DEF ChunkOf
<1>0. /\ SaidIn(shape, said) /\ said \in Seq(Items) /\ CallCount(said) \in Nat
      /\ Whole("chat", x) /\ Numbered(x.items) /\ x.why = "none" /\ x.items \in Seq(Items)
      /\ Content(x.items) = Content(said) /\ CallKeys(x.items) = ByRank(CallCount(x.items))
      /\ at \in Nat /\ none \in Seq(Nat) /\ id \in Nat
  BY CountTyped DEF Says, SaidIn, Tracks, Faithful, Whole, Good
<1>2. CallCount(x.items) = CallCount(said)
  BY <1>0, SameCount
<1>3. \A k : <<at, k>> \notin CallKeys(x.items)
  BY <1>0, <1>2, ByRankGrows
<1>4. /\ SaidIn(shape, next) /\ Content(next) = CallNew(Content(said), c.parts)
      /\ CallCount(next) = CallCount(said) + 1
  <2>1. NewCall(shape, said, c)
    BY DEF NewCall
  <2>2. CallSaid(shape, said, c, next)
    BY <1>0, <2>1, SaidCall
  <2>. QED
    BY <2>2 DEF CallSaid
<1>5. at = CallCount(x.items) /\ id = CallCount(x.items) + 1
  BY <1>2
<1>. HIDE DEF at, id, none, f, y
<1>6. /\ f \in Frames /\ Fits("chat", x.items, x.why, f) /\ {UsageIn(f)} \ {NoBill} = {}
      /\ Whole("chat", y) /\ Numbered(y.items) /\ y.why = "none"
      /\ CallKeys(y.items) = CallKeys(x.items) \cup {<<at, id>>}
      /\ Content(y.items) = CallNew(Content(x.items), none)
      /\ CallCount(y.items) = CallCount(x.items) + 1
  BY <1>0, <1>3, <1>5, NewChunk DEF f, y
<1>7. CallKeys(y.items) = ByRank(CallCount(y.items))
  BY <1>0, <1>2, <1>5, <1>6, ByRankGrows
<1>8. Says(shape, next, "none", st, y)
  <2>1. Content(y.items) = Content(next)
    BY <1>0, <1>4, <1>6 DEF none
  <2>2. Tracks(shape, next, st, y)
    BY <1>7 DEF Tracks
  <2>. QED
    BY <1>4, <1>6, <2>1, <2>2 DEF Says
<1>9. Moves(shape, next, "none", x, Emits(st, <<f>>), {})
  BY <1>0, <1>6, <1>8, MovesOne DEF y
<1>. QED
  BY <1>1, <1>9

(* A call begins: a line of the generate transport brings it whole. *)
LEMMA MovesCallGenerate ==
  ASSUME NEW said, NEW st, NEW x, Says("cc_generate", said, "none", st, x), NEW p \in Nat,
         NEW c \in Items, c.kind = "call", c.id = CallCount(said) + 1, c.parts = <<p>>,
         ~ParallelLines => c.id = 1,
         NEW next, next = Append(said, c),
         NEW e, e = [ev |-> "tool_call", id |-> c.id, args |-> <<p>>]
  PROVE  Moves("cc_generate", next, "none", x, ChunkOf("cc_generate", st, e), {})
<1>. DEFINE id == c.id
<1>. DEFINE args == <<p>>
<1>. DEFINE f == Call(0, id, args)
<1>. DEFINE t == [saw |-> TRUE]
<1>. DEFINE y == Hear("chat", x, f)
<1>1. ChunkOf("cc_generate", st, e) = Emits(t, <<f>>)
  <2>1. e.ev = "tool_call" /\ e.id = id /\ e.args = args
    OBVIOUS
  <2>. HIDE DEF id, args
  <2>2. GenerateChunk(st, e) = Emits(t, <<f>>)
    BY <2>1 DEF GenerateChunk
  <2>. QED
    BY <2>2 DEF ChunkOf
<1>a. args \in Seq(Nat)
  OBVIOUS
<1>0. /\ SaidIn("cc_generate", said) /\ said \in Seq(Items) /\ CallCount(said) \in Nat
      /\ Whole("chat", x) /\ Numbered(x.items) /\ x.why = "none" /\ x.items \in Seq(Items)
      /\ CallCount(x.items) \in Nat /\ GenerateTracks(said, st, x)
      /\ id \in Nat /\ id = CallCount(said) + 1
  BY CountTyped DEF Says, SaidIn, Tracks, Whole, Good
<1>4. /\ SaidIn("cc_generate", next) /\ Content(next) = CallNew(Content(said), c.parts)
      /\ CallCount(next) = CallCount(said) + 1
  <2>1. NewCall("cc_generate", said, c)
    BY DEF NewCall
  <2>2. CallSaid("cc_generate", said, c, next)
    BY <1>0, <2>1, SaidCall
  <2>. QED
    BY <2>2 DEF CallSaid
<1>5. t.saw = TRUE /\ CallCount(next) # 0
  BY <1>0, <1>4
<1>. HIDE DEF id, args, f, y, t
<1>6. CASE CallCount(said) = 0
  <2>1. CallCount(x.items) = 0 /\ CallKeys(x.items) = ByRank(0)
    BY <1>0, <1>6 DEF GenerateTracks
  <2>2. id = CallCount(x.items) + 1 /\ \A k : <<0, k>> \notin CallKeys(x.items)
    BY <1>0, <1>6, <2>1, RankOne
  <2>3. /\ f \in Frames /\ Fits("chat", x.items, x.why, f) /\ {UsageIn(f)} \ {NoBill} = {}
        /\ Whole("chat", y) /\ Numbered(y.items) /\ y.why = "none"
        /\ CallKeys(y.items) = CallKeys(x.items) \cup {<<0, id>>}
        /\ Content(y.items) = CallNew(Content(x.items), args)
        /\ CallCount(y.items) = CallCount(x.items) + 1
    BY <1>a, <1>0, <2>2, NewChunk DEF f, y
  <2>4. CallCount(y.items) = 1 /\ CallKeys(y.items) = ByRank(1)
    BY <1>0, <1>6, <2>1, <2>3, RankOne
  <2>5. Faithful("cc_generate") => Content(y.items) = Content(next)
    <3>1. Faithful("cc_generate") => Content(x.items) = Content(said)
      BY DEF Says
    <3>. QED
      BY <1>4, <2>3, <3>1 DEF args
  <2>6. GenerateTracks(next, t, y)
    <3>1. t.saw = (CallCount(next) # 0)
      BY <1>5
    <3>2. CallCount(y.items) = 0 <=> CallCount(next) = 0
      BY <1>5, <2>4
    <3>. QED
      BY <2>4, <3>1, <3>2 DEF GenerateTracks
  <2>7. Says("cc_generate", next, "none", t, y)
    BY <1>4, <2>3, <2>5, <2>6 DEF Says, Tracks
  <2>8. Moves("cc_generate", next, "none", x, Emits(t, <<f>>), {})
    BY <1>0, <2>3, <2>7, MovesOne DEF y
  <2>. QED
    BY <1>1, <2>8
<1>7. CASE CallCount(said) # 0
  <2>1. CallCount(x.items) = 1 /\ CallKeys(x.items) = ByRank(1)
    BY <1>0, <1>7 DEF GenerateTracks
  <2>2. <<0, 1>> \in CallKeys(x.items)
    BY <2>1, RankOne
  <2>3. /\ f \in Frames /\ Fits("chat", x.items, x.why, f) /\ {UsageIn(f)} \ {NoBill} = {}
        /\ Whole("chat", y) /\ Numbered(y.items) /\ y.why = "none"
        /\ CallKeys(y.items) = CallKeys(x.items)
        /\ CallCount(y.items) = CallCount(x.items)
    BY <1>a, <1>0, <2>2, MoreChunk DEF f, y
  <2>4. ~Faithful("cc_generate")
    BY <1>0, <1>7 DEF Faithful, id
  <2>6. GenerateTracks(next, t, y)
    <3>1. t.saw = (CallCount(next) # 0)
      BY <1>5
    <3>2. CallCount(y.items) = 0 <=> CallCount(next) = 0
      BY <1>5, <2>1, <2>3
    <3>. QED
      BY <2>1, <2>3, <3>1, <3>2 DEF GenerateTracks
  <2>7. Says("cc_generate", next, "none", t, y)
    BY <1>4, <2>3, <2>4, <2>6 DEF Says, Tracks
  <2>8. Moves("cc_generate", next, "none", x, Emits(t, <<f>>), {})
    BY <1>0, <2>3, <2>7, MovesOne DEF y
  <2>. QED
    BY <1>1, <2>8
<1>. QED
  BY <1>6, <1>7

-----------------------------------------------------------------------------
(* More arguments of a call. *)
MoreOf(said, i, args, next) ==
  /\ i \in 1..Len(said) /\ said[i].kind = "call" /\ args \in Seq(Nat)
  /\ next \in Seq(Items) /\ Len(next) = Len(said)
  /\ \A j \in 1..Len(said) : /\ next[j].kind = said[j].kind /\ next[j].id = said[j].id
                             /\ next[j].at = said[j].at
  /\ \A j \in 1..Len(said) : j # i => next[j] = said[j]
  /\ Longer(said, i, args, next)

LEMMA ExtendMore ==
  ASSUME NEW said \in Seq(Items), NEW i \in 1..Len(said), said[i].kind = "call", NEW args \in Seq(Nat)
  PROVE  MoreOf(said, i, args, Extend(said, i, args))
BY ExtendIs DEF MoreOf, Else

MoreSaid(shape, said, i, args, next) ==
  /\ SaidIn(shape, next) /\ Content(next) = CallMore(Content(said), said[i].id, args)
  /\ CallKeys(next) = CallKeys(said) /\ CallCount(next) = CallCount(said)
  /\ <<said[i].at, said[i].id>> \in CallKeys(said)

LEMMA SaidMore ==
  ASSUME NEW shape, NEW said, SaidIn(shape, said), NEW i, NEW args, NEW next, MoreOf(said, i, args, next)
  PROVE  MoreSaid(shape, said, i, args, next)
<1>1. said \in Seq(Items) /\ Numbered(said)
  BY DEF SaidIn
<1>2. /\ i \in 1..Len(said) /\ said[i].kind = "call" /\ args \in Seq(Nat)
      /\ next \in Seq(Items) /\ Len(next) = Len(said)
      /\ \A j \in 1..Len(said) : next[j].kind = said[j].kind /\ next[j].id = said[j].id
      /\ \A j \in 1..Len(said) : next[j].at = said[j].at
      /\ \A j \in 1..Len(said) : j # i => next[j] = said[j]
      /\ Longer(said, i, args, next)
  BY DEF MoreOf
<1>3. Numbered(next) /\ Content(next) = CallMore(Content(said), said[i].id, args)
  BY <1>1, <1>2, ContentCall
<1>4. CallKeys(next) = CallKeys(said)
  BY <1>2 DEF CallKeys
<1>5. CallCount(next) = CallCount(said)
  BY <1>1, <1>2, <1>3, CountMore
<1>6. Placed(said) => Placed(next)
  BY <1>2 DEF Placed
<1>7. <<said[i].at, said[i].id>> \in CallKeys(said)
  BY <1>2 DEF CallKeys
<1>8. SaidIn(shape, next)
  BY <1>2, <1>3, <1>4, <1>5, <1>6 DEF SaidIn
<1>. QED
  BY <1>3, <1>4, <1>5, <1>7, <1>8 DEF MoreSaid

(* One frame that has more of a call the upstream has more of. *)
LEMMA MovesMore ==
  ASSUME NEW shape, Faithful(shape), NEW said, NEW st, NEW x, Says(shape, said, "none", st, x),
         NEW i, NEW args, NEW next, MoreOf(said, i, args, next),
         NEW at \in Nat, <<at, said[i].id>> \in CallKeys(x.items), NEW f, f = Call(at, 0, args),
         NEW t, \A y : Tracks(shape, said, st, x) /\ CallKeys(y.items) = CallKeys(x.items)
                         /\ CallCount(y.items) = CallCount(x.items) => Tracks(shape, next, t, y)
  PROVE  Moves(shape, next, "none", x, Emits(t, <<f>>), {})
<1>. DEFINE y == Hear("chat", x, f)
<1>1. /\ SaidIn(shape, said) /\ Whole("chat", x) /\ Numbered(x.items) /\ x.why = "none"
      /\ Content(x.items) = Content(said) /\ Tracks(shape, said, st, x) /\ args \in Seq(Nat)
  BY DEF Says, MoreOf
<1>2. /\ SaidIn(shape, next) /\ Content(next) = CallMore(Content(said), said[i].id, args)
  <2>1. MoreSaid(shape, said, i, args, next)
    BY <1>1, SaidMore
  <2>. QED
    BY <2>1 DEF MoreSaid
<1>3. 0 \in Nat
  OBVIOUS
<1>4. /\ f \in Frames /\ Fits("chat", x.items, x.why, f) /\ {UsageIn(f)} \ {NoBill} = {}
      /\ Whole("chat", y) /\ Numbered(y.items) /\ y.why = "none"
      /\ CallKeys(y.items) = CallKeys(x.items)
      /\ Content(y.items) = CallMore(Content(x.items), said[i].id, args)
      /\ CallCount(y.items) = CallCount(x.items)
  BY <1>1, <1>3, MoreChunk
<1>. HIDE DEF y
<1>5. Tracks(shape, next, t, y)
  BY <1>1, <1>4
<1>6. Says(shape, next, "none", t, y)
  <2>1. Content(y.items) = Content(next)
    BY <1>1, <1>2, <1>4
  <2>. QED
    BY <1>2, <1>4, <1>5, <2>1 DEF Says
<1>. QED
  BY <1>1, <1>4, <1>6, MovesOne DEF y

LEMMA MovesMoreChat ==
  ASSUME NEW shape \in {"http_openai", "cc_chat"}, NEW said, NEW st, NEW x,
         Says(shape, said, "none", st, x), NEW i, NEW args, NEW next, MoreOf(said, i, args, next),
         NEW e, e = Call(said[i].at, 0, args)
  PROVE  Moves(shape, next, "none", x, ChunkOf(shape, st, e), {})
<1>1. ChunkOf(shape, st, e) = Emits(st, <<e>>)
  BY DEF ChunkOf
<1>2. /\ SaidIn(shape, said) /\ Content(x.items) = Content(said) /\ said \in Seq(Items)
      /\ CallKeys(x.items) = ByRank(CallCount(x.items)) /\ x.items \in Seq(Items)
      /\ CallKeys(said) = ByRank(CallCount(said)) /\ CallCount(said) \in Nat
  BY CountTyped DEF Says, SaidIn, Tracks, Faithful, Whole, Good
<1>3. <<said[i].at, said[i].id>> \in CallKeys(said)
  <2>1. MoreSaid(shape, said, i, args, next)
    BY <1>2, SaidMore
  <2>. QED
    BY <2>1 DEF MoreSaid
<1>4. CallKeys(x.items) = CallKeys(said)
  BY <1>2, SameCount
<1>5. said[i].at \in Nat
  <2>1. PICK r \in 1..CallCount(said) : <<said[i].at, said[i].id>> = <<r - 1, r>>
    BY <1>2, <1>3 DEF ByRank
  <2>. QED
    BY <1>2, <2>1
<1>6. ASSUME NEW y, Tracks(shape, said, st, x), CallKeys(y.items) = CallKeys(x.items),
             CallCount(y.items) = CallCount(x.items)
      PROVE  Tracks(shape, next, st, y)
  BY <1>2, <1>6 DEF Tracks
<1>7. Faithful(shape)
  BY DEF Faithful
<1>8. Moves(shape, next, "none", x, Emits(st, <<e>>), {})
  BY <1>3, <1>4, <1>5, <1>6, <1>7, MovesMore
<1>. QED
  BY <1>1, <1>8

LEMMA MovesMoreClaude ==
  ASSUME NEW shape \in {"http_anthropic", "cc_messages"}, NEW said, NEW st, NEW x,
         Says(shape, said, "none", st, x), NEW i, NEW args, NEW next, MoreOf(said, i, args, next),
         NEW e, e = Delta(i - 1, args)
  PROVE  Moves(shape, next, "none", x, ChunkOf(shape, st, e), {})
<1>. DEFINE at == said[i].id - 1
<1>2. /\ SaidIn(shape, said) /\ Content(x.items) = Content(said) /\ said \in Seq(Items)
      /\ CallKeys(x.items) = ByRank(CallCount(x.items)) /\ x.items \in Seq(Items)
      /\ CallCount(said) \in Nat /\ ClaudeTracks(said, st, x) /\ Numbered(said)
  BY CountTyped DEF Says, SaidIn, Tracks, ClaudeTracks, Faithful, Whole, Good
<1>3. /\ i \in 1..Len(said) /\ said[i].kind = "call" /\ Len(next) = Len(said) /\ args \in Seq(Nat)
      /\ next \in Seq(Items)
      /\ \A j \in 1..Len(said) : next[j].kind = said[j].kind /\ next[j].id = said[j].id
  BY DEF MoreOf
<1>4. i - 1 \in Places(said) /\ (i - 1) + 1 = i
  BY <1>2, <1>3 DEF Places
<1>5. i - 1 \in DOMAIN st.kinds /\ st.kinds[i - 1] = "call" /\ st.tools[i - 1] = at
  BY <1>2, <1>3, <1>4 DEF ClaudeTracks
<1>6. CallCount(x.items) = CallCount(said)
  BY <1>2, SameCount
<1>7. said[i].id \in 1..CallCount(said)
  BY <1>2, <1>3 DEF Numbered, CallCount
<1>8. at \in Nat /\ <<at, said[i].id>> \in CallKeys(x.items)
  <2>1. <<at, said[i].id>> \in ByRank(CallCount(said))
    BY <1>7 DEF ByRank
  <2>. QED
    BY <1>2, <1>6, <1>7, <2>1
<1>1. ChunkOf(shape, st, e) = Emits(st, <<Call(at, 0, args)>>)
  <2>1. e.d = "delta" /\ e.at = i - 1 /\ e.args = args
    BY DEF Delta
  <2>. HIDE DEF at
  <2>2. ClaudeChunk(st, e) = Emits(st, <<Call(at, 0, args)>>)
    BY <1>5, <2>1 DEF ClaudeChunk, ToolIndex
  <2>. QED
    BY <2>2 DEF ChunkOf
<1>9. ASSUME NEW y, Tracks(shape, said, st, x), CallKeys(y.items) = CallKeys(x.items),
             CallCount(y.items) = CallCount(x.items)
      PROVE  Tracks(shape, next, st, y)
  <2>1. Places(next) = Places(said) /\ \A k \in Places(said) : k + 1 \in 1..Len(said)
    BY <1>2, <1>3 DEF Places
  <2>2. CallCount(next) = CallCount(said)
    <3>1. MoreSaid(shape, said, i, args, next)
      BY <1>2, SaidMore
    <3>. QED
      BY <3>1 DEF MoreSaid
  <2>3. ClaudeTracks(next, st, y)
    BY <1>2, <1>3, <1>9, <2>1, <2>2 DEF ClaudeTracks
  <2>. QED
    BY <2>3 DEF Tracks
<1>10. Faithful(shape)
  BY DEF Faithful
<1>. DEFINE f == Call(at, 0, args)
<1>. HIDE DEF at, f
<1>11. Moves(shape, next, "none", x, Emits(st, <<f>>), {})
  BY <1>8, <1>9, <1>10, MovesMore DEF f
<1>. QED
  BY <1>1, <1>11 DEF f

-----------------------------------------------------------------------------
(* More arguments of a call: Codex, which remembers that it had some. *)
LEMMA SentIs ==
  ASSUME NEW st, st = [saw |-> st.saw, sent |-> st.sent], NEW at,
         NEW t, t = [st EXCEPT !.sent = @ \cup {at}]
  PROVE  /\ t = [saw |-> t.saw, sent |-> t.sent]
         /\ t.saw = st.saw /\ t.sent = st.sent \cup {at}
<1>. DEFINE saw == st.saw
<1>. DEFINE out == st.sent
<1>1. st = [saw |-> saw, sent |-> out]
  OBVIOUS
<1>. HIDE DEF saw, out
<1>2. t = [saw |-> saw, sent |-> out \cup {at}]
  BY <1>1
<1>3. t.saw = saw /\ t.sent = out \cup {at}
  BY <1>2
<1>. QED
  BY <1>2, <1>3 DEF saw, out

LEMMA MovesMoreCodex ==
  ASSUME NEW said, NEW st, NEW x, Says("codex", said, "none", st, x), NEW i, NEW args, args # <<>>,
         NEW next, MoreOf(said, i, args, next),
         NEW t, t = [st EXCEPT !.sent = @ \cup {said[i].at}],
         NEW f, f = Call(said[i].at, 0, args)
  PROVE  Moves("codex", next, "none", x, Emits(t, <<f>>), {})
<1>. DEFINE at == said[i].at
<1>1. /\ SaidIn("codex", said) /\ Content(x.items) = Content(said) /\ said \in Seq(Items)
      /\ CodexTracks(said, st, x) /\ Placed(said)
  BY DEF Says, SaidIn, Tracks, Faithful
<1>2. /\ i \in 1..Len(said) /\ said[i].kind = "call" /\ args \in Seq(Nat)
      /\ next \in Seq(Items) /\ Len(next) = Len(said)
      /\ \A j \in 1..Len(said) : next[j].kind = said[j].kind /\ next[j].id = said[j].id
      /\ \A j \in 1..Len(said) : j # i => next[j] = said[j]
      /\ next[i].parts = said[i].parts \o args /\ said[i].parts \in Seq(Nat)
  <2>1. i \in 1..Len(said)
    BY DEF MoreOf
  <2>2. said[i].parts \in Seq(Nat)
    <3>1. said[i] \in Items
      BY <1>1, <2>1
    <3>. QED
      BY <3>1, ItemParts
  <2>. QED
    BY <2>2 DEF MoreOf, Longer
<1>3. at = i - 1 /\ at \in Nat /\ i \in Nat
  BY <1>1, <1>2 DEF Placed
<1>4. /\ CallKeys(next) = CallKeys(said) /\ CallCount(next) = CallCount(said)
      /\ <<at, said[i].id>> \in CallKeys(said)
  <2>1. MoreSaid("codex", said, i, args, next)
    BY <1>1, SaidMore
  <2>. QED
    BY <2>1 DEF MoreSaid
<1>5. /\ st = [saw |-> st.saw, sent |-> st.sent] /\ CallKeys(x.items) = CallKeys(said)
      /\ st.saw = (CallCount(said) # 0)
      /\ st.sent = {k \in Places(said) : said[k + 1].kind = "call" /\ said[k + 1].parts # <<>>}
  BY <1>1 DEF CodexTracks
<1>6. /\ t = [saw |-> t.saw, sent |-> t.sent]
      /\ t.saw = st.saw /\ t.sent = st.sent \cup {at}
  BY <1>5, SentIs
<1>7. next[i].parts # <<>>
  <2>1. Len(args) > 0 /\ Len(said[i].parts \o args) = Len(said[i].parts) + Len(args)
    BY <1>2
  <2>2. Len(next[i].parts) > 0
    BY <1>2, <2>1
  <2>. QED
    BY <2>2
<1>8. t.sent = {k \in Places(next) : next[k + 1].kind = "call" /\ next[k + 1].parts # <<>>}
  <2>1. Places(next) = Places(said) /\ at \in Places(said) /\ at + 1 = i
    BY <1>2, <1>3 DEF Places
  <2>2. \A k \in Places(said) : k # at => k + 1 \in 1..Len(said) /\ k + 1 # i
    BY <1>2, <1>3 DEF Places
  <2>. HIDE DEF at
  <2>3. \A k \in Places(said) : k # at => next[k + 1] = said[k + 1]
    BY <1>2, <2>2
  <2>4. next[at + 1].kind = "call" /\ next[at + 1].parts # <<>>
    BY <1>2, <1>7, <2>1
  <2>. QED
    BY <1>5, <1>6, <2>1, <2>3, <2>4
<1>9. ASSUME NEW y, Tracks("codex", said, st, x), CallKeys(y.items) = CallKeys(x.items),
             CallCount(y.items) = CallCount(x.items)
      PROVE  Tracks("codex", next, t, y)
  <2>1. t.saw = (CallCount(next) # 0) /\ CallKeys(y.items) = CallKeys(next)
    BY <1>4, <1>5, <1>6, <1>9
  <2>2. CodexTracks(next, t, y)
    BY <1>6, <1>8, <2>1 DEF CodexTracks
  <2>. QED
    BY <2>2 DEF Tracks
<1>10. Faithful("codex")
  BY DEF Faithful
<1>. HIDE DEF at
<1>11. <<at, said[i].id>> \in CallKeys(x.items) /\ f = Call(at, 0, args)
  BY <1>4, <1>5 DEF at
<1>. QED
  BY <1>3, <1>9, <1>10, <1>11, MovesMore

LEMMA MovesArgumentsCodex ==
  ASSUME NEW said, NEW st, NEW x, Says("codex", said, "none", st, x), NEW i, NEW args, args # <<>>,
         NEW next, MoreOf(said, i, args, next),
         NEW e, e = [ev |-> "arguments_delta", at |-> said[i].at, args |-> args]
  PROVE  Moves("codex", next, "none", x, ChunkOf("codex", st, e), {})
<1>. DEFINE at == said[i].at
<1>. DEFINE t == [st EXCEPT !.sent = @ \cup {at}]
<1>. DEFINE f == Call(at, 0, args)
<1>1. e.ev = "arguments_delta" /\ e.at = at /\ e.args = args
  OBVIOUS
<1>2. Moves("codex", next, "none", x, Emits(t, <<f>>), {})
  BY MovesMoreCodex
<1>. HIDE DEF at
<1>3. ChunkOf("codex", st, e) = Emits(t, <<f>>)
  BY <1>1 DEF ChunkOf, CodexChunk
<1>. QED
  BY <1>2, <1>3

-----------------------------------------------------------------------------
(* Nothing is said that was not. *)
Same(said, next) ==
  /\ next \in Seq(Items) /\ Len(next) = Len(said)
  /\ \A i \in 1..Len(said) : /\ next[i].kind = said[i].kind /\ next[i].id = said[i].id
                             /\ next[i].at = said[i].at /\ next[i].parts = said[i].parts

LEMMA MovesSame ==
  ASSUME NEW shape, NEW said, NEW st, NEW x, Says(shape, said, "none", st, x), NEW next, Same(said, next)
  PROVE  Says(shape, next, "none", st, x)
<1>1. SaidIn(shape, said) /\ said \in Seq(Items) /\ Numbered(said)
  BY DEF Says, SaidIn
<1>2. /\ next \in Seq(Items) /\ Len(next) = Len(said)
      /\ \A i \in 1..Len(said) : next[i].kind = said[i].kind /\ next[i].id = said[i].id
      /\ \A i \in 1..Len(said) : next[i].at = said[i].at /\ next[i].parts = said[i].parts
  BY DEF Same
<1>3. Content(next) = Content(said) /\ Numbered(next)
  BY <1>1, <1>2, ContentSame
<1>4. CallCount(next) = CallCount(said)
  BY <1>1, <1>2, <1>3, SameCount
<1>5. CallKeys(next) = CallKeys(said)
  BY <1>2 DEF CallKeys
<1>6. SaidIn(shape, next)
  BY <1>1, <1>2, <1>3, <1>4, <1>5 DEF SaidIn, Placed
<1>7. Places(next) = Places(said) /\ \A k \in Places(said) : k + 1 \in 1..Len(said)
  BY <1>1, <1>2 DEF Places
<1>8. CodexTracks(said, st, x) => CodexTracks(next, st, x)
  BY <1>2, <1>4, <1>5, <1>7 DEF CodexTracks
<1>9. GenerateTracks(said, st, x) => GenerateTracks(next, st, x)
  BY <1>4 DEF GenerateTracks
<1>10. ClaudeTracks(said, st, x) => ClaudeTracks(next, st, x)
  BY <1>2, <1>4, <1>7 DEF ClaudeTracks
<1>11. Tracks(shape, next, st, x)
  BY <1>8, <1>9, <1>10 DEF Tracks, Says
<1>. QED
  BY <1>3, <1>6, <1>11 DEF Says

FilledItem(x, args, open) == [x EXCEPT !.parts = args, !.open = open]

LEMMA ItemFilled ==
  ASSUME NEW x \in Items, NEW args \in Seq(Nat), NEW open \in BOOLEAN,
         NEW y, y = FilledItem(x, args, open)
  PROVE  /\ y \in Items /\ y.at = x.at /\ y.kind = x.kind /\ y.id = x.id /\ y.parts = args
<1>1. /\ x = [at |-> x.at, kind |-> x.kind, id |-> x.id, parts |-> x.parts, open |-> x.open]
      /\ x.at \in Int /\ x.kind \in {"text", "call"} /\ x.id \in Nat
  BY ItemParts
<1>2. y = [at |-> x.at, kind |-> x.kind, id |-> x.id, parts |-> args, open |-> open]
  BY <1>1 DEF FilledItem
<1>. QED
  BY <1>1, <1>2 DEF Items

LEMMA FilledIs ==
  ASSUME NEW items \in Seq(Items), NEW k \in 1..Len(items), NEW args \in Seq(Nat), NEW open \in BOOLEAN,
         NEW b, b = Filled(items, k, args, open)
  PROVE  /\ b \in Seq(Items) /\ Len(b) = Len(items) /\ b[k].parts = args
         /\ \A i \in 1..Len(items) : i # k => b[i] = items[i]
         /\ \A i \in 1..Len(items) : /\ b[i].at = items[i].at /\ b[i].kind = items[i].kind
                                      /\ b[i].id = items[i].id
<1>1. items[k] \in Items
  OBVIOUS
<1>. DEFINE x == items[k]
<1>. DEFINE y == FilledItem(x, args, open)
<1>4. y \in Items /\ y.at = x.at /\ y.kind = x.kind /\ y.id = x.id /\ y.parts = args
  <2>1. x \in Items
    BY <1>1
  <2>2. y = FilledItem(x, args, open)
    OBVIOUS
  <2>. HIDE DEF x, y
  <2>. QED
    BY <2>1, <2>2, ItemFilled
<1>5. b = [items EXCEPT ![k] = y]
  BY DEF Filled, FilledItem
<1>. HIDE DEF y
<1>6. /\ b \in Seq(Items) /\ Len(b) = Len(items) /\ b[k] = y
      /\ \A i \in 1..Len(items) : i # k => b[i] = items[i]
  BY <1>4, <1>5
<1>7. /\ b[k].at = items[k].at /\ b[k].kind = items[k].kind /\ b[k].id = items[k].id
      /\ b[k].parts = args
  BY <1>4, <1>6
<1>. QED
  BY <1>6, <1>7

(* Codex closes a call with its full arguments. *)
LEMMA MovesDoneCodex ==
  ASSUME NEW said, NEW st, NEW x, Says("codex", said, "none", st, x),
         NEW i \in 1..Len(said), said[i].kind = "call", NEW full \in Seq(Nat),
         said[i].parts # <<>> => full = said[i].parts,
         NEW open \in BOOLEAN, NEW next, next = Filled(said, i, full, open),
         NEW ev \in {"arguments_done", "item_done"},
         NEW e, e = [ev |-> ev, at |-> said[i].at, args |-> full]
  PROVE  Moves("codex", next, "none", x, ChunkOf("codex", st, e), {})
<1>. DEFINE at == said[i].at
<1>1. e.ev = ev /\ e.at = at /\ e.args = full
  OBVIOUS
<1>2. said \in Seq(Items) /\ CodexTracks(said, st, x) /\ Placed(said)
  BY DEF Says, SaidIn, Tracks
<1>3. /\ next \in Seq(Items) /\ Len(next) = Len(said) /\ next[i].parts = full
      /\ \A j \in 1..Len(said) : j # i => next[j] = said[j]
      /\ \A j \in 1..Len(said) : /\ next[j].at = said[j].at /\ next[j].kind = said[j].kind
                                 /\ next[j].id = said[j].id
  BY <1>2, FilledIs
<1>4. at = i - 1 /\ at \in Places(said) /\ at + 1 = i
  BY <1>2 DEF Placed, Places
<1>5. at \in st.sent <=> said[i].parts # <<>>
  BY <1>2, <1>4 DEF CodexTracks
<1>. HIDE DEF at
<1>6. CASE full = <<>> \/ at \in st.sent
  <2>1. full = said[i].parts
    BY <1>5, <1>6
  <2>2. Same(said, next)
    BY <1>3, <2>1 DEF Same
  <2>3. Says("codex", next, "none", st, x)
    BY <2>2, MovesSame
  <2>4. ChunkOf("codex", st, e) = Emits(st, <<>>)
    BY <1>1, <1>6 DEF ChunkOf, CodexChunk, ArgumentsKnown
  <2>. QED
    BY <2>3, <2>4, MovesNot
<1>7. CASE ~(full = <<>> \/ at \in st.sent)
  <2>. DEFINE t == [st EXCEPT !.sent = @ \cup {at}]
  <2>. DEFINE f == Call(at, 0, full)
  <2>1. said[i].parts = <<>> /\ full # <<>> /\ <<>> \o full = full
    BY <1>5, <1>7
  <2>2. MoreOf(said, i, full, next)
    BY <1>3, <2>1 DEF MoreOf, Longer
  <2>3. Moves("codex", next, "none", x, Emits(t, <<f>>), {})
    BY <2>1, <2>2, MovesMoreCodex DEF at
  <2>4. ChunkOf("codex", st, e) = Emits(t, <<f>>)
    BY <1>1, <1>7 DEF ChunkOf, CodexChunk, ArgumentsKnown
  <2>. QED
    BY <2>3, <2>4
<1>. QED
  BY <1>6, <1>7

-----------------------------------------------------------------------------
(* Blocks of a Messages reply. *)
IsOpenAi(st) == DOMAIN st = {"kinds", "tools", "next"}

LEMMA KindIs ==
  ASSUME NEW st, IsOpenAi(st), NEW at, NEW t, t = [st EXCEPT !.kinds = With(@, at, "text")]
  PROVE  IsOpenAi(t) /\ t.kinds = With(st.kinds, at, "text") /\ t.tools = st.tools /\ t.next = st.next
<1>. DEFINE w == With(st.kinds, at, "text")
<1>1. t = [st EXCEPT !.kinds = w]
  OBVIOUS
<1>. HIDE DEF w
<1>2. IsOpenAi(t) /\ t.kinds = w /\ t.tools = st.tools /\ t.next = st.next
  BY <1>1 DEF IsOpenAi
<1>. QED
  BY <1>2 DEF w

LEMMA MovesOpenText ==
  ASSUME NEW shape \in {"http_anthropic", "cc_messages"}, NEW said, NEW st, NEW x,
         Says(shape, said, "none", st, x), NEW n, n = Len(said),
         NEW next, next = Append(said, Item(n, "text", 0, <<>>)),
         NEW e, e = Open(n, "text", 0)
  PROVE  Moves(shape, next, "none", x, ChunkOf(shape, st, e), {})
<1>. DEFINE none == <<>>
<1>. DEFINE c == Item(n, "text", 0, none)
<1>. DEFINE t == [st EXCEPT !.kinds = With(@, n, "text")]
<1>1. ChunkOf(shape, st, e) = Emits(t, <<>>)
  <2>1. e.d = "open" /\ e.kind = "text" /\ e.at = n
    BY DEF Open
  <2>2. ClaudeChunk(st, e) = Emits(t, <<>>)
    BY <2>1 DEF ClaudeChunk
  <2>. QED
    BY <2>2 DEF ChunkOf
<1>2. /\ SaidIn(shape, said) /\ said \in Seq(Items) /\ n \in Nat /\ n \in Int /\ Placed(said)
      /\ Numbered(said) /\ ClaudeTracks(said, st, x) /\ Content(x.items) = Content(said)
      /\ Whole("chat", x) /\ Numbered(x.items) /\ x.why = "none" /\ none \in Seq(Nat)
  BY DEF Says, SaidIn, Tracks, Faithful
<1>3. c \in Items /\ c.at = n /\ c.kind = "text" /\ c.parts = none
  <2>1. n \in Int /\ none \in Seq(Nat)
    BY <1>2
  <2>. HIDE DEF none, t
  <2>. QED
    BY <2>1 DEF Item, Items
<1>4. next = Append(said, c)
  OBVIOUS
<1>. HIDE DEF c, t
<1>5. Numbered(next) /\ Content(next) = TextMore(Content(said), none) /\ CallKeys(next) = CallKeys(said)
  <2>. HIDE DEF none
  <2>. QED
    BY <1>2, <1>3, <1>4, ContentAppend, KeysAppend
<1>6. Content(next) = Content(said)
  <2>1. /\ Content(said) = [spoken |-> Content(said).spoken, args |-> Content(said).args]
        /\ Content(said).spoken \in Seq(Nat)
    BY <1>2, ContentTyped
  <2>2. Content(said).spoken \o none = Content(said).spoken
    BY <2>1
  <2>. QED
    BY <1>5, <2>1, <2>2 DEF TextMore
<1>. HIDE DEF none
<1>7. /\ next \in Seq(Items) /\ Len(next) = n + 1 /\ next[n + 1] = c
      /\ \A i \in 1..n : next[i] = said[i]
      /\ \A i \in 1..Len(next) : i \in 1..n \/ i = n + 1
  BY <1>2, <1>3, <1>4
<1>8. CallCount(next) = CallCount(said)
  BY <1>2, <1>6, <1>7, SameCount
<1>9. SaidIn(shape, next)
  <2>1. Placed(next)
    BY <1>2, <1>3, <1>7 DEF Placed
  <2>. QED
    BY <1>5, <1>7, <2>1 DEF SaidIn
<1>10. /\ Places(next) = Places(said) \cup {n} /\ n \notin Places(said)
       /\ \A at \in Places(said) : at + 1 \in 1..n
  BY <1>2, <1>7, PlacesGrow
<1>11. ClaudeTracks(next, t, x)
  <2>1. IsOpenAi(t) /\ t.kinds = With(st.kinds, n, "text") /\ t.tools = st.tools /\ t.next = st.next
    BY <1>2, KindIs DEF t, ClaudeTracks, IsOpenAi
  <2>2. DOMAIN t.kinds = DOMAIN st.kinds \cup {n} /\ t.kinds[n] = "text"
    BY <2>1 DEF With
  <2>3. \A at \in DOMAIN st.kinds : at # n => t.kinds[at] = st.kinds[at]
    BY <2>1 DEF With
  <2>4. DOMAIN st.kinds = Places(said) /\ \A at \in Places(said) : st.kinds[at] = said[at + 1].kind
    BY <1>2 DEF ClaudeTracks
  <2>5. DOMAIN t.kinds = Places(next) /\ \A at \in Places(next) : t.kinds[at] = next[at + 1].kind
    BY <1>3, <1>7, <1>10, <2>2, <2>3, <2>4
  <2>6. /\ DOMAIN st.tools = {at \in Places(said) : said[at + 1].kind = "call"}
        /\ \A at \in Places(said) : said[at + 1].kind = "call" => st.tools[at] = said[at + 1].id - 1
    BY <1>2 DEF ClaudeTracks
  <2>7. /\ DOMAIN t.tools = {at \in Places(next) : next[at + 1].kind = "call"}
        /\ \A at \in Places(next) : next[at + 1].kind = "call" => t.tools[at] = next[at + 1].id - 1
    BY <1>3, <1>7, <1>10, <2>1, <2>6
  <2>8. DOMAIN t = {"kinds", "tools", "next"} /\ CallKeys(x.items) = ByRank(CallCount(x.items))
        /\ t.next = CallCount(next)
    BY <1>2, <1>8, <2>1 DEF ClaudeTracks, IsOpenAi
  <2>. QED
    BY <2>5, <2>7, <2>8 DEF ClaudeTracks
<1>12. Says(shape, next, "none", t, x)
  BY <1>2, <1>6, <1>9, <1>11 DEF Says, Tracks
<1>. QED
  BY <1>1, <1>12, MovesNot

LEMMA MovesOpenCall ==
  ASSUME NEW shape \in {"http_anthropic", "cc_messages"}, NEW said, NEW st, NEW x,
         Says(shape, said, "none", st, x), NEW n, n = Len(said), NEW id, id = CallCount(said) + 1,
         NEW next, next = Append(said, Item(n, "call", id, <<>>)),
         NEW e, e = Open(n, "call", id)
  PROVE  Moves(shape, next, "none", x, ChunkOf(shape, st, e), {})
<1>. DEFINE none == <<>>
<1>. DEFINE c == Item(n, "call", id, none)
<1>. DEFINE t == [kinds |-> With(st.kinds, n, "call"), tools |-> With(st.tools, n, st.next),
                  next |-> st.next + 1]
<1>. DEFINE at0 == st.next
<1>. DEFINE f == Call(at0, id, none)
<1>. DEFINE y == Hear("chat", x, f)
<1>1. ChunkOf(shape, st, e) = Emits(t, <<f>>)
  <2>1. e.d = "open" /\ e.kind = "call" /\ e.at = n /\ e.id = id
    BY DEF Open
  <2>2. ClaudeChunk(st, e) = Emits(t, <<f>>)
    BY <2>1 DEF ClaudeChunk
  <2>. QED
    BY <2>2 DEF ChunkOf
<1>2. /\ SaidIn(shape, said) /\ said \in Seq(Items) /\ n \in Nat /\ n \in Int /\ Placed(said)
      /\ Numbered(said) /\ ClaudeTracks(said, st, x) /\ Content(x.items) = Content(said)
      /\ Whole("chat", x) /\ Numbered(x.items) /\ x.why = "none" /\ none \in Seq(Nat)
      /\ CallCount(said) \in Nat /\ x.items \in Seq(Items) /\ id \in Nat
  BY CountTyped DEF Says, SaidIn, Tracks, Faithful, Whole, Good
<1>3. c \in Items /\ c.at = n /\ c.kind = "call" /\ c.id = id /\ c.parts = none
  <2>1. c = Item(n, "call", id, none)
    OBVIOUS
  <2>. HIDE DEF c, none
  <2>. QED
    BY <1>2, <2>1, CallItemIs
<1>4. next = Append(said, c)
  OBVIOUS
<1>. HIDE DEF c, t, none, f, y, at0
<1>5. NewCall(shape, said, c)
  BY <1>3 DEF NewCall
<1>6. CallSaid(shape, said, c, next)
  BY <1>2, <1>4, <1>5, SaidCall
<1>7. /\ SaidIn(shape, next) /\ Content(next) = CallNew(Content(said), none)
      /\ CallCount(next) = CallCount(said) + 1
      /\ next \in Seq(Items) /\ Len(next) = n + 1 /\ next[n + 1] = c
      /\ \A i \in 1..n : next[i] = said[i]
  BY <1>3, <1>6 DEF CallSaid
<1>8. CallCount(x.items) = CallCount(said) /\ CallKeys(x.items) = ByRank(CallCount(said))
  BY <1>2, SameCount DEF ClaudeTracks
<1>9. at0 = CallCount(said) /\ at0 \in Nat /\ \A k : <<at0, k>> \notin CallKeys(x.items)
  BY <1>2, <1>8, ByRankGrows DEF ClaudeTracks, at0
<1>10. /\ f \in Frames /\ Fits("chat", x.items, x.why, f) /\ {UsageIn(f)} \ {NoBill} = {}
       /\ Whole("chat", y) /\ Numbered(y.items) /\ y.why = "none"
       /\ CallKeys(y.items) = CallKeys(x.items) \cup {<<at0, id>>}
       /\ Content(y.items) = CallNew(Content(x.items), none)
       /\ CallCount(y.items) = CallCount(x.items) + 1
  BY <1>2, <1>8, <1>9, NewChunk DEF f, y
<1>11. CallKeys(y.items) = ByRank(CallCount(y.items))
  BY <1>2, <1>8, <1>9, <1>10, ByRankGrows
<1>12. /\ Places(next) = Places(said) \cup {n} /\ n \notin Places(said)
       /\ \A at \in Places(said) : at + 1 \in 1..n
  BY <1>2, <1>7, PlacesGrow
<1>13. ClaudeTracks(next, t, y)
  <2>1. /\ DOMAIN t = {"kinds", "tools", "next"} /\ t.kinds = With(st.kinds, n, "call")
        /\ t.tools = With(st.tools, n, at0) /\ t.next = at0 + 1
    BY DEF t, at0
  <2>2. DOMAIN t.kinds = DOMAIN st.kinds \cup {n} /\ t.kinds[n] = "call"
    BY <2>1 DEF With
  <2>3. \A at \in DOMAIN st.kinds : at # n => t.kinds[at] = st.kinds[at]
    BY <2>1 DEF With
  <2>4. DOMAIN st.kinds = Places(said) /\ \A at \in Places(said) : st.kinds[at] = said[at + 1].kind
    BY <1>2 DEF ClaudeTracks
  <2>5. DOMAIN t.kinds = Places(next) /\ \A at \in Places(next) : t.kinds[at] = next[at + 1].kind
    BY <1>3, <1>7, <1>12, <2>2, <2>3, <2>4
  <2>6. /\ DOMAIN st.tools = {at \in Places(said) : said[at + 1].kind = "call"}
        /\ \A at \in Places(said) : said[at + 1].kind = "call" => st.tools[at] = said[at + 1].id - 1
    BY <1>2 DEF ClaudeTracks
  <2>7. DOMAIN t.tools = DOMAIN st.tools \cup {n} /\ t.tools[n] = at0
    BY <2>1 DEF With
  <2>8. \A at \in DOMAIN st.tools : at # n => t.tools[at] = st.tools[at]
    BY <2>1 DEF With
  <2>9. DOMAIN t.tools = {at \in Places(next) : next[at + 1].kind = "call"}
    BY <1>3, <1>7, <1>12, <2>6, <2>7
  <2>10. \A at \in Places(next) : next[at + 1].kind = "call" => t.tools[at] = next[at + 1].id - 1
    <3>1. at0 = id - 1
      BY <1>2, <1>9
    <3>. QED
      BY <1>3, <1>7, <1>12, <2>6, <2>7, <2>8, <3>1
  <2>11. t.next = CallCount(next)
    BY <1>7, <1>9, <2>1
  <2>. QED
    BY <1>11, <2>1, <2>5, <2>9, <2>10, <2>11 DEF ClaudeTracks
<1>14. Says(shape, next, "none", t, y)
  <2>1. Content(y.items) = Content(next)
    BY <1>2, <1>7, <1>10
  <2>. QED
    BY <1>7, <1>10, <1>13, <2>1 DEF Says, Tracks
<1>15. Moves(shape, next, "none", x, Emits(t, <<f>>), {})
  BY <1>2, <1>10, <1>14, MovesOne DEF y
<1>. QED
  BY <1>1, <1>15

LEMMA MovesClose ==
  ASSUME NEW shape \in {"http_anthropic", "cc_messages"}, NEW said, NEW st, NEW x,
         Says(shape, said, "none", st, x), NEW i \in 1..Len(said),
         NEW e, e = Close(i - 1)
  PROVE  Moves(shape, Shut(said, i), "none", x, ChunkOf(shape, st, e), {})
<1>1. ChunkOf(shape, st, e) = Emits(st, <<>>)
  <2>1. e.d = "close"
    BY DEF Close
  <2>. QED
    BY <2>1 DEF ChunkOf, ClaudeChunk
<1>2. said \in Seq(Items)
  BY DEF Says, SaidIn
<1>. DEFINE next == Shut(said, i)
<1>. HIDE DEF next
<1>3. Same(said, next)
  <2>1. /\ next \in Seq(Items) /\ Len(next) = Len(said)
        /\ \A j \in 1..Len(said) : /\ next[j].at = said[j].at /\ next[j].kind = said[j].kind
                                   /\ next[j].id = said[j].id /\ next[j].parts = said[j].parts
    BY <1>2, ShutIs DEF next
  <2>. QED
    BY <2>1 DEF Same
<1>4. Says(shape, next, "none", st, x)
  BY <1>3, MovesSame
<1>5. Moves(shape, next, "none", x, ChunkOf(shape, st, e), {})
  BY <1>1, <1>4, MovesNot
<1>. QED
  BY <1>5 DEF next

-----------------------------------------------------------------------------
(* The reply ends: the word and the bill. *)
LEMMA TracksStay ==
  ASSUME NEW shape, NEW said \in Seq(Items), NEW st, NEW x, NEW y, Tracks(shape, said, st, x),
         CallKeys(y.items) = CallKeys(x.items), CallCount(y.items) = CallCount(x.items)
  PROVE  Tracks(shape, said, st, y)
BY DEF Tracks, CodexTracks, GenerateTracks, ClaudeTracks

LEMMA MovesEnd ==
  ASSUME NEW shape, NEW said, NEW st, NEW x, Says(shape, said, "none", st, x),
         NEW why, why # "none", NEW word \in Whys \ {"none"}, Ends(shape, said, why, word),
         NEW u \in Usage
  PROVE  Moves(shape, said, why, x, Emits(st, <<Finish(word, u)>>), {UsageOf(u)} \ {NoBill})
<1>. DEFINE f == Finish(word, u)
<1>. DEFINE y == Hear("chat", x, f)
<1>1. f \in Frames /\ f.d = "finish" /\ f.why = word /\ UsageIn(f) = UsageOf(u)
  BY FramesMade, FramesBill DEF Finish
<1>2. /\ SaidIn(shape, said) /\ said \in Seq(Items) /\ Whole("chat", x) /\ Numbered(x.items)
      /\ x.why = "none" /\ Tracks(shape, said, st, x) /\ x.items \in Seq(Items)
  BY DEF Says, SaidIn, Whole, Good
<1>. HIDE DEF f
<1>3. Fits("chat", x.items, x.why, f)
  BY <1>1, <1>2 DEF Fits, FitsChat
<1>4. /\ Numbered(y.items) /\ CallKeys(y.items) = CallKeys(x.items) /\ y.why = word
      /\ Content(y.items) = Content(x.items)
  BY <1>1, <1>2, ChatFinish
<1>5. Whole("chat", y)
  BY <1>2, <1>3, WholeHears
<1>. HIDE DEF y
<1>6. CallCount(y.items) = CallCount(x.items)
  BY <1>2, <1>4, <1>5, SameCount DEF Whole, Good
<1>7. Tracks(shape, said, st, y)
  BY <1>2, <1>4, <1>6, TracksStay
<1>8. Says(shape, said, why, st, y)
  BY <1>2, <1>4, <1>5, <1>7 DEF Says
<1>. DEFINE bills == {UsageIn(f)} \ {NoBill}
<1>9. bills = {UsageOf(u)} \ {NoBill}
  BY <1>1
<1>. DEFINE a == Emits(st, <<f>>)
<1>. HIDE DEF bills
<1>10. Moves(shape, said, why, x, Emits(st, <<f>>), bills)
  BY <1>1, <1>2, <1>3, <1>8, MovesOne DEF y, bills
<1>. QED
  BY <1>9, <1>10 DEF f

BillCounted == Bill(FALSE)
BillApart == Bill(TRUE)
First == UsageOf(FirstBill)
LastPart == UsageOf(ReplyBill)

(* A bill as the translation from Messages events leaves it. *)
LEMMA BillConverts ==
  ASSUME NEW u \in Usages
  PROVE  /\ OpenaiUsageFromClaude(u).apart = FALSE
         /\ u.apart => /\ OpenaiUsageFromClaude(u) \in Usage
                       /\ UsageOf(OpenaiUsageFromClaude(u)) = UsageOf(u)
         /\ u.cached = 0 => /\ OpenaiUsageFromClaude(u) \in Usage
                            /\ UsageOf(OpenaiUsageFromClaude(u)) = UsageOf(u)
<1>. DEFINE v == OpenaiUsageFromClaude(u)
<1>1. /\ u = [input |-> u.input, cached |-> u.cached, output |-> u.output, apart |-> u.apart]
      /\ u.input \in Nat /\ u.cached \in Nat /\ u.output \in Nat /\ u.apart \in BOOLEAN
  BY DEF Usages
<1>. DEFINE n == u.input + u.cached
<1>2. n \in Nat /\ u.cached <= n /\ (u.cached = 0 => n = u.input)
  BY <1>1
<1>3. v = [u EXCEPT !.input = n, !.apart = FALSE]
  BY DEF OpenaiUsageFromClaude
<1>. HIDE DEF v
<1>4. v = [input |-> n, cached |-> u.cached, output |-> u.output, apart |-> FALSE]
  BY <1>1, <1>3
<1>5. UsageOf(u) = [input |-> IF u.apart THEN n ELSE u.input, cached |-> u.cached, output |-> u.output]
  BY DEF UsageOf
<1>. HIDE DEF n
<1>6. v \in Usage
  BY <1>1, <1>2, <1>4 DEF Usage, Usages
<1>7. UsageOf(v) = [input |-> n, cached |-> u.cached, output |-> u.output]
  BY <1>4 DEF UsageOf
<1>8. v.apart = FALSE
  BY <1>4
<1>. QED
  BY <1>1, <1>2, <1>5, <1>6, <1>7, <1>8 DEF v

LEMMA BillIs ==
  /\ BillCounted \in Usage /\ BillApart \in Usage /\ NoUsage \in Usage
  /\ FirstBill \in Usage /\ ReplyBill \in Usage
  /\ UsageOf(BillCounted) = [input |-> 3, cached |-> 1, output |-> 2]
  /\ UsageOf(BillApart) = [input |-> 3, cached |-> 1, output |-> 2]
  /\ First = [input |-> 3, cached |-> 1, output |-> 1]
  /\ LastPart = [input |-> 0, cached |-> 0, output |-> 2]
<1>1. BillCounted = [input |-> 3, cached |-> 1, output |-> 2, apart |-> FALSE]
  BY DEF BillCounted, Bill
<1>2. BillApart = [input |-> 2, cached |-> 1, output |-> 2, apart |-> TRUE]
  BY DEF BillApart, Bill
<1>3. BillCounted \in Usage /\ BillApart \in Usage /\ NoUsage \in Usage
  BY <1>1, <1>2 DEF Usage, Usages, NoUsage
<1>4. FirstBill \in Usage /\ ReplyBill \in Usage
  BY DEF FirstBill, ReplyBill, Usage, Usages
<1>5. UsageOf(BillCounted) = [input |-> 3, cached |-> 1, output |-> 2]
  BY <1>1 DEF UsageOf
<1>6. UsageOf(BillApart) = [input |-> 3, cached |-> 1, output |-> 2]
  BY <1>2 DEF UsageOf
<1>7. First = [input |-> 3, cached |-> 1, output |-> 1]
  BY DEF First, FirstBill, UsageOf
<1>8. LastPart = [input |-> 0, cached |-> 0, output |-> 2]
  BY DEF LastPart, ReplyBill, UsageOf
<1>. QED
  BY <1>3, <1>4, <1>5, <1>6, <1>7, <1>8

LEMMA BillsConverted ==
  ASSUME NEW u \in {BillApart, ReplyBill}
  PROVE  /\ u \in Usage /\ OpenaiUsageFromClaude(u) \in Usage
         /\ UsageOf(OpenaiUsageFromClaude(u)) = UsageOf(u)
<1>1. u \in Usage /\ u \in Usages
  BY BillIs DEF Usage
<1>2. u.apart \/ u.cached = 0
  BY DEF BillApart, Bill, ReplyBill
<1>. QED
  BY <1>1, <1>2, BillConverts

LEMMA TwoIs ==
  ASSUME NEW S, NEW f \in S, NEW g \in S
  PROVE  <<f>> \o <<g>> = <<f, g>>
<1>. DEFINE t == <<f>> \o <<g>>
<1>1. <<f>> \in Seq(S) /\ <<g>> \in Seq(S) /\ Len(<<f>>) = 1 /\ Len(<<g>>) = 1
  OBVIOUS
<1>2. t \in Seq(S) /\ Len(t) = 2 /\ t[1] = f /\ t[2] = g
  BY <1>1
<1>. HIDE DEF t
<1>3. t = <<f, g>>
  BY <1>2
<1>. QED
  BY <1>3 DEF t

(* What the upstream says at its end, and what it bills with it. *)
ChatWord(said, why) == IF why = "length" THEN "length"
                       ELSE IF CallCount(said) # 0 THEN "tool_calls" ELSE "stop"
Billing(shape, why, bill) ==
  /\ bill \in {"whole", "split", "none", "apart"}
  /\ bill = "split" => shape \in {"http_anthropic", "cc_messages"}
  /\ bill = "none" => shape \in {"http_openai", "cc_chat"}
  /\ bill = "apart" <=> shape = "codex" /\ why = "length"
FinishUsage(shape, bill) ==
  CASE bill = "whole" -> IF shape \in {"http_anthropic", "cc_messages"} THEN BillApart ELSE BillCounted
    [] bill = "split" -> ReplyBill
    [] OTHER -> NoUsage
FinishEvent(shape, why, word, u) ==
  CASE shape = "codex" /\ why = "whole" -> [ev |-> "completed", usage |-> u]
    [] shape = "codex" /\ why = "length" -> [ev |-> "incomplete"]
    [] shape = "cc_generate" -> [ev |-> "finish", usage |-> u,
                                 why |-> IF word = "stop" THEN "none" ELSE word]
    [] shape \in {"http_openai", "cc_chat"} -> Finish(word, u)
    [] shape \in {"http_anthropic", "cc_messages"} -> Why(FinishToStopReason(word), u)

LEMMA FinishUsageIs ==
  ASSUME NEW shape, NEW why, NEW bill, Billing(shape, why, bill), NEW u, u = FinishUsage(shape, bill)
  PROVE  /\ u \in Usage
         /\ shape \in {"http_anthropic", "cc_messages"} => u \in {BillApart, ReplyBill}
         /\ bill = "apart" => u = NoUsage
<1>1. bill \in {"whole", "split", "none", "apart"}
  BY DEF Billing
<1>. QED
  BY <1>1, BillIs DEF Billing, FinishUsage

LEMMA NoToolsNoCalls ==
  ASSUME NEW said \in Seq(Items), Numbered(said), CallCount(said) = 0
  PROVE  \A i \in 1..Len(said) : said[i].kind # "call"
BY DEF Numbered, CallCount

LEMMA MovesFinish ==
  ASSUME NEW shape \in Shapes, NEW said, NEW st, NEW x, Says(shape, said, "none", st, x),
         NEW why \in {"whole", "length"}, NEW bill, Billing(shape, why, bill),
         NEW u, u = FinishUsage(shape, bill), NEW e, e = FinishEvent(shape, why, ChatWord(said, why), u)
  PROVE  Moves(shape, said, why, x, ChunkOf(shape, st, e), {UsageOf(u)} \ {NoBill})
<1>0. SaidIn(shape, said) /\ said \in Seq(Items) /\ Numbered(said) /\ CallCount(said) \in Nat
  BY CountTyped DEF Says, SaidIn
<1>. DEFINE word == ChatWord(said, why)
<1>. DEFINE bills == {UsageOf(u)} \ {NoBill}
<1>a. /\ u \in Usage
      /\ shape \in {"http_anthropic", "cc_messages"} => u \in {BillApart, ReplyBill}
      /\ bill = "apart" => u = NoUsage
  BY FinishUsageIs
<1>1. word \in {"length", "tool_calls", "stop"} /\ (why = "length" <=> word = "length")
      /\ word # "none"
  BY DEF ChatWord
<1>. HIDE DEF word, bills
<1>2. CASE shape = "codex" /\ why = "whole"
  <2>. DEFINE got == IF st.saw THEN "tool_calls" ELSE "stop"
  <2>1. ChunkOf(shape, st, e) = Emits(st, <<Finish(got, u)>>)
    <3>1. e = [ev |-> "completed", usage |-> u]
      BY <1>2 DEF FinishEvent
    <3>2. e.ev = "completed" /\ e.usage = u
      BY <3>1
    <3>. QED
      BY <1>2, <3>2 DEF ChunkOf, CodexChunk
  <2>2. got \in Whys \ {"none"} /\ Ends(shape, said, why, got)
    BY <1>2 DEF Whys, Ends
  <2>. HIDE DEF got
  <2>4. Moves(shape, said, why, x, Emits(st, <<Finish(got, u)>>), {UsageOf(u)} \ {NoBill})
    <3>1. why # "none"
      OBVIOUS
    <3>. QED
      BY <1>a, <2>2, <3>1, MovesEnd
  <2>. QED
    BY <2>1, <2>4 DEF bills
<1>3. CASE shape = "codex" /\ why = "length"
  <2>1. ChunkOf(shape, st, e) = Emits(st, <<>>)
    <3>1. e.ev = "incomplete"
      BY <1>3 DEF FinishEvent
    <3>. QED
      BY <1>3, <3>1 DEF ChunkOf, CodexChunk
  <2>2. bills = {}
    BY <1>3, <1>a DEF bills, Billing, NoBill
  <2>3. Says(shape, said, why, st, x)
    <3>1. Ends(shape, said, why, x.why)
      BY <1>3 DEF Ends
    <3>2. why # "none"
      BY <1>3
    <3>. QED
      BY <3>1, <3>2 DEF Says
  <2>4. Road("chat", x, <<>>, x) /\ Billed(<<>>) = {}
    BY RoadNone, FreeOnes, FreeBills
  <2>7. Kept(<<>>) = {}
    BY <2>4, KeptBilled
  <2>5. Emits(st, <<>>).st = st /\ Emits(st, <<>>).out = <<>>
    BY EmitsIs
  <2>6. Moves(shape, said, why, x, Emits(st, <<>>), {})
    BY <2>3, <2>4, <2>5, <2>7 DEF Moves
  <2>. QED
    BY <2>1, <2>2, <2>6 DEF bills
<1>4. CASE shape = "cc_generate"
  <2>. DEFINE got == IF word = "stop" THEN IF st.saw THEN "tool_calls" ELSE "stop" ELSE word
  <2>1. ChunkOf(shape, st, e) = Emits(st, <<Finish(got, u)>>)
    <3>1. e = [ev |-> "finish", usage |-> u, why |-> IF word = "stop" THEN "none" ELSE word]
      BY <1>4 DEF FinishEvent, word
    <3>2. e.ev = "finish" /\ e.usage = u /\ e.why = IF word = "stop" THEN "none" ELSE word
      BY <3>1
    <3>3. got = IF e.why # "none" THEN e.why ELSE IF st.saw THEN "tool_calls" ELSE "stop"
      BY <1>1, <3>2
    <3>. HIDE DEF got
    <3>. QED
      BY <1>4, <3>2, <3>3 DEF ChunkOf, GenerateChunk
  <2>2. got \in Whys \ {"none"} /\ Ends(shape, said, why, got)
    BY <1>1, <1>4 DEF Whys, Ends
  <2>. HIDE DEF got
  <2>4. Moves(shape, said, why, x, Emits(st, <<Finish(got, u)>>), {UsageOf(u)} \ {NoBill})
    <3>1. why # "none"
      OBVIOUS
    <3>. QED
      BY <1>a, <2>2, <3>1, MovesEnd
  <2>. QED
    BY <2>1, <2>4 DEF bills
<1>5. CASE shape \in {"http_openai", "cc_chat"}
  <2>1. ChunkOf(shape, st, e) = Emits(st, <<Finish(word, u)>>)
    <3>1. e = Finish(word, u)
      BY <1>5 DEF FinishEvent, word
    <3>. QED
      BY <1>5, <3>1 DEF ChunkOf
  <2>2. word \in Whys \ {"none"} /\ Ends(shape, said, why, word)
    BY <1>1, <1>5 DEF Whys, Ends
  <2>4. Moves(shape, said, why, x, Emits(st, <<Finish(word, u)>>), {UsageOf(u)} \ {NoBill})
    <3>1. why # "none"
      OBVIOUS
    <3>. QED
      BY <1>a, <2>2, <3>1, MovesEnd
  <2>. QED
    BY <2>1, <2>4 DEF bills
<1>6. CASE shape \in {"http_anthropic", "cc_messages"}
  <2>. DEFINE v == OpenaiUsageFromClaude(u)
  <2>. DEFINE got == IF DOMAIN st.tools # {} THEN "tool_calls"
                     ELSE StopReasonToFinish(FinishToStopReason(word))
  <2>1. ChunkOf(shape, st, e) = Emits(st, <<Finish(got, v)>>)
    <3>1. e.d = "why" /\ e.why = FinishToStopReason(word) /\ e.usage = u
      BY <1>6 DEF FinishEvent, word, Why
    <3>2. ClaudeChunk(st, e) = Emits(st, <<Finish(got, v)>>)
      BY <3>1 DEF ClaudeChunk
    <3>. QED
      BY <1>6, <3>2 DEF ChunkOf
  <2>2. got \in Whys \ {"none"} /\ Ends(shape, said, why, got)
    <3>1. StopReasonToFinish(FinishToStopReason(word)) = word
      BY <1>1 DEF StopReasonToFinish, FinishToStopReason
    <3>2. CallCount(said) = 0 => DOMAIN st.tools = {}
      <4>. SUFFICES ASSUME CallCount(said) = 0 PROVE DOMAIN st.tools = {}
        OBVIOUS
      <4>1. \A i \in 1..Len(said) : said[i].kind # "call"
        BY <1>0, NoToolsNoCalls
      <4>2. DOMAIN st.tools = {at \in Places(said) : said[at + 1].kind = "call"}
        BY <1>6 DEF Says, Tracks, ClaudeTracks
      <4>3. \A at \in Places(said) : at + 1 \in 1..Len(said)
        BY <1>0 DEF Places
      <4>. QED
        BY <4>1, <4>2, <4>3
    <3>3. got \in {"tool_calls", word}
      BY <3>1
    <3>4. got = "tool_calls" \/ got = word
      BY <3>3
    <3>5. why = "length" => got = "length" \/ CallCount(said) # 0
      BY <1>1, <3>1, <3>2
    <3>6. why = "whole" => word \in {"stop", "tool_calls"}
      BY <1>1
    <3>. HIDE DEF got
    <3>7. Ends(shape, said, why, got)
      BY <1>6, <3>4, <3>5, <3>6 DEF Ends
    <3>. QED
      BY <1>1, <3>4, <3>7 DEF Whys
  <2>3. v \in Usage /\ UsageOf(v) = UsageOf(u)
    BY <1>6, <1>a, BillsConverted
  <2>4. Moves(shape, said, why, x, Emits(st, <<Finish(got, v)>>), {UsageOf(v)} \ {NoBill})
    <3>1. why # "none"
      OBVIOUS
    <3>. HIDE DEF got, v
    <3>. QED
      BY <2>2, <2>3, <3>1, MovesEnd
  <2>. QED
    BY <2>1, <2>3, <2>4 DEF bills
<1>. QED
  BY <1>2, <1>3, <1>4, <1>5, <1>6 DEF Shapes

(* An error of the generate transport is told as text, and ends the reply. *)
LEMMA MovesError ==
  ASSUME NEW said, NEW st, NEW x, Says("cc_generate", said, "none", st, x), NEW p \in Nat,
         NEW e, e = [ev |-> "error", p |-> p]
  PROVE  Moves("cc_generate", TextSaid(said, FALSE, p), "error", x, ChunkOf("cc_generate", st, e), {})
<1>. DEFINE next == TextSaid(said, FALSE, p)
<1>. DEFINE f == Text(p)
<1>. DEFINE g == Finish("stop", NoUsage)
<1>. DEFINE o == <<f>>
<1>. DEFINE r == <<g>>
<1>. DEFINE said0 == [ev |-> "text", p |-> p]
<1>1. ChunkOf("cc_generate", st, e) = Emits(st, o \o r)
  <2>1. e.ev = "error" /\ e.p = p
    OBVIOUS
  <2>2. ChunkOf("cc_generate", st, e) = Emits(st, <<Text(p), Finish("stop", NoUsage)>>)
    BY <2>1 DEF ChunkOf, GenerateChunk
  <2>3. o \o r = <<f, g>>
    <3>1. f \in {f, g} /\ g \in {f, g}
      OBVIOUS
    <3>. HIDE DEF f, g
    <3>. QED
      BY <3>1, TwoIs
  <2>. QED
    BY <2>2, <2>3
<1>2. Moves("cc_generate", next, "none", x, Emits(st, o), {})
  <2>1. "cc_generate" \in Shapes /\ "cc_generate" \notin {"http_anthropic", "cc_messages"}
    BY DEF Shapes
  <2>2. said0 = TextEvent("cc_generate", Len(said), p)
    BY DEF TextEvent
  <2>3. FALSE \in BOOLEAN /\ (FALSE => EndsInText(said))
    OBVIOUS
  <2>. HIDE DEF said0
  <2>4. Moves("cc_generate", TextSaid(said, FALSE, p), "none", x, ChunkOf("cc_generate", st, said0), {})
    BY <2>1, <2>2, <2>3, MovesText
  <2>5. ChunkOf("cc_generate", st, said0) = Emits(st, o)
    <3>1. said0.ev = "text" /\ said0.p = p
      BY DEF said0
    <3>. QED
      BY <3>1 DEF ChunkOf, GenerateChunk
  <2>. QED
    BY <2>4, <2>5
<1>. HIDE DEF next, f, g, o, r
<1>3. PICK y : /\ Road("chat", x, o, y) /\ Says("cc_generate", next, "none", st, y) /\ Billed(o) = {}
  <2>1. Emits(st, o).st = st /\ Emits(st, o).out = o
    BY EmitsIs
  <2>. QED
    BY <1>2, <2>1 DEF Moves
<1>4. Moves("cc_generate", next, "error", y, Emits(st, r), {UsageOf(NoUsage)} \ {NoBill})
  <2>1. "error" # "none" /\ "stop" \in Whys \ {"none"} /\ Ends("cc_generate", next, "error", "stop")
    BY DEF Whys, Ends
  <2>2. NoUsage \in Usage
    BY BillIs
  <2>. QED
    BY <1>3, <2>1, <2>2, MovesEnd DEF r, g
<1>5. PICK z : /\ Road("chat", y, r, z) /\ Says("cc_generate", next, "error", st, z)
               /\ Billed(r) = {UsageOf(NoUsage)} \ {NoBill}
  <2>1. Emits(st, r).st = st /\ Emits(st, r).out = r
    BY EmitsIs
  <2>. QED
    BY <1>4, <2>1 DEF Moves
<1>6. Road("chat", x, o \o r, z)
  BY <1>3, <1>5, RoadConcat
<1>7. Billed(o \o r) = {}
  <2>1. o \in Seq(Frames) /\ r \in Seq(Frames)
    BY <1>3, <1>5 DEF Road
  <2>. QED
    BY <1>3, <1>5, <2>1, BilledConcat DEF NoBill
<1>10. Kept(o \o r) = {}
  BY <1>7, KeptBilled
<1>8. Emits(st, o \o r).st = st /\ Emits(st, o \o r).out = o \o r
  BY EmitsIs
<1>9. Moves("cc_generate", next, "error", x, Emits(st, o \o r), {})
  BY <1>5, <1>6, <1>7, <1>8, <1>10 DEF Moves
<1>. QED
  BY <1>1, <1>9 DEF next

-----------------------------------------------------------------------------
(***************************************************************************)
(* The dataset copy and the token meter.                                   *)
(***************************************************************************)
(* The dataset copy.                                                       *)
IsTee(t) == DOMAIN t = {"items", "kept", "overflowed", "fired", "complete"}
Copies(t, x) ==
  /\ IsTee(t) /\ t.kept \in 0..MaxCapture /\ t.overflowed \in BOOLEAN
  /\ ~t.overflowed => t.items = x.items
SameFire(s, t) == s.fired = t.fired /\ s.complete = t.complete

LEMMA HeardItems == \A items, why : Heard(items, why).items = items
BY DEF Heard

(* What a frame does to the items does not depend on the reason. *)
LEMMA ChatItemsApart ==
  ASSUME NEW items, NEW why, NEW word, NEW f, f.d \in {"text", "call", "finish", "role", "usage", "done"}
  PROVE  HearChat(Heard(items, word), f).items = HearChat(Heard(items, why), f).items
<1>1. CASE f.d = "text"
  <2>. DEFINE k == ItemAt(items, "text", -1)
  <2>. DEFINE a == IF k > 0 THEN Extend(items, k, <<f.p>>) ELSE Append(items, Item(-1, "text", 0, <<f.p>>))
  <2>1. \A v : HearChat(Heard(items, v), f) = Heard(a, v)
    BY <1>1 DEF HearChat, Heard
  <2>. HIDE DEF a
  <2>. QED
    BY <2>1, HeardItems
<1>2. CASE f.d = "call"
  <2>. DEFINE k == ItemAt(items, "call", f.at)
  <2>. DEFINE a == IF k > 0 THEN Extend(items, k, f.args) ELSE Append(items, Item(f.at, "call", f.id, f.args))
  <2>1. \A v : HearChat(Heard(items, v), f) = Heard(a, v)
    BY <1>2 DEF HearChat, Heard
  <2>. HIDE DEF a
  <2>. QED
    BY <2>1, HeardItems
<1>3. CASE f.d = "finish"
  <2>. DEFINE a == AllShut(items)
  <2>1. \A v : HearChat(Heard(items, v), f) = Heard(a, f.why)
    BY <1>3 DEF HearChat, Heard
  <2>. HIDE DEF a
  <2>. QED
    BY <2>1, HeardItems
<1>4. CASE f.d \in {"role", "usage", "done"}
  <2>1. \A v : HearChat(Heard(items, v), f) = Heard(items, v)
    BY <1>4 DEF HearChat
  <2>. QED
    BY <2>1, HeardItems
<1>. QED
  BY <1>1, <1>2, <1>3, <1>4

LEMMA EventItemsApart ==
  ASSUME NEW items, NEW why, NEW word, NEW f, f.d \in {"open", "delta", "close", "why", "begin", "over"}
  PROVE  HearEvent(Heard(items, word), f).items = HearEvent(Heard(items, why), f).items
<1>. DEFINE k == ItemAt(items, "any", f.at)
<1>1. CASE f.d = "open"
  <2>. DEFINE a == Append(items, Item(f.at, f.kind, f.id, <<>>))
  <2>1. \A v : HearEvent(Heard(items, v), f) = Heard(a, v)
    BY <1>1 DEF HearEvent, Heard
  <2>. HIDE DEF a
  <2>. QED
    BY <2>1, HeardItems
<1>2. CASE f.d = "delta"
  <2>. DEFINE a == IF k > 0 THEN Extend(items, k, f.args) ELSE Append(items, Item(f.at, "orphan", 0, f.args))
  <2>1. \A v : HearEvent(Heard(items, v), f) = Heard(a, v)
    BY <1>2 DEF HearEvent, Heard
  <2>. HIDE DEF a
  <2>. QED
    BY <2>1, HeardItems
<1>3. CASE f.d = "close"
  <2>. DEFINE a == IF k > 0 THEN Shut(items, k) ELSE items
  <2>1. \A v : HearEvent(Heard(items, v), f) = Heard(a, v)
    BY <1>3 DEF HearEvent, Heard
  <2>. HIDE DEF a
  <2>. QED
    BY <2>1, HeardItems
<1>4. CASE f.d = "why"
  <2>1. \A v : HearEvent(Heard(items, v), f) = Heard(items, f.why)
    BY <1>4 DEF HearEvent, Heard
  <2>. QED
    BY <2>1, HeardItems
<1>5. CASE f.d \in {"begin", "over"}
  <2>1. \A v : HearEvent(Heard(items, v), f) = Heard(items, v)
    BY <1>5 DEF HearEvent
  <2>. QED
    BY <2>1, HeardItems
<1>. QED
  BY <1>1, <1>2, <1>3, <1>4, <1>5

LEMMA ItemsApart ==
  ASSUME NEW wire, NEW items, NEW why, NEW f, Fits(wire, items, why, f)
  PROVE  Hear(wire, Heard(items, "none"), f).items = Hear(wire, Heard(items, why), f).items
<1>1. CASE wire = "chat"
  <2>1. f.d \in {"text", "call", "finish", "role", "usage", "done"}
    BY <1>1 DEF Fits, FitsChat
  <2>2. \A word : HearChat(Heard(items, word), f).items = HearChat(Heard(items, why), f).items
    BY <2>1, ChatItemsApart
  <2>. QED
    BY <1>1, <2>2 DEF Hear
<1>2. CASE wire # "chat"
  <2>1. f.d \in {"open", "delta", "close", "why", "begin", "over"}
    BY <1>2 DEF Fits, FitsEvent
  <2>2. \A word : HearEvent(Heard(items, word), f).items = HearEvent(Heard(items, why), f).items
    BY <2>1, EventItemsApart
  <2>. QED
    BY <1>2, <2>2 DEF Hear
<1>. QED
  BY <1>1, <1>2

LEMMA PushKeeps ==
  ASSUME NEW wire, NEW x, x = Heard(x.items, x.why), NEW c, Copies(c, x),
         NEW f, Fits(wire, x.items, x.why, f), NEW t, t = Push(wire, c, f)
  PROVE  Copies(t, Hear(wire, x, f)) /\ SameFire(t, c)
<1>0. MaxCapture \in Nat
  BY ExchangeBounds
<1>1. CASE c.overflowed
  BY <1>1 DEF Push, Copies, SameFire
<1>2. CASE ~c.overflowed /\ c.kept = MaxCapture
  <2>1. t = [c EXCEPT !.overflowed = TRUE, !.items = <<>>]
    BY <1>2 DEF Push
  <2>2. /\ IsTee(t) /\ t.kept = c.kept /\ t.overflowed = TRUE
        /\ t.fired = c.fired /\ t.complete = c.complete
    BY <2>1 DEF Copies, IsTee
  <2>. QED
    BY <2>2 DEF Copies, SameFire
<1>3. CASE ~c.overflowed /\ c.kept # MaxCapture
  <2>. DEFINE a == Hear(wire, [items |-> c.items, why |-> "none"], f).items
  <2>. DEFINE n == c.kept + 1
  <2>1. t = [c EXCEPT !.kept = n, !.items = a]
    BY <1>3 DEF Push
  <2>2. a = Hear(wire, x, f).items
    <3>1. c.items = x.items
      BY <1>3 DEF Copies
    <3>2. Hear(wire, Heard(x.items, "none"), f).items = Hear(wire, Heard(x.items, x.why), f).items
      BY ItemsApart
    <3>3. [items |-> c.items, why |-> "none"] = Heard(x.items, "none")
      BY <3>1 DEF Heard
    <3>. QED
      BY <3>2, <3>3
  <2>3. n \in 0..MaxCapture
    BY <1>0, <1>3 DEF Copies
  <2>. HIDE DEF a, n
  <2>4. /\ IsTee(t) /\ t.kept = n /\ t.overflowed = c.overflowed /\ t.items = a
        /\ t.fired = c.fired /\ t.complete = c.complete
    BY <2>1 DEF Copies, IsTee
  <2>5. c.overflowed \in BOOLEAN
    BY DEF Copies
  <2>. QED
    BY <2>2, <2>3, <2>4, <2>5 DEF Copies, SameFire
<1>. QED
  BY <1>1, <1>2, <1>3

(* The copy keeps one chunk after the other. *)
PushChat(c, f) == Push("chat", c, f)
PushMessages(c, f) == Push("messages", c, f)
ChatCopy == INSTANCE FoldProofs WITH op <- PushChat
MessagesCopy == INSTANCE FoldProofs WITH op <- PushMessages

Runs(wire, t, q, c, h) ==
  /\ h[0] = t /\ h[Len(q)] = c
  /\ \A k \in 1..Len(q) : h[k] = Push(wire, h[k - 1], q[k])

CopyOf(t, c) == [t EXCEPT !.items = c.items, !.kept = c.kept, !.overflowed = c.overflowed]

LEMMA ChatCopyRuns ==
  ASSUME NEW t, NEW q \in Seq(Frames)
  PROVE  \E c, h : Copied(t, "chat", q) = CopyOf(t, c) /\ Runs("chat", t, q, c, h)
<1>1. Len(q) \in Nat /\ DOMAIN q = 1..Len(q)
  OBVIOUS
<1>2. PICK h : ChatCopy!Unrolls(t, q, Len(q), h)
  BY <1>1, ChatCopy!Unrolled
<1>. DEFINE c == ChatCopy!Folded(t, q)
<1>3. Copied(t, "chat", q) = CopyOf(t, c)
  BY DEF Copied, CopyOf, PushChat, ChatCopy!Folded, ChatCopy!FoldLeft, FoldLeft,
         ChatCopy!MapThenFoldSet, MapThenFoldSet, Max, ChatCopy!Max
<1>4. Runs("chat", t, q, c, h)
  BY <1>2 DEF ChatCopy!Unrolls, Runs, PushChat
<1>. QED
  BY <1>3, <1>4

LEMMA MessagesCopyRuns ==
  ASSUME NEW t, NEW q \in Seq(Frames)
  PROVE  \E c, h : Copied(t, "messages", q) = CopyOf(t, c) /\ Runs("messages", t, q, c, h)
<1>1. Len(q) \in Nat /\ DOMAIN q = 1..Len(q)
  OBVIOUS
<1>2. PICK h : MessagesCopy!Unrolls(t, q, Len(q), h)
  BY <1>1, MessagesCopy!Unrolled
<1>. DEFINE c == MessagesCopy!Folded(t, q)
<1>3. Copied(t, "messages", q) = CopyOf(t, c)
  BY DEF Copied, CopyOf, PushMessages, MessagesCopy!Folded, MessagesCopy!FoldLeft, FoldLeft,
         MessagesCopy!MapThenFoldSet, MapThenFoldSet, Max, MessagesCopy!Max
<1>4. Runs("messages", t, q, c, h)
  BY <1>2 DEF MessagesCopy!Unrolls, Runs, PushMessages
<1>. QED
  BY <1>3, <1>4

LEMMA CopyIs ==
  ASSUME NEW t, IsTee(t), NEW c, NEW x, Copies(c, x), NEW s, s = CopyOf(t, c)
  PROVE  Copies(s, x) /\ SameFire(s, t)
<1>. DEFINE items == c.items
<1>. DEFINE kept == c.kept
<1>. DEFINE overflowed == c.overflowed
<1>1. s = [t EXCEPT !.items = items, !.kept = kept, !.overflowed = overflowed]
  BY DEF CopyOf
<1>2. kept \in 0..MaxCapture /\ overflowed \in BOOLEAN /\ (~overflowed => items = x.items)
  BY DEF Copies
<1>. HIDE DEF items, kept, overflowed
<1>3. IsTee(s) /\ s.items = items /\ s.kept = kept /\ s.fired = t.fired /\ s.complete = t.complete
  BY <1>1 DEF IsTee
<1>4. s.overflowed = overflowed
  BY <1>1 DEF IsTee
<1>. QED
  BY <1>2, <1>3, <1>4 DEF Copies, SameFire

(* What the copy has after a stretch of road is what a listener has,       *)
(* unless it has overflowed.                                               *)
LEMMA CopiedKeeps ==
  ASSUME NEW wire \in {"chat", "messages"}, NEW x, Whole(wire, x), NEW q, NEW y, Road(wire, x, q, y),
         NEW t, Copies(t, x)
  PROVE  Copies(Copied(t, wire, q), y) /\ SameFire(Copied(t, wire, q), t)
<1>1. PICK p : Goes(wire, x, q, y, p)
  BY DEF Road
<1>2. q \in Seq(Frames) /\ Len(q) \in Nat
  BY DEF Road
<1>3. PICK c, h : Copied(t, wire, q) = CopyOf(t, c) /\ Runs(wire, t, q, c, h)
  BY <1>2, ChatCopyRuns, MessagesCopyRuns
<1>. DEFINE Q(n) == Copies(h[n], p[n]) /\ Whole(wire, p[n])
<1>. DEFINE P == {n \in Nat : n <= Len(q) => Q(n)}
<1>4. 0 \in P
  BY <1>1, <1>3 DEF Goes, Runs
<1>5. ASSUME NEW n \in Nat, n \in P PROVE n + 1 \in P
  <2>. SUFFICES ASSUME n + 1 <= Len(q) PROVE Q(n + 1)
    OBVIOUS
  <2>1. n + 1 \in 1..Len(q) /\ (n + 1) - 1 = n /\ Q(n)
    BY <1>2, <1>5
  <2>2. Fits(wire, p[n].items, p[n].why, q[n + 1]) /\ p[n + 1] = Hear(wire, p[n], q[n + 1])
    BY <1>1, <2>1 DEF Goes
  <2>3. h[n + 1] = Push(wire, h[n], q[n + 1])
    BY <1>3, <2>1 DEF Runs
  <2>4. p[n] = Heard(p[n].items, p[n].why)
    BY <2>1 DEF Whole
  <2>5. Copies(h[n + 1], p[n + 1])
    BY <2>1, <2>2, <2>3, <2>4, PushKeeps
  <2>6. Whole(wire, p[n + 1])
    BY <2>1, <2>2, HearKeeps
  <2>. QED
    BY <2>5, <2>6
<1>. HIDE DEF P
<1>6. Nat \subseteq P
  BY <1>4, <1>5, SpokenFold!Induction
<1>7. Copies(c, y)
  <2>1. Q(Len(q))
    BY <1>2, <1>6 DEF P
  <2>2. h[Len(q)] = c /\ p[Len(q)] = y
    BY <1>1, <1>3 DEF Goes, Runs
  <2>. QED
    BY <2>1, <2>2
<1>8. IsTee(t)
  BY DEF Copies
<1>. QED
  BY <1>3, <1>7, <1>8, CopyIs

-----------------------------------------------------------------------------
(* The token meter reads one frame after the other.                        *)
MeterStep(best, f) == MergeUsage(best, UsageIn(f))
MeterFold == INSTANCE FoldProofs WITH op <- MeterStep

Bound(best, q, n, u) == IF BilledIn(q, n) = {} THEN best ELSE MergeUsage(best, u)

LEMMA NoBillMerges == ASSUME NEW best \in Counts PROVE MergeUsage(best, NoBill) = best
<1>1. \A x \in Nat : MaxOf(x, 0) = x
  BY DEF MaxOf
<1>2. /\ best = [input |-> best.input, cached |-> best.cached, output |-> best.output]
      /\ best.input \in Nat /\ best.cached \in Nat /\ best.output \in Nat
  BY DEF Counts
<1>. QED
  BY <1>1, <1>2, NoBillIs DEF MergeUsage

LEMMA MergeAgain ==
  ASSUME NEW best \in Counts, NEW u \in Counts
  PROVE  /\ MergeUsage(best, u) \in Counts
         /\ MergeUsage(MergeUsage(best, u), u) = MergeUsage(best, u)
<1>1. MergeUsage(best, u) \in Counts /\ MergeUsage(MergeUsage(best, u), u) = MergeUsage(best, MergeUsage(u, u))
  BY MergeIsMaximum
<1>2. MergeUsage(u, u) = u
  BY MergeIsMaximum
<1>. QED
  BY <1>1, <1>2

LEMMA MeterNext ==
  ASSUME NEW best \in Counts, NEW u \in Counts, NEW q, NEW n \in Nat,
         BilledIn(q, n + 1) \subseteq {u}, NEW b, b = Bound(best, q, n, u),
         NEW c, c = MeterStep(b, q[n + 1])
  PROVE  c = Bound(best, q, n + 1, u)
<1>. DEFINE v == UsageIn(q[n + 1])
<1>1. BilledIn(q, n + 1) = BilledIn(q, n) \cup ({v} \ {NoBill})
  BY BilledNext
<1>2. c = MergeUsage(b, v)
  BY DEF MeterStep
<1>3. b \in Counts
  BY MergeAgain DEF Bound
<1>. HIDE DEF v
<1>4. CASE v = NoBill
  <2>1. BilledIn(q, n + 1) = BilledIn(q, n)
    BY <1>1, <1>4
  <2>2. c = b
    BY <1>2, <1>3, <1>4, NoBillMerges
  <2>. QED
    BY <2>1, <2>2 DEF Bound
<1>5. CASE v # NoBill
  <2>1. v = u /\ BilledIn(q, n + 1) # {}
    BY <1>1, <1>5
  <2>2. c = MergeUsage(best, u)
    BY <1>2, <2>1, MergeAgain DEF Bound
  <2>. QED
    BY <2>1, <2>2 DEF Bound
<1>. QED
  BY <1>4, <1>5

LEMMA MeterFolds ==
  ASSUME NEW best \in Counts, NEW u \in Counts, NEW q \in Seq(Frames), Billed(q) \subseteq {u}
  PROVE  MeterFold!Folded(best, q) = Bound(best, q, Len(q), u)
<1>1. Len(q) \in Nat /\ DOMAIN q = 1..Len(q)
  OBVIOUS
<1>2. PICK h : MeterFold!Unrolls(best, q, Len(q), h)
  BY <1>1, MeterFold!Unrolled
<1>3. /\ h[0] = best /\ h[Len(q)] = MeterFold!Folded(best, q)
      /\ \A k \in 1..Len(q) : h[k] = MeterStep(h[k - 1], q[k])
  BY <1>2 DEF MeterFold!Unrolls
<1>. DEFINE P == {n \in Nat : n <= Len(q) => h[n] = Bound(best, q, n, u)}
<1>4. 0 \in P
  <2>1. BilledIn(q, 0) = {}
    <3>1. 1..0 = {}
      OBVIOUS
    <3>. QED
      BY <3>1 DEF BilledIn
  <2>. QED
    BY <1>3, <2>1 DEF Bound
<1>5. ASSUME NEW n \in Nat, n \in P PROVE n + 1 \in P
  <2>. SUFFICES ASSUME n + 1 <= Len(q) PROVE h[n + 1] = Bound(best, q, n + 1, u)
    OBVIOUS
  <2>1. n + 1 \in 1..Len(q) /\ (n + 1) - 1 = n /\ h[n] = Bound(best, q, n, u)
    BY <1>1, <1>5
  <2>2. h[n + 1] = MeterStep(h[n], q[n + 1])
    BY <1>3, <2>1
  <2>3. BilledIn(q, n + 1) \subseteq {u}
    <3>1. \A k \in 1..(n + 1) : k \in 1..Len(q)
      BY <1>1, <2>1
    <3>2. BilledIn(q, n + 1) \subseteq BilledIn(q, Len(q))
      BY <3>1 DEF BilledIn
    <3>. QED
      BY <3>2 DEF Billed
  <2>. QED
    BY <2>1, <2>2, <2>3, MeterNext
<1>. HIDE DEF P
<1>6. Nat \subseteq P
  BY <1>4, <1>5, SpokenFold!Induction
<1>. QED
  BY <1>1, <1>3, <1>6 DEF P

(* The meter merges what a stretch of road bills into what it has. *)
IsTap(t) == DOMAIN t = {"best", "recorded"}
LEMMA MeteredIs ==
  ASSUME NEW t, IsTap(t), t.best \in Counts, NEW u \in Counts, NEW q \in Seq(Frames),
         Billed(q) = {u} \ {NoBill}, NEW s, s = Metered(t, q)
  PROVE  s.best = MergeUsage(t.best, u) /\ s.recorded = t.recorded /\ IsTap(s)
<1>. DEFINE best == MeterFold!Folded(t.best, q)
<1>1. s = [t EXCEPT !.best = best]
  BY DEF Metered, MeterStep, MeterFold!Folded, MeterFold!FoldLeft, FoldLeft,
         MeterFold!MapThenFoldSet, MapThenFoldSet, Max, MeterFold!Max
<1>2. best = Bound(t.best, q, Len(q), u)
  BY MeterFolds
<1>3. best = MergeUsage(t.best, u)
  <2>1. CASE u = NoBill
    <3>1. Billed(q) = {}
      BY <2>1
    <3>. QED
      BY <1>2, <2>1, <3>1, NoBillMerges DEF Bound, Billed
  <2>2. CASE u # NoBill
    <3>1. Billed(q) # {}
      BY <2>2
    <3>. QED
      BY <1>2, <3>1 DEF Bound, Billed
  <2>. QED
    BY <2>1, <2>2
<1>. HIDE DEF best
<1>4. s.best = best /\ s.recorded = t.recorded /\ IsTap(s)
  BY <1>1 DEF IsTap
<1>. QED
  BY <1>3, <1>4

-----------------------------------------------------------------------------
(***************************************************************************)
(* The whole way of one event.                                             *)
(***************************************************************************)
(* The body that leaves the proxy, as a listener on its way would hear it: *)
(* the upstream's own events, the adapter's chunks, or Messages events     *)
(* made of them.                                                           *)
WireOf(client) == IF client = "messages" THEN "messages" ELSE "chat"
InOwnEvents(client, shape) == client = "messages" /\ shape \in {"http_anthropic", "cc_messages"}

OwnWord(said, why) == IF why = "none" THEN "none" ELSE FinishToStopReason(ChatWord(said, why))
SaysOwn(shape, said, why, w) == SaidIn(shape, said) /\ w = Heard(said, OwnWord(said, why))

Carries(client, shape, said, why, st, b, w) ==
  IF InOwnEvents(client, shape) THEN SaysOwn(shape, said, why, w)
  ELSE IF client = "messages"
       THEN \E x : Says(shape, said, why, st, x) /\ MessagesBridge(b, x, w)
       ELSE Says(shape, said, why, st, w)

(* The upstream says `next` after `said` with the event e, and bills u.    *)
Speaks(client, shape, said, st, e, next, why, u) ==
  IF InOwnEvents(client, shape)
  THEN /\ e \in Frames /\ UsageIn(e) = u /\ SaidIn(shape, next)
       /\ Fits("messages", said, "none", e)
       /\ Hear("messages", Heard(said, "none"), e) = Heard(next, OwnWord(next, why))
  ELSE \A x : Says(shape, said, "none", st, x) =>
                Moves(shape, next, why, x, ChunkOf(shape, st, e), {u} \ {NoBill})

Adapted(client, shape, st, e) == IF InOwnEvents(client, shape) THEN Emits(st, <<e>>) ELSE ChunkOf(shape, st, e)
Bridges(client, shape, b, a) == IF client = "messages" /\ ~InOwnEvents(client, shape)
                                THEN ToMessages(b, a.out) ELSE Emits(b, a.out)

Passed(client, shape, next, why, w, a, b, u) ==
  \E v : /\ Road(WireOf(client), w, b.out, v)
         /\ Carries(client, shape, next, why, a.st, b.st, v)
         /\ Billed(b.out) = {u} \ {NoBill}

LEMMA OwnPasses ==
  ASSUME NEW client, NEW shape, InOwnEvents(client, shape), NEW said, NEW st, NEW brig, NEW w,
         Carries(client, shape, said, "none", st, brig, w),
         NEW e, NEW next, NEW why, NEW u, Speaks(client, shape, said, st, e, next, why, u),
         NEW a, a = Adapted(client, shape, st, e), NEW b, b = Bridges(client, shape, brig, a)
  PROVE  Passed(client, shape, next, why, w, a, b, u)
<1>. DEFINE o == <<e>>
<1>. DEFINE v == Heard(next, OwnWord(next, why))
<1>1. a = Emits(st, o) /\ b = Emits(brig, a.out) /\ WireOf(client) = "messages"
  BY DEF Adapted, Bridges, WireOf, InOwnEvents
<1>2. w = Heard(said, "none") /\ w.items = said /\ w.why = "none"
  <2>1. w = Heard(said, "none")
    BY DEF Carries, SaysOwn, OwnWord
  <2>. QED
    BY <2>1 DEF Heard
<1>3. /\ e \in Frames /\ UsageIn(e) = u /\ SaidIn(shape, next)
      /\ Fits("messages", said, "none", e) /\ Hear("messages", w, e) = v
  BY <1>2 DEF Speaks
<1>4. Road("messages", w, o, Hear("messages", w, e)) /\ Billed(o) = {u} \ {NoBill}
  BY <1>2, <1>3, RoadOne, BilledOne
<1>. HIDE DEF o
<1>5. a.out = o /\ b.out = o
  BY <1>1, EmitsIs
<1>6. Carries(client, shape, next, why, a.st, b.st, v)
  BY <1>3 DEF Carries, SaysOwn
<1>. HIDE DEF v
<1>. QED
  BY <1>1, <1>3, <1>4, <1>5, <1>6 DEF Passed

LEMMA ChunksPass ==
  ASSUME NEW client, NEW shape, ~InOwnEvents(client, shape), NEW said, NEW st, NEW brig, NEW w,
         Carries(client, shape, said, "none", st, brig, w),
         NEW e, NEW next, NEW why, NEW u, Speaks(client, shape, said, st, e, next, why, u),
         NEW a, a = Adapted(client, shape, st, e), NEW b, b = Bridges(client, shape, brig, a)
  PROVE  Passed(client, shape, next, why, w, a, b, u)
<1>. DEFINE bills == {u} \ {NoBill}
<1>1. a = ChunkOf(shape, st, e) /\ \A x : Says(shape, said, "none", st, x) => Moves(shape, next, why, x, a, bills)
  BY DEF Adapted, Speaks
<1>. HIDE DEF bills
<1>2. CASE client = "messages"
  <2>1. PICK x : Says(shape, said, "none", st, x) /\ MessagesBridge(brig, x, w)
    BY <1>2 DEF Carries
  <2>2. PICK y : Road("chat", x, a.out, y) /\ Says(shape, next, why, a.st, y) /\ Kept(a.out) = bills
    BY <1>1, <2>1 DEF Moves
  <2>. DEFINE chunks == a.out
  <2>3. b = ToMessages(brig, chunks) /\ WireOf(client) = "messages"
    BY <1>2 DEF Bridges, WireOf
  <2>4. PICK v : /\ Road("messages", w, ToMessages(brig, chunks).out, v)
                 /\ MessagesBridge(ToMessages(brig, chunks).st, y, v)
                 /\ Billed(ToMessages(brig, chunks).out) = Kept(chunks)
    BY <2>1, <2>2, MessagesPasses
  <2>5. Carries(client, shape, next, why, a.st, b.st, v)
    BY <1>2, <2>2, <2>3, <2>4 DEF Carries
  <2>. QED
    BY <2>2, <2>3, <2>4, <2>5 DEF Passed, bills
<1>3. CASE client # "messages"
  <2>1. Says(shape, said, "none", st, w)
    BY <1>3 DEF Carries
  <2>2. PICK y : Road("chat", w, a.out, y) /\ Says(shape, next, why, a.st, y) /\ Billed(a.out) = bills
    BY <1>1, <2>1 DEF Moves
  <2>. DEFINE chunks == a.out
  <2>3. b = Emits(brig, chunks) /\ WireOf(client) = "chat"
    BY <1>3 DEF Bridges, WireOf
  <2>. HIDE DEF chunks
  <2>4. b.out = chunks
    BY <2>3, EmitsIs
  <2>5. Carries(client, shape, next, why, a.st, b.st, y)
    BY <1>3, <2>2 DEF Carries
  <2>. QED
    BY <2>2, <2>3, <2>4, <2>5 DEF Passed, bills, chunks
<1>. QED
  BY <1>2, <1>3

LEMMA EventPasses ==
  ASSUME NEW client, NEW shape, NEW said, NEW st, NEW brig, NEW w,
         Carries(client, shape, said, "none", st, brig, w),
         NEW e, NEW next, NEW why, NEW u, Speaks(client, shape, said, st, e, next, why, u),
         NEW a, a = Adapted(client, shape, st, e), NEW b, b = Bridges(client, shape, brig, a)
  PROVE  Passed(client, shape, next, why, w, a, b, u)
BY OwnPasses, ChunksPass

(* What is carried is a reply. *)
Tells(client, shape, said, why, w) ==
  /\ Whole(WireOf(client), w) /\ Numbered(w.items) /\ SaidIn(shape, said)
  /\ Faithful(shape) => Content(w.items) = Content(said)
  /\ why = "none" => w.why = "none"
  /\ why = "whole" => w.why \in {"stop", "tool_calls", "end_turn", "tool_use"}
  /\ why = "length" /\ shape # "codex" =>
       \/ w.why \in {"length", "max_tokens"}
       \/ shape \in {"http_anthropic", "cc_messages"} /\ CallCount(said) # 0

LEMMA CarriesReply ==
  ASSUME NEW client, NEW shape, NEW said, NEW why \in {"none", "whole", "length", "error"},
         NEW st, NEW b, NEW w, Carries(client, shape, said, why, st, b, w)
  PROVE  Tells(client, shape, said, why, w)
<1>1. CASE InOwnEvents(client, shape)
  <2>1. SaidIn(shape, said) /\ w = Heard(said, OwnWord(said, why)) /\ WireOf(client) = "messages"
    BY <1>1 DEF Carries, SaysOwn, WireOf, InOwnEvents
  <2>2. w.items = said /\ w.why = OwnWord(said, why)
    BY <2>1 DEF Heard
  <2>3. Whole("messages", w)
    BY <1>1, <2>1, <2>2 DEF Whole, Good, SaidIn, InOwnEvents
  <2>4. Numbered(w.items) /\ Content(w.items) = Content(said)
    BY <2>1, <2>2 DEF SaidIn
  <2>5. /\ why = "none" => w.why = "none"
        /\ why = "whole" => w.why \in {"end_turn", "tool_use"}
        /\ why = "length" => w.why = "max_tokens"
    BY <2>2 DEF OwnWord, ChatWord, FinishToStopReason
  <2>. QED
    BY <2>1, <2>3, <2>4, <2>5 DEF Tells
<1>2. CASE ~InOwnEvents(client, shape) /\ client = "messages"
  <2>1. PICK x : Says(shape, said, why, st, x) /\ MessagesBridge(b, x, w)
    BY <1>2 DEF Carries
  <2>2. /\ Whole("messages", w) /\ Numbered(w.items) /\ Content(w.items) = Content(x.items)
        /\ w.why = WhyAcross(x.why)
    BY <2>1 DEF MessagesBridge, SameReply
  <2>3. /\ SaidIn(shape, said) /\ (why = "none" => x.why = "none")
        /\ (why # "none" => Ends(shape, said, why, x.why))
        /\ Faithful(shape) => Content(x.items) = Content(said)
    BY <2>1 DEF Says
  <2>4. why = "none" => w.why = "none"
    BY <2>2, <2>3 DEF WhyAcross
  <2>5. why = "whole" => w.why \in {"end_turn", "tool_use"}
    BY <2>2, <2>3 DEF WhyAcross, Ends, FinishToStopReason
  <2>6. why = "length" /\ shape # "codex" =>
          \/ w.why = "max_tokens"
          \/ shape \in {"http_anthropic", "cc_messages"} /\ CallCount(said) # 0
    BY <2>2, <2>3 DEF WhyAcross, Ends, FinishToStopReason
  <2>7. WireOf(client) = "messages"
    BY <1>2 DEF WireOf
  <2>. QED
    BY <2>2, <2>3, <2>4, <2>5, <2>6, <2>7 DEF Tells
<1>3. CASE client # "messages"
  <2>1. Says(shape, said, why, st, w) /\ WireOf(client) = "chat"
    BY <1>3 DEF Carries, WireOf, InOwnEvents
  <2>2. /\ Whole("chat", w) /\ Numbered(w.items) /\ SaidIn(shape, said)
        /\ (why = "none" => w.why = "none") /\ (why # "none" => Ends(shape, said, why, w.why))
        /\ Faithful(shape) => Content(w.items) = Content(said)
    BY <2>1 DEF Says
  <2>. QED
    BY <2>1, <2>2 DEF Tells, Ends
<1>. QED
  BY <1>1, <1>2, <1>3

-----------------------------------------------------------------------------
(* The reply the client will have heard when it has taken every frame.     *)
Delivers(client, src, b, w, d) ==
  IF client = "responses"
  THEN IF src = "open" THEN ResponsesBridge(b, w, d) ELSE SameContent(w, d) /\ d.why # "none"
  ELSE d = w

Arrives(client, b) == IF client = "responses" THEN ToResponses(b.st, b.out) ELSE b

LEMMA Delivered ==
  ASSUME NEW client \in Clients, NEW brig, NEW w, NEW d, Delivers(client, "open", brig, w, d),
         NEW b, client = "responses" => b.st = brig,
         NEW v, Road(WireOf(client), w, b.out, v),
         NEW r, r = Arrives(client, b)
  PROVE  \E i : Road(client, d, r.out, i) /\ Delivers(client, "open", r.st, v, i)
<1>1. CASE client = "responses"
  <2>1. ResponsesBridge(b.st, w, d) /\ WireOf(client) = "chat" /\ r = ToResponses(b.st, b.out)
    BY <1>1 DEF Delivers, WireOf, Arrives
  <2>2. PICK i : /\ Road("responses", d, ToResponses(b.st, b.out).out, i)
                 /\ ResponsesBridge(ToResponses(b.st, b.out).st, v, i)
    BY <2>1, FeedPasses
  <2>. QED
    BY <1>1, <2>1, <2>2 DEF Delivers
<1>2. CASE client # "responses"
  <2>1. d = w /\ r = b /\ WireOf(client) = client
    BY <1>2 DEF Delivers, WireOf, Arrives, Clients
  <2>2. Delivers(client, "open", r.st, v, v)
    BY <1>2 DEF Delivers
  <2>. QED
    BY <2>1, <2>2
<1>. QED
  BY <1>1, <1>2

LEMMA DeliversReply ==
  ASSUME NEW client \in Clients, NEW src, NEW b, NEW w, NEW d, Delivers(client, src, b, w, d),
         Whole(WireOf(client), w), Numbered(w.items)
  PROVE  /\ Whole(client, d) /\ Numbered(d.items) /\ Content(d.items) = Content(w.items)
         /\ client # "responses" => d = w
<1>1. CASE client = "responses"
  BY <1>1 DEF Delivers, ResponsesBridge, SameContent
<1>2. CASE client # "responses"
  BY <1>2 DEF Delivers, WireOf, Clients
<1>. QED
  BY <1>1, <1>2

-----------------------------------------------------------------------------
(* What each event of the upstream says. *)
BegunBill(client, shape) == IF InOwnEvents(client, shape) THEN First ELSE NoBill

RoleEvent(shape) ==
  CASE shape = "codex" -> [ev |-> "created"]
    [] shape \in {"http_openai", "cc_chat"} -> Role
    [] shape \in {"http_anthropic", "cc_messages"} -> Begun(FirstBill)

LEMMA NothingBilled == {NoBill} \ {NoBill} = {}
OBVIOUS

\* In its own events a reply is heard as it is said.
LEMMA OwnSpeaks ==
  ASSUME NEW client, NEW shape, InOwnEvents(client, shape), NEW said, NEW st,
         NEW e, e \in Frames, e.d \in {"open", "delta", "close"}, FitsEvent(said, "none", e),
         NEW next, SaidIn(shape, next), HearEvent(Heard(said, "none"), e) = Heard(next, "none")
  PROVE  Speaks(client, shape, said, st, e, next, "none", NoBill)
<1>1. UsageIn(e) = NoBill
  BY DEF UsageIn, NoBill
<1>2. Fits("messages", said, "none", e)
  BY DEF Fits
<1>3. Hear("messages", Heard(said, "none"), e) = Heard(next, "none")
  BY DEF Hear
<1>4. OwnWord(next, "none") = "none"
  BY DEF OwnWord
<1>. QED
  BY <1>1, <1>2, <1>3, <1>4 DEF Speaks

LEMMA ChunksSpeak ==
  ASSUME NEW client, NEW shape, ~InOwnEvents(client, shape), NEW said, NEW st, NEW e, NEW next, NEW why,
         \A x : Says(shape, said, "none", st, x) => Moves(shape, next, why, x, ChunkOf(shape, st, e), {})
  PROVE  Speaks(client, shape, said, st, e, next, why, NoBill)
BY NothingBilled DEF Speaks

LEMMA SpeaksRole ==
  ASSUME NEW client, NEW shape \in Shapes \ {"cc_generate"}, NEW said, SaidIn(shape, said), NEW st,
         NEW e, e = RoleEvent(shape)
  PROVE  Speaks(client, shape, said, st, e, said, "none", BegunBill(client, shape))
<1>1. CASE InOwnEvents(client, shape)
  <2>1. e = Begun(FirstBill) /\ BegunBill(client, shape) = First
    BY <1>1 DEF RoleEvent, BegunBill, InOwnEvents
  <2>2. e \in Frames
    BY <2>1, FramesMade, BillIs
  <2>3. UsageIn(e) = First
    BY <2>1 DEF Begun, UsageIn, First
  <2>4. Fits("messages", said, "none", e) /\ Hear("messages", Heard(said, "none"), e) = Heard(said, "none")
    BY <2>1 DEF Begun, Fits, FitsEvent, Hear, HearEvent
  <2>5. OwnWord(said, "none") = "none"
    BY DEF OwnWord
  <2>. QED
    BY <1>1, <2>1, <2>2, <2>3, <2>4, <2>5 DEF Speaks
<1>2. CASE ~InOwnEvents(client, shape)
  <2>. DEFINE o == <<Role>>
  <2>. DEFINE a == Emits(st, o)
  <2>1. ChunkOf(shape, st, e) = a
    BY DEF RoleEvent, ChunkOf, CodexChunk, ClaudeChunk, Begun, Shapes
  <2>2. \A x : Says(shape, said, "none", st, x) => Moves(shape, said, "none", x, a, {})
    BY MovesRole
  <2>3. BegunBill(client, shape) = NoBill
    BY <1>2 DEF BegunBill
  <2>. HIDE DEF a
  <2>. QED
    BY <1>2, <2>1, <2>2, <2>3, ChunksSpeak
<1>. QED
  BY <1>1, <1>2

LEMMA SpeaksText ==
  ASSUME NEW client, NEW shape \in Shapes, NEW said, SaidIn(shape, said), NEW st,
         NEW p \in Nat, NEW more \in BOOLEAN, more => EndsInText(said),
         shape \in {"http_anthropic", "cc_messages"} => more,
         NEW e, e = TextEvent(shape, Len(said), p), NEW next, next = TextSaid(said, more, p)
  PROVE  Speaks(client, shape, said, st, e, next, "none", NoBill) /\ SaidIn(shape, next)
<1>0. SaidIn(shape, next) /\ said \in Seq(Items)
  <2>1. SaidIn(shape, next)
    BY SaidText
  <2>2. said \in Seq(Items)
    BY DEF SaidIn
  <2>. QED
    BY <2>1, <2>2
<1>1. CASE InOwnEvents(client, shape)
  <2>. DEFINE n == Len(said)
  <2>. DEFINE o == <<p>>
  <2>0. o \in Seq(Nat)
    OBVIOUS
  <2>1. more /\ e = Delta(n - 1, o) /\ Placed(said) /\ next = Extend(said, n, o)
    BY <1>1 DEF InOwnEvents, TextEvent, SaidIn, TextSaid
  <2>2. n \in 1..Len(said) /\ n - 1 \in Nat /\ (n - 1) + 1 = n /\ said[n].open
    BY <1>0, <2>1 DEF EndsInText
  <2>3. LastText(said, n)
    BY <2>2 DEF LastText
  <2>. DEFINE at == n - 1
  <2>. HIDE DEF n, o, at
  <2>a. at \in Nat /\ at + 1 = n /\ at + 1 \in 1..Len(said) /\ e = Delta(at, o)
    BY <2>1, <2>2 DEF at
  <2>4. e.d = "delta" /\ e.at = at /\ e.args = o
    BY <2>a DEF Delta
  <2>b. e \in Frames
    BY <2>0, <2>a, FramesMade
  <2>5. FitsEvent(said, "none", e)
    BY <2>0, <2>2, <2>3, <2>4, <2>a DEF FitsEvent
  <2>c. HearEvent(Heard(said, "none"), e) = Heard(Extend(said, e.at + 1, e.args), "none")
    BY <1>0, <2>1, <2>4, <2>a, HearDelta
  <2>6. HearEvent(Heard(said, "none"), e) = Heard(next, "none")
    BY <2>1, <2>4, <2>a, <2>c
  <2>. QED
    BY <1>0, <1>1, <2>4, <2>b, <2>5, <2>6, OwnSpeaks
<1>2. CASE ~InOwnEvents(client, shape)
  <2>1. \A x : Says(shape, said, "none", st, x) => Moves(shape, next, "none", x, ChunkOf(shape, st, e), {})
    BY MovesText
  <2>. QED
    BY <1>0, <1>2, <2>1, ChunksSpeak
<1>. QED
  BY <1>1, <1>2

LEMMA SpeaksError ==
  ASSUME NEW client, NEW said, SaidIn("cc_generate", said), NEW st, NEW p \in Nat,
         NEW e, e = [ev |-> "error", p |-> p], NEW next, next = TextSaid(said, FALSE, p)
  PROVE  Speaks(client, "cc_generate", said, st, e, next, "error", NoBill) /\ SaidIn("cc_generate", next)
<1>. DEFINE none == FALSE
<1>1. SaidIn("cc_generate", TextSaid(said, none, p))
  <2>1. none \in BOOLEAN /\ ~none
    OBVIOUS
  <2>. HIDE DEF none
  <2>. QED
    BY <2>1, SaidText
<1>2. ~InOwnEvents(client, "cc_generate")
  BY DEF InOwnEvents
<1>3. \A x : Says("cc_generate", said, "none", st, x) =>
               Moves("cc_generate", next, "error", x, ChunkOf("cc_generate", st, e), {})
  BY MovesError
<1>. QED
  BY <1>1, <1>2, <1>3, ChunksSpeak

LEMMA SpeaksOpen ==
  ASSUME NEW client, NEW shape \in {"http_anthropic", "cc_messages"}, NEW said, SaidIn(shape, said), NEW st,
         NEW kind \in {"text", "call"}, NEW id, id = IF kind = "call" THEN CallCount(said) + 1 ELSE 0,
         NEW n, n = Len(said),
         NEW e, e = Open(n, kind, id), NEW next, next = Append(said, Item(n, kind, id, <<>>))
  PROVE  Speaks(client, shape, said, st, e, next, "none", NoBill) /\ SaidIn(shape, next)
<1>0. said \in Seq(Items) /\ n \in Nat /\ id \in Nat /\ Numbered(said) /\ Placed(said)
  BY CountTyped DEF SaidIn
<1>. DEFINE c == Item(n, kind, id, <<>>)
<1>1. c \in Items /\ c.at = n /\ c.kind = kind /\ c.id = id
  BY <1>0 DEF Item, Items
<1>. HIDE DEF c
<1>2. SaidIn(shape, next)
  <2>1. next \in Seq(Items) /\ Len(next) = n + 1 /\ next[n + 1] = c
        /\ \A i \in 1..n : next[i] = said[i]
    BY <1>0, <1>1 DEF c
  <2>2. Placed(next)
    BY <1>0, <1>1, <2>1 DEF Placed
  <2>3. kind = "call" => c.id = Len(CallsOf(said)) + 1
    BY <1>1 DEF CallCount
  <2>4. Numbered(next)
    BY <1>0, <1>1, <2>3, ContentAppend DEF c
  <2>. QED
    BY <2>1, <2>2, <2>4 DEF SaidIn
<1>3. CASE InOwnEvents(client, shape)
  <2>1. e \in Frames /\ e.d = "open" /\ e.at = n /\ e.kind = kind /\ e.id = id
    BY <1>0, FramesMade DEF Open
  <2>2. FitsEvent(said, "none", e)
    BY <1>0, <2>1 DEF FitsEvent
  <2>3. HearEvent(Heard(said, "none"), e) = Heard(next, "none")
    BY HearOpen
  <2>. QED
    BY <1>2, <1>3, <2>1, <2>2, <2>3, OwnSpeaks
<1>4. CASE ~InOwnEvents(client, shape)
  <2>1. \A x : Says(shape, said, "none", st, x) => Moves(shape, next, "none", x, ChunkOf(shape, st, e), {})
    <3>1. CASE kind = "text"
      BY <3>1, MovesOpenText
    <3>2. CASE kind = "call"
      BY <3>2, MovesOpenCall
    <3>. QED
      BY <3>1, <3>2
  <2>. QED
    BY <1>2, <1>4, <2>1, ChunksSpeak
<1>. QED
  BY <1>3, <1>4

LEMMA SpeaksClose ==
  ASSUME NEW client, NEW shape \in {"http_anthropic", "cc_messages"}, NEW said, SaidIn(shape, said), NEW st,
         NEW i \in 1..Len(said), said[i].open, NEW e, e = Close(i - 1), NEW next, next = Shut(said, i)
  PROVE  Speaks(client, shape, said, st, e, next, "none", NoBill) /\ SaidIn(shape, next)
<1>0. said \in Seq(Items) /\ Numbered(said) /\ Placed(said) /\ i - 1 \in Nat /\ (i - 1) + 1 = i
  BY DEF SaidIn
<1>1. SaidIn(shape, next)
  <2>1. /\ next \in Seq(Items) /\ Len(next) = Len(said)
        /\ \A j \in 1..Len(said) : next[j].at = said[j].at
    BY <1>0, ShutIs
  <2>2. Placed(next)
    BY <1>0, <2>1 DEF Placed
  <2>3. Numbered(next)
    BY <1>0, ContentShut
  <2>. QED
    BY <2>1, <2>2, <2>3 DEF SaidIn
<1>2. CASE InOwnEvents(client, shape)
  <2>1. e \in Frames /\ e.d = "close" /\ e.at = i - 1
    BY <1>0, FramesMade DEF Close
  <2>2. FitsEvent(said, "none", e)
    BY <1>0, <2>1 DEF FitsEvent
  <2>3. HearEvent(Heard(said, "none"), e) = Heard(next, "none")
    BY <1>0, <2>1, HearClose
  <2>. QED
    BY <1>1, <1>2, <2>1, <2>2, <2>3, OwnSpeaks
<1>3. CASE ~InOwnEvents(client, shape)
  <2>1. ASSUME NEW x, Says(shape, said, "none", st, x)
        PROVE  Moves(shape, next, "none", x, ChunkOf(shape, st, e), {})
    BY <2>1, MovesClose
  <2>. QED
    BY <1>1, <1>3, <2>1, ChunksSpeak
<1>. QED
  BY <1>2, <1>3

-----------------------------------------------------------------------------
(* Calls and their arguments, as each shape says them.                     *)
(* A call begins; the generate transport brings it whole. *)
CallItem(shape, said, p) ==
  IF shape = "cc_generate" THEN [at |-> CallCount(said), kind |-> "call", id |-> CallCount(said) + 1,
                                 parts |-> <<p>>, open |-> FALSE]
  ELSE [at |-> IF shape = "codex" THEN Len(said) ELSE CallCount(said), kind |-> "call",
        id |-> CallCount(said) + 1, parts |-> <<>>, open |-> TRUE]

CallEvent(shape, c) ==
  CASE shape = "codex" -> [ev |-> "item_added", at |-> c.at, id |-> c.id, args |-> c.parts]
    [] shape = "cc_generate" -> [ev |-> "tool_call", id |-> c.id, args |-> c.parts]
    [] OTHER -> Call(c.at, c.id, c.parts)

LEMMA CallItemTyped ==
  ASSUME NEW shape, NEW said \in Seq(Items), NEW p \in Nat, NEW c, c = CallItem(shape, said, p)
  PROVE  /\ c \in Items /\ c.kind = "call" /\ c.id = CallCount(said) + 1
         /\ shape = "codex" => c.at = Len(said)
         /\ shape # "codex" => c.at = CallCount(said)
         /\ shape = "cc_generate" => c.parts = <<p>>
         /\ shape # "cc_generate" => c.parts = <<>>
<1>1. CallCount(said) \in Nat /\ Len(said) \in Nat
  BY CountTyped
<1>2. CASE shape = "cc_generate"
  <2>. DEFINE o == <<p>>
  <2>1. o \in Seq(Nat)
    OBVIOUS
  <2>2. c = [at |-> CallCount(said), kind |-> "call", id |-> CallCount(said) + 1, parts |-> o, open |-> FALSE]
    BY <1>2 DEF CallItem
  <2>. HIDE DEF o
  <2>3. c \in Items /\ c.kind = "call" /\ c.id = CallCount(said) + 1 /\ c.at = CallCount(said) /\ c.parts = o
    BY <1>1, <2>1, <2>2 DEF Items
  <2>. QED
    BY <1>2, <2>3 DEF o
<1>3. CASE shape # "cc_generate"
  <2>. DEFINE at == IF shape = "codex" THEN Len(said) ELSE CallCount(said)
  <2>1. c = [at |-> at, kind |-> "call", id |-> CallCount(said) + 1, parts |-> <<>>, open |-> TRUE]
    BY <1>3 DEF CallItem
  <2>2. at \in Int
    BY <1>1
  <2>3. shape = "codex" => at = Len(said)
    OBVIOUS
  <2>4. shape # "codex" => at = CallCount(said)
    OBVIOUS
  <2>5. <<>> \in Seq(Nat)
    OBVIOUS
  <2>. HIDE DEF at
  <2>6. c \in Items /\ c.kind = "call" /\ c.id = CallCount(said) + 1 /\ c.at = at /\ c.parts = <<>>
    BY <1>1, <2>1, <2>2, <2>5 DEF Items
  <2>. QED
    BY <1>3, <2>3, <2>4, <2>6
<1>. QED
  BY <1>2, <1>3

LEMMA SpeaksCall ==
  ASSUME NEW client, NEW shape \in {"codex", "http_openai", "cc_chat", "cc_generate"},
         NEW said, SaidIn(shape, said), NEW st, NEW p \in Nat,
         NEW c, c = CallItem(shape, said, p), shape = "cc_generate" /\ ~ParallelLines => c.id = 1,
         NEW e, e = CallEvent(shape, c), NEW next, next = Append(said, c)
  PROVE  Speaks(client, shape, said, st, e, next, "none", NoBill)
<1>0. said \in Seq(Items)
  BY DEF SaidIn
<1>1. /\ c \in Items /\ c.kind = "call" /\ c.id = CallCount(said) + 1
      /\ shape = "codex" => c.at = Len(said)
      /\ shape # "codex" => c.at = CallCount(said)
      /\ shape = "cc_generate" => c.parts = <<p>>
      /\ shape # "cc_generate" => c.parts = <<>>
  BY <1>0, CallItemTyped
<1>2. ~InOwnEvents(client, shape)
  BY DEF InOwnEvents
<1>3. ASSUME NEW x, Says(shape, said, "none", st, x)
      PROVE  Moves(shape, next, "none", x, ChunkOf(shape, st, e), {})
  <2>1. CASE shape = "codex"
    <3>1. e = [ev |-> "item_added", at |-> c.at, id |-> c.id, args |-> <<>>]
      BY <1>1, <2>1 DEF CallEvent
    <3>. QED
      BY <1>1, <1>3, <2>1, <3>1, MovesCallCodex
  <2>2. CASE shape \in {"http_openai", "cc_chat"}
    <3>1. e = Call(c.at, c.id, <<>>)
      BY <1>1, <2>2 DEF CallEvent
    <3>2. c.at = CallCount(said) /\ c.parts = <<>>
      BY <1>1, <2>2
    <3>. QED
      BY <1>1, <1>3, <2>2, <3>1, <3>2, MovesCallChat
  <2>3. CASE shape = "cc_generate"
    <3>1. e = [ev |-> "tool_call", id |-> c.id, args |-> <<p>>]
      BY <1>1, <2>3 DEF CallEvent
    <3>. QED
      BY <1>1, <1>3, <2>3, <3>1, MovesCallGenerate
  <2>. QED
    BY <2>1, <2>2, <2>3
<1>. QED
  BY <1>2, <1>3, ChunksSpeak

LEMMA SaidInCall ==
  ASSUME NEW shape \in {"codex", "http_openai", "cc_chat", "cc_generate"},
         NEW said, SaidIn(shape, said), NEW p \in Nat,
         NEW c, c = CallItem(shape, said, p), NEW next, next = Append(said, c)
  PROVE  SaidIn(shape, next)
<1>0. said \in Seq(Items)
  BY DEF SaidIn
<1>1. NewCall(shape, said, c)
  <2>1. /\ c \in Items /\ c.kind = "call" /\ c.id = CallCount(said) + 1
        /\ shape = "codex" => c.at = Len(said)
        /\ shape # "codex" => c.at = CallCount(said)
    BY <1>0, CallItemTyped
  <2>. QED
    BY <2>1 DEF NewCall
<1>2. CallSaid(shape, said, c, next)
  BY <1>1, SaidCall
<1>. QED
  BY <1>2 DEF CallSaid

(* More arguments, for any call that is open. *)
ArgumentsEvent(shape, at, i, args) ==
  CASE shape = "codex" -> [ev |-> "arguments_delta", at |-> at, args |-> args]
    [] shape \in {"http_openai", "cc_chat"} -> Call(at, 0, args)
    [] shape \in {"http_anthropic", "cc_messages"} -> Delta(i - 1, args)

LEMMA SpeaksArguments ==
  ASSUME NEW client, NEW shape \in Shapes \ {"cc_generate"}, NEW said, SaidIn(shape, said), NEW st,
         NEW i \in 1..Len(said), said[i].kind = "call", said[i].open,
         NEW args \in Seq(Nat), args # <<>>,
         NEW e, e = ArgumentsEvent(shape, said[i].at, i, args), NEW next, next = Extend(said, i, args)
  PROVE  Speaks(client, shape, said, st, e, next, "none", NoBill) /\ SaidIn(shape, next)
<1>0. said \in Seq(Items)
  BY DEF SaidIn
<1>1. MoreOf(said, i, args, next)
  BY <1>0, ExtendMore
<1>2. SaidIn(shape, next)
  <2>1. MoreSaid(shape, said, i, args, next)
    BY <1>1, SaidMore
  <2>. QED
    BY <2>1 DEF MoreSaid
<1>3. CASE InOwnEvents(client, shape)
  <2>. DEFINE at == i - 1
  <2>1. at \in Nat /\ at + 1 = i /\ Placed(said) /\ e = Delta(at, args)
    BY <1>3 DEF InOwnEvents, ArgumentsEvent, SaidIn
  <2>. HIDE DEF at
  <2>2. e.d = "delta" /\ e.at = at /\ e.args = args
    BY <2>1 DEF Delta
  <2>3. e \in Frames
    BY <2>1, FramesMade
  <2>4. FitsEvent(said, "none", e)
    BY <2>1, <2>2 DEF FitsEvent
  <2>5. HearEvent(Heard(said, "none"), e) = Heard(Extend(said, e.at + 1, e.args), "none")
    BY <1>0, <2>1, <2>2, HearDelta
  <2>6. HearEvent(Heard(said, "none"), e) = Heard(next, "none")
    BY <2>1, <2>2, <2>5
  <2>. QED
    BY <1>2, <1>3, <2>2, <2>3, <2>4, <2>6, OwnSpeaks
<1>4. CASE ~InOwnEvents(client, shape)
  <2>1. ASSUME NEW x, Says(shape, said, "none", st, x)
        PROVE  Moves(shape, next, "none", x, ChunkOf(shape, st, e), {})
    <3>1. CASE shape = "codex"
      <4>1. e = [ev |-> "arguments_delta", at |-> said[i].at, args |-> args]
        BY <3>1 DEF ArgumentsEvent
      <4>. QED
        BY <1>1, <2>1, <3>1, <4>1, MovesArgumentsCodex
    <3>2. CASE shape \in {"http_openai", "cc_chat"}
      <4>1. e = Call(said[i].at, 0, args)
        BY <3>2 DEF ArgumentsEvent
      <4>. QED
        BY <1>1, <2>1, <3>2, <4>1, MovesMoreChat
    <3>3. CASE shape \in {"http_anthropic", "cc_messages"}
      <4>1. e = Delta(i - 1, args)
        BY <3>3 DEF ArgumentsEvent
      <4>. QED
        BY <1>1, <2>1, <3>3, <4>1, MovesMoreClaude
    <3>. QED
      BY <3>1, <3>2, <3>3 DEF Shapes
  <2>. QED
    BY <1>2, <1>4, <2>1, ChunksSpeak
<1>. QED
  BY <1>3, <1>4

(* Codex closes a call with its full arguments. *)
LEMMA SpeaksDone ==
  ASSUME NEW client, NEW said, SaidIn("codex", said), NEW st,
         NEW i \in 1..Len(said), said[i].kind = "call", NEW full \in Seq(Nat),
         said[i].parts # <<>> => full = said[i].parts,
         NEW ev \in {"arguments_done", "item_done"}, NEW open \in BOOLEAN,
         NEW e, e = [ev |-> ev, at |-> said[i].at, args |-> full],
         NEW next, next = Filled(said, i, full, open)
  PROVE  Speaks(client, "codex", said, st, e, next, "none", NoBill)
<1>1. ~InOwnEvents(client, "codex")
  BY DEF InOwnEvents
<1>2. ASSUME NEW x, Says("codex", said, "none", st, x)
      PROVE  Moves("codex", next, "none", x, ChunkOf("codex", st, e), {})
  BY <1>2, MovesDoneCodex
<1>. QED
  BY <1>1, <1>2, ChunksSpeak

LEMMA SaidInDone ==
  ASSUME NEW said, SaidIn("codex", said),
         NEW i \in 1..Len(said), said[i].kind = "call", NEW full \in Seq(Nat),
         said[i].parts # <<>> => full = said[i].parts, NEW open \in BOOLEAN,
         NEW next, next = Filled(said, i, full, open)
  PROVE  SaidIn("codex", next)
<1>0. said \in Seq(Items) /\ Numbered(said) /\ Placed(said)
  BY DEF SaidIn
<1>1. /\ next \in Seq(Items) /\ Len(next) = Len(said) /\ next[i].parts = full
      /\ \A j \in 1..Len(said) : j # i => next[j] = said[j]
      /\ \A j \in 1..Len(said) : /\ next[j].at = said[j].at /\ next[j].kind = said[j].kind
                                 /\ next[j].id = said[j].id
  BY <1>0, FilledIs
<1>2. Placed(next)
  BY <1>0, <1>1 DEF Placed
<1>3. said[i] \in Items
  BY <1>0
<1>4. CASE said[i].parts = <<>>
  <2>1. Longer(said, i, full, next)
    <3>1. <<>> \o full = full
      OBVIOUS
    <3>. QED
      BY <1>1, <1>4, <3>1 DEF Longer
  <2>2. Numbered(next)
    BY <1>0, <1>1, <2>1, ContentCall
  <2>. QED
    BY <1>1, <1>2, <2>2 DEF SaidIn
<1>5. CASE said[i].parts # <<>>
  <2>1. \A j \in 1..Len(said) : /\ next[j].kind = said[j].kind /\ next[j].id = said[j].id
                                /\ next[j].parts = said[j].parts
    BY <1>1, <1>5
  <2>2. Numbered(next)
    BY <1>0, <1>1, <2>1, ContentSame
  <2>. QED
    BY <1>1, <1>2, <2>2 DEF SaidIn
<1>. QED
  BY <1>4, <1>5

(* The reply is whole, or as long as it may be. *)
LEMMA SpeaksFinish ==
  ASSUME NEW client, NEW shape \in Shapes, NEW said, SaidIn(shape, said), NEW st,
         shape \in {"http_anthropic", "cc_messages"} => \A i \in 1..Len(said) : ~said[i].open,
         NEW why \in {"whole", "length"}, NEW bill, Billing(shape, why, bill),
         NEW u, u = FinishUsage(shape, bill), NEW e, e = FinishEvent(shape, why, ChatWord(said, why), u)
  PROVE  Speaks(client, shape, said, st, e, said, why, UsageOf(u))
<1>1. CASE InOwnEvents(client, shape)
  <2>. DEFINE word == FinishToStopReason(ChatWord(said, why))
  <2>1. shape \in {"http_anthropic", "cc_messages"} /\ e = Why(word, u)
    BY <1>1 DEF InOwnEvents, FinishEvent
  <2>2. word \in Whys /\ word # "none" /\ OwnWord(said, why) = word
    BY DEF FinishToStopReason, ChatWord, Whys, OwnWord
  <2>. HIDE DEF word
  <2>3. e \in Frames
    <3>1. u \in Usage
      BY FinishUsageIs
    <3>. QED
      BY <2>1, <2>2, <3>1, FramesMade
  <2>4. e.d = "why" /\ e.why = word /\ UsageIn(e) = UsageOf(u)
    <3>1. e.d = "why" /\ e.why = word
      BY <2>1 DEF Why
    <3>2. UsageIn(Why(word, u)) = UsageOf(u)
      BY DEF Why, UsageIn
    <3>. QED
      BY <2>1, <3>1, <3>2
  <2>5. Fits("messages", said, "none", e)
    BY <2>1, <2>2, <2>4 DEF Fits, FitsEvent
  <2>6. Hear("messages", Heard(said, "none"), e) = Heard(said, OwnWord(said, why))
    BY <2>2, <2>4 DEF Hear, HearEvent, Heard
  <2>. QED
    BY <1>1, <2>3, <2>4, <2>5, <2>6 DEF Speaks
<1>2. CASE ~InOwnEvents(client, shape)
  <2>1. ASSUME NEW x, Says(shape, said, "none", st, x)
        PROVE  Moves(shape, said, why, x, ChunkOf(shape, st, e), {UsageOf(u)} \ {NoBill})
    BY <2>1, MovesFinish
  <2>. QED
    BY <1>2, <2>1 DEF Speaks
<1>. QED
  BY <1>1, <1>2

-----------------------------------------------------------------------------
(* A chunk with the bill and no choice comes after the reason. Nothing is  *)
(* said with it; Messages events do not have it.                           *)
LEMMA ChunkIdle ==
  ASSUME NEW u \in Usage, NEW f, f = UsageChunk(u)
  PROVE  /\ f \in Frames /\ KeptOf(f) = {} /\ {UsageIn(f)} \ {NoBill} = {UsageOf(u)} \ {NoBill}
         /\ \A x : Fits("chat", x.items, x.why, f) /\ Hear("chat", x, f) = x
<1>1. f \in Frames /\ f.d = "usage" /\ UsageIn(f) = UsageOf(u)
  BY FramesMade, FramesBill DEF UsageChunk
<1>2. \A x : Fits("chat", x.items, x.why, f)
  BY <1>1 DEF Fits, FitsChat
<1>3. \A x : Hear("chat", x, f) = x
  BY <1>1, ChatIdle
<1>. QED
  BY <1>1, <1>2, <1>3 DEF KeptOf

LEMMA UsagePasses ==
  ASSUME NEW client, NEW shape \in {"http_openai", "cc_chat"}, NEW said, NEW why, NEW st, NEW brig, NEW w,
         Carries(client, shape, said, why, st, brig, w), NEW u \in Usage, NEW e, e = UsageChunk(u),
         NEW a, a = Adapted(client, shape, st, e), NEW b, b = Bridges(client, shape, brig, a)
  PROVE  Passed(client, shape, said, why, w, a, b, IF client = "messages" THEN NoBill ELSE UsageOf(u))
<1>. DEFINE o == <<e>>
<1>1. ~InOwnEvents(client, shape)
  BY DEF InOwnEvents
<1>2. a = Emits(st, o)
  BY <1>1 DEF Adapted, ChunkOf
<1>3. /\ e \in Frames /\ KeptOf(e) = {} /\ {UsageIn(e)} \ {NoBill} = {UsageOf(u)} \ {NoBill}
      /\ \A x : Fits("chat", x.items, x.why, e) /\ Hear("chat", x, e) = x
  BY ChunkIdle
<1>4. Kept(o) = {} /\ Billed(o) = {UsageOf(u)} \ {NoBill}
  BY <1>3, KeptOne, BilledOne
<1>5. ASSUME NEW x, Whole("chat", x) PROVE Road("chat", x, o, x)
  BY <1>3, <1>5, RoadOne
<1>. HIDE DEF o
<1>6. a.st = st /\ a.out = o
  BY <1>2, EmitsIs
<1>7. CASE client = "messages"
  <2>1. PICK x : Says(shape, said, why, st, x) /\ MessagesBridge(brig, x, w)
    BY <1>1, <1>7 DEF Carries
  <2>2. Road("chat", x, o, x)
    BY <1>5, <2>1 DEF Says
  <2>3. b = ToMessages(brig, o) /\ WireOf(client) = "messages"
    BY <1>1, <1>6, <1>7 DEF Bridges, WireOf
  <2>4. PICK v : /\ Road("messages", w, ToMessages(brig, o).out, v)
                 /\ MessagesBridge(ToMessages(brig, o).st, x, v)
                 /\ Billed(ToMessages(brig, o).out) = Kept(o)
    BY <2>1, <2>2, MessagesPasses
  <2>5. Carries(client, shape, said, why, a.st, b.st, v)
    BY <1>1, <1>6, <1>7, <2>1, <2>3, <2>4 DEF Carries
  <2>. QED
    BY <1>4, <1>7, <2>3, <2>4, <2>5, NothingBilled DEF Passed
<1>8. CASE client # "messages"
  <2>1. Says(shape, said, why, st, w)
    BY <1>1, <1>8 DEF Carries
  <2>2. Road("chat", w, o, w)
    BY <1>5, <2>1 DEF Says
  <2>3. b = Emits(brig, o) /\ WireOf(client) = "chat"
    BY <1>6, <1>8 DEF Bridges, WireOf
  <2>4. b.out = o
    BY <2>3, EmitsIs
  <2>5. Carries(client, shape, said, why, a.st, b.st, w)
    BY <1>1, <1>6, <1>8, <2>1 DEF Carries
  <2>. QED
    BY <1>4, <1>8, <2>2, <2>3, <2>4, <2>5 DEF Passed
<1>. QED
  BY <1>7, <1>8
=============================================================================
