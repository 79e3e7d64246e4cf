------------------------------ MODULE Exchange ------------------------------
(***************************************************************************)
(* One exchange of a client with one upstream: the request is translated,  *)
(* the upstream's reply is translated back event by event, metered and     *)
(* copied on its way, and the client may leave at any moment. The client,  *)
(* the upstream and how a client's library reads a dialect are external.   *)
(***************************************************************************)
EXTENDS Requests, Translators

CONSTANTS MaxTurns,       \* turns of a conversation
          MaxPieces,      \* pieces of text and arguments in a reply
          MaxCalls,       \* tool calls in a reply
          MaxBlocks,      \* blocks of a Messages reply, text and calls
          MaxCapture,     \* chunks the dataset copy keeps
          ParallelLines   \* whether a generate reply may hold more than one call

ASSUME ExchangeBounds == /\ MaxTurns \in Nat /\ MaxPieces \in Nat
                         /\ MaxCalls \in Nat /\ MaxBlocks \in Nat /\ MaxCapture \in Nat
                         /\ ParallelLines \in BOOLEAN

VARIABLES ask,    \* who asks what, of which upstream, under which configuration
          phase,
          sent,   \* the request the upstream received
          up,     \* the upstream's reply so far
          conv,   \* state of the translator from the upstream's dialect to chat chunks
          brg,    \* state of the translator from chat chunks to the client's dialect
          queue,  \* frames that wait for the client to take them
          heard,  \* the reply as the client has it
          tap,    \* token meter
          tee     \* dataset copy

vars == <<ask, phase, sent, up, conv, brg, queue, heard, tap, tee>>

-----------------------------------------------------------------------------
(* Conversations. Turn i has the text i and the calls 10 i + 1, 10 i + 2.  *)
Clients == {"chat", "messages", "responses"}

Atom(is, n) == [is |-> is, n |-> n]

CallsIn(talk, i) == CASE talk[i] = "called" -> <<10 * i + 1>>
                      [] talk[i] = "called2" -> <<10 * i + 1, 10 * i + 2>>
                      [] OTHER -> <<>>

Atoms(is, ns) == [k \in DOMAIN ns |-> Atom(is, ns[k])]

TurnAtoms(talk, i) ==
  (IF talk[i] \in {"answered", "answered_typed"} THEN Atoms("result", CallsIn(talk, i - 1)) ELSE <<>>)
  \o (IF talk[i] \in {"called2", "answered"} THEN <<>> ELSE <<Atom("text", i)>>)
  \o Atoms("call", CallsIn(talk, i))
  \o (IF talk[i] = "picture" THEN <<Atom("image", i)>> ELSE <<>>)

Talks == UNION {{t \in [1..n -> {"typed", "picture", "spoke", "called", "called2", "answered",
                                 "answered_typed"}] :
                   \A i \in 1..n :
                     IF i % 2 = 0 THEN t[i] \in {"spoke", "called", "called2"}
                     ELSE \/ t[i] = "typed"
                          \/ t[i] = "picture" /\ i = 1
                          \/ t[i] \in {"answered", "answered_typed"} /\ i > 1
                               /\ t[i - 1] \in {"called", "called2"}} :
                n \in {k \in 1..MaxTurns : k % 2 = 1}}

TurnRole(i) == IF i % 2 = 0 THEN "assistant" ELSE "user"

MessagesTurn(talk, i) == <<Msg(TurnRole(i), TurnAtoms(talk, i))>>

ChatTurn(talk, i) ==
  LET body == TurnAtoms(talk, i)
      results == Pick("result", body)
      rest == SelectSeq(body, LAMBDA a : a.is # "result")
  IN  [k \in DOMAIN results |-> Msg("tool", <<results[k]>>)]
        \o (IF rest = <<>> THEN <<>> ELSE <<Msg(TurnRole(i), rest)>>)

ResponsesTurn(talk, i) ==
  LET body == TurnAtoms(talk, i)
      items(kind, role) == [k \in DOMAIN Pick(kind, body) |-> Msg(role, <<Pick(kind, body)[k]>>)]
      rest == SelectSeq(body, LAMBDA a : a.is \in {"text", "image"})
  IN  items("result", "function_call_output")
        \o (IF rest = <<>> THEN <<>> ELSE <<Msg(TurnRole(i), rest)>>)
        \o items("call", "function_call")

Asked(client, talk, effort) ==
  LET turns == FlattenSeq([i \in DOMAIN talk |->
                 CASE client = "messages" -> MessagesTurn(talk, i)
                   [] client = "chat" -> ChatTurn(talk, i)
                   [] client = "responses" -> ResponsesTurn(talk, i)])
      system == <<Atom("text", 0)>>
  IN  [system |-> IF client = "chat" THEN <<>> ELSE system,
       turns |-> IF client = "chat" THEN <<Msg("system", system)>> \o turns ELSE turns,
       effort |-> effort]

EffortFields(client) == CASE client = "chat" -> {"reasoning_effort"}
                          [] client = "responses" -> {"reasoning"}
                          [] client = "messages" -> {"output_config", "thinking"}

Efforts(client) == {NoEffort} \cup {[at |-> f, level |-> "high"] : f \in EffortFields(client)}

NoRequest == [system |-> <<>>, turns |-> <<>>, effort |-> NoEffort]
SilentUp == [said |-> <<>>, why |-> "none", src |-> "open", pieces |-> 0, started |-> FALSE,
             usage |-> NoUsage, bill |-> "none"]
NothingHeard == [items |-> <<>>, why |-> "none", body |-> "open"]

ConvStart(shape) == CASE shape = "codex" -> CodexStart
                      [] shape = "cc_generate" -> GenerateStart
                      [] shape \in {"http_anthropic", "cc_messages"} -> OpenAiStart
                      [] OTHER -> <<>>

BrgStart(client) == CASE client = "messages" -> ClaudeStart
                      [] client = "responses" -> ResponsesStart
                      [] OTHER -> <<>>

Init ==
  /\ ask \in UNION {[client : {c}, shape : Shapes, streamed : BOOLEAN, known : BOOLEAN,
                     configured : {"none", "low"}, effort : Efforts(c), talk : Talks] : c \in Clients}
  /\ ask.streamed
  /\ phase = "asking"
  /\ sent = NoRequest /\ up = SilentUp /\ conv = <<>> /\ brg = <<>> /\ queue = <<>>
  /\ heard = NothingHeard
  /\ tap = [best |-> UsageOf(NoUsage), recorded |-> 0]
  /\ tee = [items |-> <<>>, kept |-> 0, overflowed |-> FALSE, fired |-> 0, complete |-> FALSE]

(* build_request. *)
Send == /\ phase = "asking"
        /\ phase' = "sent"
        /\ sent' = BuildRequest(ask.client, ask.shape, ask.known, ask.configured,
                                Asked(ask.client, ask.talk, ask.effort))
        /\ UNCHANGED <<ask, up, conv, brg, queue, heard, tap, tee>>

(* The reply begins. What was asked plays no part in it any more, except   *)
(* whether the client wants it streamed.                                   *)
Answer == /\ phase = "sent"
          /\ phase' = "replying"
          /\ \E streamed \in BOOLEAN :
               ask' = [ask EXCEPT !.streamed = streamed, !.talk = <<>>, !.effort = NoEffort,
                                  !.known = FALSE, !.configured = "none"]
          /\ sent' = NoRequest
          /\ conv' = ConvStart(ask.shape)
          /\ brg' = BrgStart(ask.client)
          /\ UNCHANGED <<up, queue, heard, tap, tee>>

-----------------------------------------------------------------------------
(* How a client's library reads its dialect.                               *)
Item(at, kind, id, parts) ==
  [at |-> at, kind |-> kind, id |-> id, parts |-> parts, open |-> TRUE]

ItemAt(items, kind, at) ==
  SelectLastInSeq(items, LAMBDA i : i.at = at /\ (kind = "any" \/ i.kind = kind))

Extend(items, k, args) == [items EXCEPT ![k].parts = @ \o args]
Shut(items, k) == [items EXCEPT ![k].open = FALSE]
Filled(items, k, args, open) == [items EXCEPT ![k] = [@ EXCEPT !.parts = args, !.open = open]]
AllShut(items) == [i \in DOMAIN items |-> [items[i] EXCEPT !.open = FALSE]]

HearChat(h, c) ==
  LET k == IF c.d = "text" THEN ItemAt(h.items, "text", -1)
           ELSE IF c.d = "call" THEN ItemAt(h.items, "call", c.at) ELSE 0
  IN  CASE c.d = "text" -> [h EXCEPT !.items = IF k > 0 THEN Extend(@, k, <<c.p>>)
                                               ELSE Append(@, Item(-1, "text", 0, <<c.p>>))]
        [] c.d = "call" -> [h EXCEPT !.items = IF k > 0 THEN Extend(@, k, c.args)
                                               ELSE Append(@, Item(c.at, "call", c.id, c.args))]
        [] c.d = "finish" -> [h EXCEPT !.why = c.why, !.items = AllShut(@)]
        [] c.d \in {"role", "usage", "done"} -> h

HearEvent(h, e) ==
  LET k == IF e.d \in {"delta", "close"} THEN ItemAt(h.items, "any", e.at) ELSE 0
  IN  CASE e.d = "open" -> [h EXCEPT !.items = Append(@, Item(e.at, e.kind, e.id, <<>>))]
        [] e.d = "delta" -> [h EXCEPT !.items = IF k > 0 THEN Extend(@, k, e.args)
                                                ELSE Append(@, Item(e.at, "orphan", 0, e.args))]
        [] e.d = "close" -> [h EXCEPT !.items = IF k > 0 THEN Shut(@, k) ELSE @]
        [] e.d = "why" -> [h EXCEPT !.why = e.why]
        [] e.d \in {"begin", "over"} -> h

Hear(client, h, f) == IF client = "chat" THEN HearChat(h, f) ELSE HearEvent(h, f)

-----------------------------------------------------------------------------
(* The body on its way: the token meter reads each chunk, the dataset copy *)
(* keeps it, until either has enough.                                      *)
UsageIn(f) == IF f.d \in {"finish", "usage", "begin", "why"} /\ "usage" \in DOMAIN f
              THEN UsageOf(f.usage) ELSE UsageOf(NoUsage)

Metered(t, frames) ==
  [t EXCEPT !.best = FoldLeft(LAMBDA u, f : MergeUsage(u, UsageIn(f)), t.best, frames)]

CopiedAll(t, wire, frames) ==   \* Fault model: the copy has no limit.
  [t EXCEPT !.kept = @ + Len(frames)]

\* The copy with one more chunk; once over its limit it is given up.
Push(wire, c, f) ==
  IF c.overflowed THEN c
  ELSE IF c.kept = MaxCapture THEN [c EXCEPT !.overflowed = TRUE, !.items = <<>>]
  ELSE [c EXCEPT !.kept = @ + 1,
                 !.items = Hear(wire, [items |-> c.items, why |-> "none"], f).items]

Copied(t, wire, frames) ==
  LET c == FoldLeft(LAMBDA u, f : Push(wire, u, f), t, frames)
  IN  [t EXCEPT !.items = c.items, !.kept = c.kept, !.overflowed = c.overflowed]

\* The body ends, breaks or is dropped: the meter and the copy report, each once.
FiredTwice(t, complete) ==   \* Fault model: the drop guard is not disarmed.
  [t EXCEPT !.fired = @ + 1, !.complete = complete /\ ~t.overflowed]

FiredWhole(t, complete) ==   \* Fault model: an overflowed copy counts as complete.
  IF t.fired > 0 THEN t ELSE [t EXCEPT !.fired = 1, !.complete = complete]

Fired(t, complete) ==
  IF t.fired > 0 THEN t
  ELSE [t EXCEPT !.fired = 1, !.complete = complete /\ ~t.overflowed]

Recorded(t) == [t EXCEPT !.recorded = @ + 1]

\* The dialect of the body that leaves the proxy: Responses is put on later, around it.
Wire == IF ask.client = "messages" THEN "messages" ELSE "chat"

Raw == \/ ask.client = "messages" /\ ask.shape \in {"http_anthropic", "cc_messages"}
       \/ ask.client # "messages" /\ ask.shape \in {"http_openai", "cc_chat"}

ToChat(st, e) == CASE ask.shape = "codex" -> CodexChunk(st, e)
                   [] ask.shape = "cc_generate" -> GenerateChunk(st, e)
                   [] ask.shape \in {"http_anthropic", "cc_messages"} -> ClaudeChunk(st, e)
                   [] ask.shape \in {"http_openai", "cc_chat"} -> Emits(st, <<e>>)

Through(step(_, _), st, chunks) ==
  FoldLeft(LAMBDA acc, c : LET r == step(acc.st, c) IN Emits(r.st, acc.out \o r.out),
           Emits(st, <<>>), chunks)

ToMessages(st, chunks) == Through(ClaudeEvents, st, chunks)
ToResponses(st, chunks) == Through(Feed, st, chunks)

(* An event of the upstream passes the adapter, the meter and the copy,    *)
(* and for a Responses client the translator around them.                  *)
Pipe(e) ==
  LET a == IF Raw THEN Emits(conv, <<e>>) ELSE ToChat(conv, e)
      b == IF Wire = "messages" /\ ~Raw THEN ToMessages(brg, a.out) ELSE Emits(brg, a.out)
      r == IF ask.client = "responses" THEN ToResponses(b.st, b.out) ELSE b
  IN  /\ conv' = a.st
      /\ brg' = r.st
      /\ queue' = queue \o r.out
      /\ tap' = Metered(tap, b.out)
      /\ tee' = Copied(tee, Wire, b.out)

(* A reply the client did not ask to stream is only collected. *)
Passes(e) == IF ask.streamed THEN Pipe(e) ELSE UNCHANGED <<conv, brg, queue, tap, tee>>

-----------------------------------------------------------------------------
(* The upstream's reply, event by event. A stream is pulled: the next      *)
(* event is read when every frame of the last has been taken.              *)
Speaking == phase = "replying" /\ up.src = "open" /\ up.why = "none" /\ queue = <<>>

ChatShaped == ask.shape \in {"http_openai", "cc_chat"}
ClaudeShaped == ask.shape \in {"http_anthropic", "cc_messages"}

Calls == CallsOf(up.said)

OpenOnes == {i \in DOMAIN up.said : up.said[i].open}

(* The bill. Messages events are billed from the first one on: the last    *)
(* one has all of it again, or only the tokens of the reply.               *)
FirstBill == [input |-> 2, cached |-> 1, output |-> 1, apart |-> TRUE]
ReplyBill == [input |-> 0, cached |-> 0, output |-> 2, apart |-> FALSE]

Bill(apart) == [input |-> IF apart THEN 2 ELSE 3, cached |-> 1, output |-> 2, apart |-> apart]

Begins ==
  /\ Speaking /\ ~up.started /\ ask.shape # "cc_generate"
  /\ up' = [up EXCEPT !.started = TRUE, !.usage = IF ClaudeShaped THEN FirstBill ELSE @]
  /\ Passes(CASE ask.shape = "codex" -> [ev |-> "created"]
              [] ChatShaped -> Role
              [] ClaudeShaped -> Begun(FirstBill))
  /\ UNCHANGED <<ask, phase, sent, heard>>

Underway == Speaking /\ (up.started \/ ask.shape = "cc_generate")

\* Messages blocks are opened and closed one after the other; elsewhere text just comes.
SaysText ==
  LET p == up.pieces + 1
      n == Len(up.said)
      more == n > 0 /\ up.said[n].kind = "text" /\ up.said[n].open
  IN  /\ Underway /\ up.pieces < MaxPieces
      /\ ClaudeShaped => more
      /\ up' = [up EXCEPT !.pieces = p,
                          !.said = IF more THEN Extend(@, n, <<p>>)
                                   ELSE Append(@, Item(n, "text", 0, <<p>>))]
      /\ Passes(CASE ask.shape \in {"codex", "cc_generate"} -> [ev |-> "text", p |-> p]
                  [] ChatShaped -> Text(p)
                  [] ClaudeShaped -> Delta(n - 1, <<p>>))
      /\ UNCHANGED <<ask, phase, sent, heard>>

SaysError ==
  LET p == up.pieces + 1
  IN  /\ Underway /\ ask.shape = "cc_generate" /\ ask.streamed /\ up.pieces < MaxPieces
      /\ up' = [up EXCEPT !.pieces = p, !.why = "error",
                          !.said = Append(@, Item(Len(@), "text", 0, <<p>>))]
      /\ Passes([ev |-> "error", p |-> p])
      /\ UNCHANGED <<ask, phase, sent, heard>>

OpensBlock ==
  LET n == Len(up.said)
      id == Len(Calls) + 1
  IN  /\ Underway /\ ClaudeShaped /\ OpenOnes = {} /\ n < MaxBlocks
      /\ \E kind \in {"text", "call"} :
           /\ kind = "call" => Len(Calls) < MaxCalls
           /\ up' = [up EXCEPT !.said = Append(@, Item(n, kind, IF kind = "call" THEN id ELSE 0, <<>>))]
           /\ Passes(Open(n, kind, IF kind = "call" THEN id ELSE 0))
      /\ UNCHANGED <<ask, phase, sent, heard>>

ClosesBlock ==
  /\ Underway /\ ClaudeShaped
  /\ \E i \in OpenOnes : /\ up' = [up EXCEPT !.said = Shut(@, i)]
                         /\ Passes(Close(i - 1))
  /\ UNCHANGED <<ask, phase, sent, heard>>

\* A call begins; a line of the generate transport brings it whole.
SaysCall ==
  LET n == Len(up.said)
      id == Len(Calls) + 1
      whole == ask.shape = "cc_generate"
      args == IF whole THEN <<up.pieces + 1>> ELSE <<>>
      at == IF ask.shape = "codex" THEN n ELSE id - 1
  IN  /\ Underway /\ ~ClaudeShaped /\ id <= MaxCalls /\ up.pieces < MaxPieces
      /\ whole /\ ask.streamed /\ ~ParallelLines => id = 1
      /\ up' = [up EXCEPT !.pieces = @ + Len(args),
                          !.said = Append(@, [Item(at, "call", id, args) EXCEPT !.open = ~whole])]
      /\ Passes(CASE ask.shape = "codex" -> [ev |-> "item_added", at |-> at, id |-> id, args |-> args]
                  [] whole -> [ev |-> "tool_call", id |-> id, args |-> args]
                  [] ChatShaped -> Call(at, id, args))
      /\ UNCHANGED <<ask, phase, sent, heard>>

\* More arguments, for any call that is open.
SaysArguments ==
  LET p == up.pieces + 1
  IN  /\ Underway /\ up.pieces < MaxPieces
      /\ \E i \in OpenOnes :
           /\ up.said[i].kind = "call"
           /\ up' = [up EXCEPT !.pieces = p, !.said = Extend(@, i, <<p>>)]
           /\ Passes(CASE ask.shape = "codex" ->
                            [ev |-> "arguments_delta", at |-> up.said[i].at, args |-> <<p>>]
                       [] ChatShaped -> Call(up.said[i].at, 0, <<p>>)
                       [] ClaudeShaped -> Delta(i - 1, <<p>>))
      /\ UNCHANGED <<ask, phase, sent, heard>>

\* Codex closes a call with its full arguments, twice; some models send them only here.
ArgumentsDone ==
  /\ Underway /\ ask.shape = "codex"
  /\ \E i \in OpenOnes, ev \in {"arguments_done", "item_done"} :
       LET item == up.said[i]
           late == item.parts = <<>> /\ up.pieces < MaxPieces
           full == IF late THEN <<up.pieces + 1>> ELSE item.parts
       IN  /\ item.kind = "call"
           /\ up' = [up EXCEPT !.pieces = @ + IF late THEN 1 ELSE 0,
                               !.said = Filled(@, i, full, ev = "arguments_done")]
           /\ Passes([ev |-> ev, at |-> item.at, args |-> full])
  /\ UNCHANGED <<ask, phase, sent, heard>>

(* How the bill comes: whole with the reason, split between the first      *)
(* event and the last, in a chunk of its own after the reason if at all,   *)
(* or, for a Codex reply that was too long, in an event nobody reads.      *)
Bills(why) ==
  IF ask.shape = "codex" /\ why = "length" THEN {"apart"}
  ELSE {"whole"} \cup (IF ask.streamed /\ ClaudeShaped THEN {"split"} ELSE {})
                 \cup (IF ask.streamed /\ ChatShaped THEN {"none"} ELSE {})

LastBill(bill) == CASE bill = "whole" -> Bill(ClaudeShaped)
                    [] bill = "split" -> ReplyBill
                    [] OTHER -> NoUsage

\* The reply is whole.
Finishes ==
  /\ Underway /\ up.said # <<>>
  /\ ask.shape \in {"codex", "http_anthropic", "cc_messages"} =>
       \A i \in OpenOnes : up.said[i].kind = "text" /\ ~ClaudeShaped
  /\ \E why \in {"whole", "length"} : \E bill \in Bills(why) :
       LET chat == IF why = "length" THEN "length" ELSE IF Calls # <<>> THEN "tool_calls" ELSE "stop"
       IN  /\ up' = [up EXCEPT !.why = why, !.bill = bill,
                               !.usage = IF bill = "none" THEN @ ELSE Bill(ClaudeShaped)]
           /\ Passes(CASE ask.shape = "codex" /\ why = "whole" -> [ev |-> "completed", usage |-> LastBill(bill)]
                       [] ask.shape = "codex" /\ why = "length" -> [ev |-> "incomplete"]
                       [] ask.shape = "cc_generate" -> [ev |-> "finish", usage |-> LastBill(bill),
                            why |-> IF chat = "stop" THEN "none" ELSE chat]
                       [] ChatShaped -> Finish(chat, LastBill(bill))
                       [] ClaudeShaped -> Why(FinishToStopReason(chat), LastBill(bill)))
  /\ UNCHANGED <<ask, phase, sent, heard>>

\* The chunk with the bill and no choice.
SaysUsage ==
  /\ phase = "replying" /\ up.src = "open" /\ queue = <<>>
  /\ ChatShaped /\ ask.streamed /\ up.why # "none" /\ up.bill = "none"
  /\ up' = [up EXCEPT !.bill = "apart", !.usage = Bill(FALSE)]
  /\ Passes(UsageChunk(Bill(FALSE)))
  /\ UNCHANGED <<ask, phase, sent, heard>>

(* The stream stops: at its end, because the connection breaks, because an *)
(* event outgrows the buffer, or because the last event was an error. Each *)
(* translator ends its own way: most put [DONE] at an end, none at an      *)
(* error, the reframing ones also when the buffer overflows; a Responses   *)
(* reply is always closed properly.                                        *)
EndMark(how) ==
  CASE Raw -> IF how = "end" /\ up.why # "none" THEN <<IF Wire = "chat" THEN Done ELSE Over>> ELSE <<>>
    [] ~Raw /\ Wire = "messages" -> <<>>
    [] ~Raw /\ Wire = "chat" -> IF how = "end" \/ (how = "overflow" /\ ClaudeShaped) THEN <<Done>> ELSE <<>>

Stops ==
  /\ phase = "replying" /\ up.src = "open" /\ queue = <<>> /\ ask.streamed
  /\ \E how \in IF up.why = "error" THEN {"given up"} ELSE {"end", "error", "overflow"} :
       LET last == IF ask.client = "responses" THEN FinishResponse(brg) ELSE Emits(brg, EndMark(how))
       IN  /\ how = "overflow" => ~Raw \/ ask.client = "responses"
           /\ up' = [up EXCEPT !.src = IF how = "error" THEN "broken" ELSE "ended"]
           /\ brg' = last.st
           /\ queue' = last.out
           /\ tee' = Fired(Copied(tee, Wire, EndMark(how)), how \in {"end", "given up"} \/ (how = "overflow" /\ ~Raw))
  /\ UNCHANGED <<ask, phase, sent, conv, heard, tap>>

\* The client takes one frame.
Takes ==
  /\ phase = "replying" /\ queue # <<>>
  /\ LET h == Hear(ask.client, [items |-> heard.items, why |-> heard.why], Head(queue))
     IN  heard' = [heard EXCEPT !.items = h.items, !.why = h.why]
  /\ queue' = Tail(queue)
  /\ UNCHANGED <<ask, phase, sent, up, conv, brg, tap, tee>>

BodyEndsWell ==   \* Fault model: a broken stream does not end the body.
  /\ phase = "replying" /\ up.src = "ended" /\ queue = <<>> /\ ask.streamed
  /\ phase' = "ended"
  /\ heard' = [heard EXCEPT !.body = "clean"]
  /\ tee' = Fired(tee, TRUE)
  /\ tap' = Recorded(tap)
  /\ UNCHANGED <<ask, sent, up, conv, brg, queue>>

\* The body has ended and is dropped.
BodyEnds ==
  /\ phase = "replying" /\ up.src # "open" /\ queue = <<>> /\ ask.streamed
  /\ phase' = "ended"
  /\ heard' = [heard EXCEPT !.body = IF up.src = "ended" \/ ask.client = "responses" THEN "clean" ELSE "broken"]
  /\ tee' = Fired(tee, up.src = "ended")
  /\ tap' = Recorded(tap)
  /\ UNCHANGED <<ask, sent, up, conv, brg, queue>>

\* The client leaves: the body is dropped where it stands.
Leaves ==
  /\ phase = "replying" /\ ask.streamed
  /\ phase' = "ended"
  /\ heard' = [heard EXCEPT !.body = "left"]
  /\ tee' = Fired(tee, FALSE)
  /\ tap' = Recorded(tap)
  /\ UNCHANGED <<ask, sent, up, conv, brg, queue>>

(* A reply that is not streamed is collected, then translated at once.     *)
Buffered ==
  LET why == IF up.why = "whole" THEN IF Calls # <<>> THEN "tool_calls" ELSE "stop" ELSE up.why
      chat == CASE ask.shape = "codex" -> AggregateSse(up.said)
                [] ask.shape = "cc_generate" -> AggregateNdjson(up.said, why)
                [] ChatShaped -> [items |-> <<OneText(up.said)>> \o CallsOf(up.said), why |-> why]
                [] ClaudeShaped -> ClaudeJsonToOpenai(up.said, FinishToStopReason(why))
      billed == IF ask.shape = "codex" /\ up.bill = "apart" THEN NoUsage ELSE up.usage
      usage == CASE ~Raw /\ Wire = "messages" -> UsageFrom(billed)
                 [] ~Raw /\ ClaudeShaped -> OpenaiUsageFromClaude(billed)
                 [] OTHER -> billed
      reply == CASE Raw /\ Wire = "messages" -> [items |-> up.said, why |-> FinishToStopReason(why)]
                 [] ~Raw /\ Wire = "messages" -> OpenaiJsonToClaude(chat)
                 [] ask.client = "responses" -> ChatToResponse(chat)
                 [] OTHER -> chat
  IN  /\ phase = "replying" /\ ~ask.streamed /\ up.why # "none"
      /\ phase' = "ended"
      /\ up' = [up EXCEPT !.src = "ended"]
      /\ heard' = [items |-> reply.items, why |-> reply.why, body |-> "clean"]
      /\ tap' = Recorded([tap EXCEPT !.best = UsageOf(usage)])
      /\ tee' = Fired(tee, TRUE)
      /\ UNCHANGED <<ask, sent, conv, brg, queue>>

(* Or the upstream breaks off, or says what is no reply. An adapter that   *)
(* collects the reply has failed; one that has nothing to translate relays *)
(* the body as it comes, so that the meter and the copy have seen it, and  *)
(* only a Responses client, whose reply is collected after them, is told.  *)
Relayed == Raw /\ ask.shape \in {"http_openai", "http_anthropic"}

NoReply ==
  /\ phase = "replying" /\ ~ask.streamed /\ up.why = "none"
  /\ phase' = "ended"
  /\ up' = [up EXCEPT !.src = "broken"]
  /\ heard' = [heard EXCEPT !.body = IF Relayed /\ ask.client # "responses" THEN "broken" ELSE "refused"]
  /\ tap' = IF Relayed THEN Recorded(tap) ELSE tap
  /\ tee' = IF Relayed THEN Fired(tee, FALSE) ELSE tee
  /\ UNCHANGED <<ask, sent, conv, brg, queue>>

Rests == phase = "ended" /\ UNCHANGED vars

Next == \/ Send \/ Answer
        \/ Begins \/ SaysText \/ SaysError \/ OpensBlock \/ ClosesBlock \/ SaysCall
        \/ SaysArguments \/ ArgumentsDone \/ Finishes \/ SaysUsage \/ Stops \/ Takes
        \/ BodyEnds \/ Leaves \/ Buffered \/ NoReply \/ Rests

(* The server polls a body whose client takes it, and the HTTP client's    *)
(* read timeout ends an upstream that says nothing: no frame waits for     *)
(* ever and no reply stays open for ever. The fairness of Send is stated   *)
(* by the one variable that only Send changes.                             *)
Fairness == /\ WF_phase(phase = "asking" /\ phase' = "sent")
            /\ WF_vars(Answer) /\ WF_vars(Takes) /\ WF_vars(Stops)
            /\ WF_vars(BodyEnds) /\ WF_vars(Buffered \/ NoReply)

Spec == Init /\ [][Next]_vars /\ Fairness

-----------------------------------------------------------------------------
(* The types, and that only what was asked is answered. *)
TypeOK ==
  /\ phase \in {"asking", "sent", "replying", "ended"}
  /\ ask.client \in Clients /\ ask.shape \in Shapes
  /\ up.src \in {"open", "ended", "broken"} /\ up.pieces <= MaxPieces
  /\ tee.kept <= MaxCapture
  /\ \A i \in DOMAIN heard.items : heard.items[i].kind \in {"text", "call"}

Bodies(turns) == FlattenSeq([i \in DOMAIN turns |-> turns[i].body])

Truth == <<Atom("text", 0)>> \o FlattenSeq([i \in DOMAIN ask.talk |-> TurnAtoms(ask.talk, i)])

\* Calls of the conversation that are answered in it.
Answered == {a.n : a \in {x \in ToSet(Truth) : x.is = "result"}}

(* The upstream gets the whole conversation in its order, whatever the two *)
(* dialects are: every text, image, call and result. The generate          *)
(* transport is the exception for calls nobody answered.                   *)
TurnsKept ==
  phase = "sent" =>
    sent.system \o Bodies(sent.turns)
      = SelectSeq(Truth, LAMBDA a : a.is = "call" /\ ask.shape = "cc_generate" => a.n \in Answered)

RolesOf(shape) ==
  CASE shape = "codex" -> {"developer", "user", "assistant", "function_call", "function_call_output"}
    [] shape \in {"http_openai", "cc_chat"} -> {"system", "user", "assistant", "tool"}
    [] shape = "cc_generate" -> {"user", "assistant", "tool"}
    [] shape \in {"http_anthropic", "cc_messages"} -> {"user", "assistant"}

NumbersOf(kind, m) == {a.n : a \in ToSet(Pick(kind, m.body))}

(* No upstream refuses the request for its shape: only roles it knows,     *)
(* every result after its call, calls on the assistant's side only; and    *)
(* Command Code's Messages endpoint finds all the results of a turn of     *)
(* calls in the next message.                                              *)
WellShaped ==
  phase = "sent" =>
    \A i \in DOMAIN sent.turns :
      LET m == sent.turns[i] IN
      /\ m.role \in RolesOf(ask.shape)
      /\ NumbersOf("call", m) # {} => m.role \in {"assistant", "function_call"}
      /\ \A n \in NumbersOf("result", m) :
           \E j \in 1..(i - 1) : n \in NumbersOf("call", sent.turns[j])
      /\ ask.shape = "cc_messages" /\ NumbersOf("result", m) # {} =>
           NumbersOf("result", m) = NumbersOf("call", sent.turns[i - 1])
      /\ ask.shape = "cc_generate" =>
           NumbersOf("call", m) \subseteq UNION {NumbersOf("result", sent.turns[j]) : j \in DOMAIN sent.turns}

(* Every turn of a conversation gets the cache key its first turn got.     *)
CacheKeyStable ==
  phase = "asking" /\ ask.shape = "codex" =>
    \A k \in DOMAIN ask.talk :
      LET q(t) == IF ask.client = "messages" THEN ClaudeToOpenai(Asked("messages", t, ask.effort))
                  ELSE IF ask.client = "responses" THEN ResponsesToChat(Asked("responses", t, ask.effort))
                  ELSE Asked("chat", t, ask.effort)
      IN  ConversationKey(q(SubSeq(ask.talk, 1, k)), "caller") = ConversationKey(q(ask.talk), "caller")

(* A level that reaches an upstream is in the field that upstream reads,   *)
(* so a configured default never turns a working request into a refused    *)
(* one, and where the client asked for none the default is what is sent.   *)
EffortFits ==
  phase = "sent" =>
    /\ sent.effort.at \in
         (CASE ask.shape = "codex" -> {"reasoning"}
            [] ask.shape \in {"http_openai", "cc_chat"} -> {"none", "reasoning_effort"}
            [] ask.shape \in {"http_anthropic", "cc_messages"} ->
                 {"none", "thinking"} \cup (IF Raw THEN {"output_config"} ELSE {})
            [] ask.shape = "cc_generate" -> {"none"})
    /\ ask.effort = NoEffort /\ ask.configured # "none" =>
         IF ask.shape \in {"codex", "cc_messages"} \/ (ask.known /\ ask.shape \in {"http_openai", "http_anthropic"})
         THEN sent.effort.level = ask.configured ELSE sent.effort = NoEffort

(* docs/CLIENTS.md: "A client's own effort choice is forwarded to the      *)
(* provider and beats the provider's configured default_reasoning_effort". *)
ClientEffortWins ==
  phase = "sent" /\ ask.effort # NoEffort /\ ask.configured # "none" =>
    sent.effort.level # ask.configured

-----------------------------------------------------------------------------
CallsHeard(items) == [i \in DOMAIN CallsOf(items) |->
                        <<CallsOf(items)[i].id, CallsOf(items)[i].parts>>]

\* On these paths a reply that is not streamed carries its text only.
TextOnly == ~ask.streamed /\ (ask.shape = "codex" \/ (ask.client = "messages" /\ ~Raw))

Finished == phase = "ended" /\ heard.body = "clean" /\ up.why # "none"

(* What the client hears is what the upstream says: at any moment its text *)
(* and the arguments of each of its calls are a beginning of the           *)
(* upstream's, and all of it once a finished reply has been delivered.     *)
(* The code does not keep this for a generate stream of several calls,     *)
(* which all get the index 0 (commandcode/transform.rs): only with         *)
(* ParallelLines = FALSE, when such a stream has one call at most, does it *)
(* hold for that transport.                                                *)
HeardIsSaid ==
  LET h == CallsHeard(heard.items)
      s == CallsHeard(up.said)
  IN  /\ IsPrefix(Spoken(heard.items), Spoken(up.said))
      /\ Len(h) <= Len(s)
      /\ \A i \in DOMAIN h : h[i][1] = s[i][1] /\ IsPrefix(h[i][2], s[i][2])
      /\ Finished => /\ Spoken(heard.items) = Spoken(up.said)
                     /\ ~TextOnly => h = s

\* The client's dialect's word for a reply that ended of itself, and for one cut by its length.
EndedWell == {"stop", "tool_calls", "end_turn", "tool_use", "completed"}
EndedShort == {"length", "max_tokens", "incomplete"}

(* The reason the client is given is the upstream's. A reply that was cut  *)
(* is not given one, except in Responses, whose events have none for it;   *)
(* Codex tells a reply that is too long from a cut one only in events that *)
(* are not translated, and a Messages reply with calls always ends in a    *)
(* call in the other dialects.                                             *)
ReasonIsTrue ==
  ask.client # "responses" \/ ~ask.streamed =>
    /\ heard.why # "none" => up.why # "none"
    /\ Finished /\ up.why = "whole" => heard.why \in EndedWell
    /\ Finished /\ up.why = "length" /\ ask.shape # "codex"
         /\ ~(ClaudeShaped /\ Calls # <<>>) => heard.why \in EndedShort

(* Whatever ends a body, its end, a break, the client leaving or several   *)
(* of them in any order, it is metered once and copied once, and not       *)
(* before it ends; an attempt whose reply was to be collected and never    *)
(* came is neither. A stream's copy that calls itself complete is one      *)
(* whose upstream has ended.                                               *)
ReportedOnce ==
  /\ tap.recorded = IF phase = "ended" /\ (heard.body # "refused" \/ Relayed) THEN 1 ELSE 0
  /\ tee.fired \in {0, 1}
  /\ phase = "ended" => tee.fired = tap.recorded
  /\ tee.complete => tee.fired = 1 /\ (ask.streamed => up.src = "ended")

NoMore(a, b) == a.input <= b.input /\ a.cached <= b.cached /\ a.output <= b.output

(* What is reported is true. A stream that is passed through untranslated  *)
(* has been metered, at any moment and however it ends, for what it was    *)
(* billed so far, whether the bill comes whole, split over events or in a  *)
(* chunk of its own. A reply that is translated is metered for its bill    *)
(* when all of it comes with the reason, through any number of conversions *)
(* between the two ways of counting cached tokens. In the other ways of    *)
(* billing the translators lose tokens (SplitIsMetered is what they break, *)
(* and a usage chunk to a Messages client and the end of a Codex reply     *)
(* that was too long are dropped): then, as always, no more is reported    *)
(* than was billed. And a copy that says it is complete has all the text   *)
(* and calls of the reply the client was sent. Tokens spent on filling the *)
(* upstream's cache are not modelled.                                      *)
ReportIsTrue ==
  /\ ask.streamed /\ Raw => tap.best = UsageOf(up.usage)
  /\ Finished /\ up.bill = "whole" => tap.best = UsageOf(up.usage)
  /\ NoMore(tap.best, UsageOf(up.usage))
  /\ tee.complete /\ phase = "ended" /\ ask.streamed /\ heard.body = "clean" =>
       /\ Spoken(tee.items) = Spoken(heard.items)
       /\ CallsHeard(tee.items) = CallsHeard(heard.items)

(* src/telemetry/usage.rs: "usage taken as the max seen per field since    *)
(* providers report it cumulatively or split across events".               *)
SplitIsMetered == Finished /\ up.bill = "split" => tap.best = UsageOf(up.usage)

(* Every exchange comes to its end. *)
ExchangeEnds == <>(phase = "ended")

(* A streamed reply is a reply: items begin, grow and close in order, one  *)
(* reason ends them, and a dialect that closes its items has closed them.  *)
Streamed == INSTANCE Reply WITH
              items <- IF ask.streamed THEN heard.items ELSE <<>>,
              why <- IF ask.streamed THEN heard.why ELSE "none"

ClosedFirst == [][ask.streamed /\ ask.client # "chat" /\ heard'.why # heard.why =>
                    Streamed!ConcludeClosed]_vars

IsReply == Streamed!Spec /\ ClosedFirst
=============================================================================
