---------------------------- MODULE Translators ----------------------------
(***************************************************************************)
(* The stream translators between an upstream and a client, each a state   *)
(* and a function from one event to the frames it causes. A piece of text  *)
(* or of a call's arguments is a number; `args` is a sequence of pieces.   *)
(*                                                                         *)
(* Chat chunks: role, text, call (a header when `id` is not 0, else more   *)
(* arguments), finish, usage, done. Messages and Responses events share    *)
(* their names: begin, open, delta, close, why, over.                      *)
(***************************************************************************)
EXTENDS Integers, Sequences, FiniteSets, SequencesExt, Functions

Emits(st, out) == [st |-> st, out |-> out]

NoUsage == [input |-> 0, cached |-> 0, output |-> 0, apart |-> FALSE]

Role == [d |-> "role"]
Text(p) == [d |-> "text", p |-> p]
Call(at, id, args) == [d |-> "call", at |-> at, id |-> id, args |-> args]
Finish(why, usage) == [d |-> "finish", why |-> why, usage |-> usage]
UsageChunk(usage) == [d |-> "usage", usage |-> usage]
Done == [d |-> "done"]

Begun(usage) == [d |-> "begin", usage |-> usage]
Open(at, kind, id) == [d |-> "open", at |-> at, kind |-> kind, id |-> id]
Delta(at, args) == [d |-> "delta", at |-> at, args |-> args]
Close(at) == [d |-> "close", at |-> at]
Why(why, usage) == [d |-> "why", why |-> why, usage |-> usage]
Over == [d |-> "over"]

With(f, k, v) == [x \in DOMAIN f \cup {k} |-> IF x = k THEN v ELSE f[x]]

-----------------------------------------------------------------------------
(* Usage: Chat and Responses count cached tokens in the input, Messages    *)
(* counts them apart (`apart`).                                            *)
UsageFromAll(u) == [u EXCEPT !.apart = u.cached > 0]   \* Fault model: cached tokens not deducted.

UsageFrom(u) == IF u.apart THEN u
                ELSE [u EXCEPT !.input = IF u.input > u.cached THEN u.input - u.cached ELSE 0,
                               !.apart = u.cached > 0]

OpenaiUsageFromClaude(u) == [u EXCEPT !.input = u.input + u.cached, !.apart = FALSE]

UsageOf(u) == [input |-> IF u.apart THEN u.input + u.cached ELSE u.input,
               cached |-> u.cached, output |-> u.output]

MaxOf(a, b) == IF a > b THEN a ELSE b
MergeUsage(best, u) == [input |-> MaxOf(best.input, u.input),
                        cached |-> MaxOf(best.cached, u.cached),
                        output |-> MaxOf(best.output, u.output)]

-----------------------------------------------------------------------------
(* Responses events of the Codex backend -> chat chunks. `sent` has the    *)
(* calls whose arguments were forwarded: some models send them as deltas,  *)
(* some only in the closing events, and the closing events come twice.     *)
CodexStart == [saw |-> FALSE, sent |-> {}]

ArgumentsNone(st, e) == e.args = <<>>   \* Fault model: what was forwarded is not remembered.

ArgumentsKnown(st, e) == e.args = <<>> \/ e.at \in st.sent

CodexChunk(st, e) ==
  CASE e.ev = "created" -> Emits(st, <<Role>>)
    [] e.ev = "text" -> Emits(st, <<Text(e.p)>>)
    [] e.ev = "item_added" ->
         Emits([saw |-> TRUE, sent |-> IF e.args = <<>> THEN st.sent ELSE st.sent \cup {e.at}],
               <<Call(e.at, e.id, e.args)>>)
    [] e.ev = "arguments_delta" ->
         Emits([st EXCEPT !.sent = @ \cup {e.at}], <<Call(e.at, 0, e.args)>>)
    [] e.ev \in {"arguments_done", "item_done"} ->
         IF ArgumentsKnown(st, e) THEN Emits(st, <<>>)
         ELSE Emits([st EXCEPT !.sent = @ \cup {e.at}], <<Call(e.at, 0, e.args)>>)
    [] e.ev = "completed" -> Emits(st, <<Finish(IF st.saw THEN "tool_calls" ELSE "stop", e.usage)>>)
    [] e.ev = "incomplete" -> Emits(st, <<>>)

(* Lines of the generate transport -> chat chunks. A call comes whole.     *)
GenerateStart == [saw |-> FALSE]

GenerateChunk(st, e) ==
  CASE e.ev = "text" -> Emits(st, <<Text(e.p)>>)
    [] e.ev = "tool_call" -> Emits([saw |-> TRUE], <<Call(0, e.id, e.args)>>)
    [] e.ev = "finish" ->
         Emits(st, <<Finish(IF e.why # "none" THEN e.why
                            ELSE IF st.saw THEN "tool_calls" ELSE "stop", e.usage)>>)
    [] e.ev = "error" -> Emits(st, <<Text(e.p), Finish("stop", NoUsage)>>)

(* Messages events -> chat chunks: the blocks that are calls are counted.  *)
OpenAiStart == [kinds |-> <<>>, tools |-> <<>>, next |-> 0]

BlockIndex(st, at) == at   \* Fault model: arguments go under the block's own index.

ToolIndex(st, at) == st.tools[at]

StopReasonToFinish(why) ==
  CASE why = "max_tokens" -> "length" [] why = "tool_use" -> "tool_calls" [] OTHER -> "stop"

ClaudeChunk(st, e) ==
  CASE e.d = "begin" -> Emits(st, <<Role>>)
    [] e.d = "open" /\ e.kind = "call" ->
         Emits([kinds |-> With(st.kinds, e.at, "call"), tools |-> With(st.tools, e.at, st.next),
                next |-> st.next + 1], <<Call(st.next, e.id, <<>>)>>)
    [] e.d = "open" /\ e.kind = "text" ->
         Emits([st EXCEPT !.kinds = With(@, e.at, "text")], <<>>)
    [] e.d = "delta" ->
         IF e.at \in DOMAIN st.kinds /\ st.kinds[e.at] = "call"
         THEN Emits(st, <<Call(ToolIndex(st, e.at), 0, e.args)>>)
         ELSE Emits(st, [i \in DOMAIN e.args |-> Text(e.args[i])])
    [] e.d = "why" -> Emits(st, <<Finish(IF DOMAIN st.tools # {} THEN "tool_calls"
                                         ELSE StopReasonToFinish(e.why),
                                         OpenaiUsageFromClaude(e.usage))>>)
    [] e.d \in {"close", "over"} -> Emits(st, <<>>)

-----------------------------------------------------------------------------
(* Chat chunks -> frames of another dialect: the first one is preceded by  *)
(* the frame that begins the reply, the first text opens an item.          *)
Begin(st) == IF st.started THEN <<>> ELSE <<Begun(NoUsage)>>

Started(st) == [st EXCEPT !.started = TRUE]

TextOpened(st) == [st EXCEPT !.text = st.next, !.next = st.next + 1]

(* Chat chunks -> Messages events: one text block, one block per call; all *)
(* are closed by the finish reason.                                        *)
ClaudeStart == [started |-> FALSE, next |-> 0, text |-> -1, tools |-> <<>>]

FinishAlwaysWell(why) ==   \* Fault model: a reply cut by its length is not told.
  IF why = "tool_calls" THEN "tool_use" ELSE "end_turn"

FinishToStopReason(why) ==
  CASE why = "length" -> "max_tokens" [] why = "tool_calls" -> "tool_use" [] OTHER -> "end_turn"

\* The order in which the blocks are closed: the text, then the calls.
Blocks(st) ==
  IF st.text < 0 THEN [i \in 1..st.next |-> i - 1]
  ELSE <<st.text>> \o [i \in 1..(st.next - 1) |-> IF i <= st.text THEN i - 1 ELSE i]

Closes(blocks) == [i \in DOMAIN blocks |-> Close(blocks[i])]

CallOpened(st, at) == [st EXCEPT !.tools = With(st.tools, at, st.next), !.next = st.next + 1]

ClaudeEvents(st, c) ==
  CASE c.d \in {"usage", "done"} -> Emits(st, <<>>)
    [] c.d = "role" -> Emits(Started(st), Begin(st))
    [] c.d = "text" /\ st.text >= 0 ->
         Emits(Started(st), Begin(st) \o <<Delta(st.text, <<c.p>>)>>)
    [] c.d = "text" /\ st.text < 0 ->
         Emits(TextOpened(Started(st)),
               Begin(st) \o <<Open(st.next, "text", 0), Delta(st.next, <<c.p>>)>>)
    [] c.d = "call" /\ c.at \in DOMAIN st.tools ->
         Emits(Started(st), Begin(st) \o <<Delta(st.tools[c.at], c.args)>>)
    [] c.d = "call" /\ c.at \notin DOMAIN st.tools /\ c.id # 0 ->
         Emits(CallOpened(Started(st), c.at),
               Begin(st) \o <<Open(st.next, "call", c.id), Delta(st.next, c.args)>>)
    [] c.d = "call" /\ c.at \notin DOMAIN st.tools /\ c.id = 0 -> Emits(Started(st), Begin(st))
    [] c.d = "finish" ->
         Emits(Started(st), Begin(st) \o Closes(Blocks(st))
                              \o <<Why(FinishToStopReason(c.why), UsageFrom(c.usage)), Over>>)

(* Chat chunks -> Responses events: a call closes the text item, later     *)
(* text opens another.                                                     *)
ResponsesStart == [started |-> FALSE, next |-> 0, text |-> -1, calls |-> <<>>,
                   truncated |-> FALSE, finished |-> FALSE]

TextKept(st) == st   \* Fault model: the closed text item takes later text too.

TextForgotten(st) == [st EXCEPT !.text = -1]

CloseText(st) == IF st.text >= 0 THEN <<Close(st.text)>> ELSE <<>>

CallAt(st, at) == SelectInSeq(st.calls, LAMBDA c : c.tool = at)

CallListed(st, at) ==
  [st EXCEPT !.calls = Append(st.calls, [tool |-> at, index |-> st.next]), !.next = st.next + 1]

CutShort(st, why) == [st EXCEPT !.truncated = st.truncated \/ why = "length"]

Feed(st, c) ==
  CASE st.finished -> Emits(st, <<>>)
    [] ~st.finished /\ c.d = "done" -> Emits(st, <<>>)
    [] ~st.finished /\ c.d \in {"role", "usage"} -> Emits(Started(st), Begin(st))
    [] ~st.finished /\ c.d = "text" /\ st.text >= 0 ->
         Emits(Started(st), Begin(st) \o <<Delta(st.text, <<c.p>>)>>)
    [] ~st.finished /\ c.d = "text" /\ st.text < 0 ->
         Emits(TextOpened(Started(st)),
               Begin(st) \o <<Open(st.next, "text", 0), Delta(st.next, <<c.p>>)>>)
    [] ~st.finished /\ c.d = "call" /\ CallAt(st, c.at) > 0 ->
         Emits(TextForgotten(Started(st)),
               Begin(st) \o CloseText(st) \o <<Delta(st.calls[CallAt(st, c.at)].index, c.args)>>)
    [] ~st.finished /\ c.d = "call" /\ CallAt(st, c.at) = 0 ->
         Emits(CallListed(TextForgotten(Started(st)), c.at),
               Begin(st) \o CloseText(st)
                 \o <<Open(st.next, "call", c.id), Delta(st.next, c.args)>>)
    [] ~st.finished /\ c.d = "finish" -> Emits(CutShort(Started(st), c.why), Begin(st))

CallIndexes(st) == [i \in DOMAIN st.calls |-> st.calls[i].index]

FinishResponse(st) ==
  IF st.finished THEN Emits(st, <<>>)
  ELSE Emits([st EXCEPT !.started = TRUE, !.text = -1, !.calls = <<>>, !.finished = TRUE],
             Begin(st) \o CloseText(st) \o Closes(CallIndexes(st))
               \o <<Why(IF st.truncated THEN "incomplete" ELSE "completed", NoUsage)>>)

-----------------------------------------------------------------------------
(* Replies that are not streamed to the client. *)
Spoken(items) == FoldLeft(LAMBDA said, i : IF i.kind = "text" THEN said \o i.parts ELSE said,
                          <<>>, items)

CallsOf(items) == FoldLeft(LAMBDA calls, i : IF i.kind = "call" THEN Append(calls, i) ELSE calls,
                           <<>>, items)

OneText(items) == [kind |-> "text", id |-> 0, parts |-> Spoken(items)]

\* The Codex aggregation keeps the text only, and always says "stop".
AggregateSse(said) == [items |-> <<OneText(said)>>, why |-> "stop"]

AggregateNdjson(said, why) == [items |-> <<OneText(said)>> \o CallsOf(said), why |-> why]

ClaudeJsonToOpenai(said, why) ==
  [items |-> <<OneText(said)>> \o CallsOf(said),
   why |-> IF CallsOf(said) # <<>> THEN "tool_calls" ELSE StopReasonToFinish(why)]

\* Calls are not reconstructed on this path.
OpenaiJsonToClaude(reply) ==
  [items |-> <<OneText(reply.items)>>, why |-> FinishToStopReason(reply.why)]

ChatToResponse(reply) ==
  [items |-> (IF OneText(reply.items).parts = <<>> THEN <<>> ELSE <<OneText(reply.items)>>)
               \o CallsOf(reply.items),
   why |-> IF reply.why = "length" THEN "incomplete" ELSE "completed"]
=============================================================================
