------------------------------ MODULE Requests ------------------------------
(***************************************************************************)
(* The translation of a request between the dialects a client can speak    *)
(* (Messages, Chat Completions, Responses) and the shapes an upstream      *)
(* takes. A message is a role and a sequence of atoms; an atom is a text,  *)
(* an image, a tool call or a tool result, with a number that tells it     *)
(* from the others (a result has the number of the call it answers).       *)
(***************************************************************************)
EXTENDS Integers, Sequences, FiniteSets, SequencesExt

Msg(role, body) == [role |-> role, body |-> body]

Pick(kind, body) == SelectSeq(body, LAMBDA a : a.is = kind)

NoEffort == [at |-> "none", level |-> "none"]

ClaudeMessageMixed(m) ==   \* Fault model: one message per turn, results and text together.
  LET results == Pick("result", m.body)
  IN  IF results # <<>> THEN <<Msg("tool", results)>> ELSE <<m>>

(* One Messages turn becomes one or several chat messages: every result a  *)
(* `tool` message of its own, then what was typed with them; or the calls  *)
(* with their text; or text before images.                                 *)
ClaudeMessage(m) ==
  LET texts == Pick("text", m.body)
      calls == Pick("call", m.body)
      results == Pick("result", m.body)
      typed == IF texts = <<>> THEN <<>> ELSE <<Msg("user", texts)>>
  IN  CASE results # <<>> -> [i \in DOMAIN results |-> Msg("tool", <<results[i]>>)] \o typed
        [] results = <<>> /\ calls # <<>> -> <<Msg("assistant", texts \o calls)>>
        [] OTHER -> <<Msg(m.role, texts \o Pick("image", m.body))>>

(* `output_config.effort` or an enabled `thinking` budget, as a chat level. *)
EffortFromAnthropic(effort) ==
  IF effort.at \in {"output_config", "thinking"} THEN [effort EXCEPT !.at = "reasoning_effort"]
  ELSE NoEffort

ClaudeToOpenai(q) ==
  [system |-> <<>>,
   turns |-> (IF q.system = <<>> THEN <<>> ELSE <<Msg("system", q.system)>>)
               \o FlattenSeq([i \in DOMAIN q.turns |-> ClaudeMessage(q.turns[i])]),
   effort |-> EffortFromAnthropic(q.effort)]

(* A chat message becomes one Messages turn. *)
OpenaiMessage(m) == IF m.role = "tool" THEN Msg("user", m.body) ELSE m

OpenaiToClaude(q) ==
  LET IsSystem(m) == m.role = "system"
      spoken == SelectSeq(q.turns, LAMBDA m : ~IsSystem(m))
  IN  [system |-> FlattenSeq([i \in DOMAIN SelectSeq(q.turns, IsSystem) |->
                                SelectSeq(q.turns, IsSystem)[i].body]),
       turns |-> [i \in DOMAIN spoken |-> OpenaiMessage(spoken[i])],
       effort |-> NoEffort]

(* Command Code's Messages endpoint wants the results of one turn together. *)
ResultsOnly(m) == m.role = "user" /\ m.body # <<>> /\ Pick("result", m.body) = m.body

MergeNothing(turns) == turns   \* Fault model: parallel results stay in turns of their own.

MergeResults(turns) ==
  FoldLeft(LAMBDA out, m :
             IF ResultsOnly(m) /\ out # <<>> /\ ResultsOnly(Last(out))
             THEN Front(out) \o <<Msg("user", Last(out).body \o m.body)>>
             ELSE Append(out, m), <<>>, turns)

CommandCodeMessages(q) ==
  LET c == OpenaiToClaude(q) IN [c EXCEPT !.turns = MergeResults(c.turns)]

PushAlone(turns, call) ==   \* Fault model: the call takes the place of the message it follows.
  IF turns # <<>> /\ Last(turns).role = "assistant"
  THEN Front(turns) \o <<Msg("assistant", <<call>>)>>
  ELSE Append(turns, Msg("assistant", <<call>>))

(* A Responses input is a list of items; a call joins the assistant        *)
(* message it follows.                                                     *)
PushToolCall(turns, call) ==
  IF turns # <<>> /\ Last(turns).role = "assistant"
  THEN Front(turns) \o <<Msg("assistant", Append(Last(turns).body, call))>>
  ELSE Append(turns, Msg("assistant", <<call>>))

ResponsesToChat(q) ==
  LET role(m) == IF m.role = "developer" THEN "system" ELSE m.role
  IN  [system |-> <<>>,
       turns |-> FoldLeft(LAMBDA out, m :
                   CASE m.role = "function_call" -> PushToolCall(out, m.body[1])
                     [] m.role = "function_call_output" -> Append(out, Msg("tool", m.body))
                     [] m.role = "assistant" -> Append(out, Msg("assistant", Pick("text", m.body)))
                     [] OTHER -> Append(out, Msg(role(m), m.body)),
                   IF q.system = <<>> THEN <<>> ELSE <<Msg("system", q.system)>>, q.turns),
       effort |-> IF q.effort.at = "reasoning" THEN [q.effort EXCEPT !.at = "reasoning_effort"]
                  ELSE NoEffort]

CodexItemsTextOnly(m) ==   \* Fault model: calls and results have no item of their own.
  <<Msg(m.role, SelectSeq(m.body, LAMBDA a : a.is \notin {"call", "result"}))>>

(* The Codex backend takes Responses items. *)
CodexItems(m) ==
  LET texts == Pick("text", m.body)
      calls == Pick("call", m.body)
  IN  CASE m.role = "assistant" /\ calls # <<>> ->
             (IF texts = <<>> THEN <<>> ELSE <<Msg("assistant", texts)>>)
               \o [i \in DOMAIN calls |-> Msg("function_call", <<calls[i]>>)]
        [] m.role = "tool" -> <<Msg("function_call_output", m.body)>>
        [] m.role = "assistant" /\ calls = <<>> -> <<Msg("assistant", texts)>>
        [] m.role = "system" -> <<Msg("developer", m.body)>>
        [] OTHER -> <<m>>

(* The client's own level wins, then the configured default, then medium. *)
CodexRequest(q, default) ==
  [system |-> <<>>,
   turns |-> FlattenSeq([i \in DOMAIN q.turns |-> CodexItems(q.turns[i])]),
   effort |-> [at |-> "reasoning",
               level |-> CASE q.effort.at \in {"reasoning_effort", "reasoning"} -> q.effort.level
                           [] q.effort = NoEffort /\ default # "none" -> default
                           [] OTHER -> "medium"]]

(* The generate envelope refuses a call without its result and a result    *)
(* without its call: both are left out.                                    *)
PairedCalls(turns) ==
  LET of(role, kind) == {a.n : a \in UNION {ToSet(Pick(kind, m.body)) :
                                m \in {x \in ToSet(turns) : x.role = role}}}
  IN  of("assistant", "call") \cap of("tool", "result")

GenerateAll(m, paired) ==   \* Fault model: unanswered calls are forwarded.
  IF m.role = "system" THEN <<>> ELSE <<m>>

GenerateMessage(m, paired) ==
  LET kept == SelectSeq(m.body, LAMBDA a : a.is \in {"call", "result"} => a.n \in paired)
  IN  CASE m.role = "system" -> <<>>
        [] m.role = "assistant" -> LET said == Pick("text", kept) \o Pick("call", kept)
                                   IN  IF said = <<>> THEN <<>> ELSE <<Msg("assistant", said)>>
        [] m.role = "tool" -> IF kept = <<>> THEN <<>> ELSE <<Msg("tool", kept)>>
        [] OTHER -> <<m>>

GenerateRequest(q) ==
  LET systems == SelectSeq(q.turns, LAMBDA m : m.role = "system")
      paired == PairedCalls(q.turns)
  IN  [system |-> FlattenSeq([i \in DOMAIN systems |-> systems[i].body]),
       turns |-> FlattenSeq([i \in DOMAIN q.turns |-> GenerateMessage(q.turns[i], paired)]),
       effort |-> NoEffort]

-----------------------------------------------------------------------------
(* Reasoning effort: who may carry it, and when the configured default is  *)
(* put into a request.                                                     *)
CapabilityFor(shape, known) ==
  CASE shape = "codex" -> "effort"
    [] shape = "cc_messages" -> "thinking"
    [] shape \in {"cc_chat", "cc_generate"} -> "unsupported"
    [] shape = "http_openai" -> IF known THEN "effort" ELSE "unsupported"
    [] shape = "http_anthropic" -> IF known THEN "thinking" ELSE "unsupported"

ClientSpecifiedEffort(q) == q.effort.at \in {"reasoning_effort", "reasoning", "thinking"}

EffortUnchecked(shape, known, configured, q) ==   \* Fault model: no request-time capability check.
  IF ClientSpecifiedEffort(q) THEN "none" ELSE configured

EffortToInject(shape, known, configured, q) ==
  IF configured = "none" \/ ClientSpecifiedEffort(q) \/ CapabilityFor(shape, known) = "unsupported"
  THEN "none" ELSE configured

Injected(q, level) ==
  IF level = "none" THEN q ELSE [q EXCEPT !.effort = [at |-> "reasoning_effort", level |-> level]]

Thinking(q, level) ==
  IF level = "none" THEN q ELSE [q EXCEPT !.effort = [at |-> "thinking", level |-> level]]

-----------------------------------------------------------------------------
(* build_request of the three adapters. `client` is the wire of the route; *)
(* a Responses request has become a chat request before it gets here.      *)
Shapes == {"codex", "http_openai", "http_anthropic", "cc_chat", "cc_messages", "cc_generate"}

HttpRequest(client, shape, known, configured, q) ==
  LET translated == IF client = "messages" /\ shape = "http_openai" THEN ClaudeToOpenai(q)
                    ELSE IF client # "messages" /\ shape = "http_anthropic" THEN OpenaiToClaude(q)
                    ELSE q
      level == EffortToInject(shape, known, configured, q)
  IN  IF shape = "http_openai" THEN Injected(translated, level) ELSE Thinking(translated, level)

CommandCodeRequest(client, shape, configured, q) ==
  LET openai == IF client = "messages" THEN ClaudeToOpenai(q) ELSE q
  IN  CASE shape = "cc_generate" -> GenerateRequest(openai)
        [] shape = "cc_messages" ->
             Thinking(IF client = "messages" THEN q ELSE CommandCodeMessages(q),
                      EffortToInject(shape, TRUE, configured, q))
        [] shape = "cc_chat" -> openai

BuildRequest(client, shape, known, configured, asked) ==
  LET q == IF client = "responses" THEN ResponsesToChat(asked) ELSE asked
  IN  CASE shape = "codex" ->
             CodexRequest(IF client = "messages" THEN ClaudeToOpenai(q) ELSE q,
                          EffortToInject(shape, known, configured, q))
        [] shape \in {"http_openai", "http_anthropic"} ->
             HttpRequest(client, shape, known, configured, q)
        [] shape \in {"cc_chat", "cc_messages", "cc_generate"} ->
             CommandCodeRequest(client, shape, configured, q)

(* The cache key of a Codex conversation: the caller, and the client's own *)
(* key or the first system and user messages.                              *)
FirstOf(roles, turns) ==
  LET hits == {i \in DOMAIN turns : turns[i].role \in roles}
  IN  IF hits = {} THEN <<>> ELSE turns[CHOOSE i \in hits : \A j \in hits : i <= j].body

ConversationKeyLast(q, scope) ==   \* Fault model: keyed by the newest turn.
  <<scope, FirstOf({"system", "developer"}, q.turns), Last(q.turns).body>>

ConversationKey(q, scope) ==
  <<scope, IF FirstOf({"user"}, q.turns) = <<>> THEN <<>>
           ELSE FirstOf({"system", "developer"}, q.turns), FirstOf({"user"}, q.turns)>>
=============================================================================
