--------------------------- MODULE ExchangeProofs ---------------------------
(***************************************************************************)
(* Theorems about Exchange, for any conversation, any reply, any of the    *)
(* clients' and upstreams' dialects and any way a reply ends.              *)
(*                                                                         *)
(* The argument: what the upstream has said, what its adapter and the      *)
(* translator to the client's dialect remember, the frames that wait, what *)
(* the client has heard and what was copied and metered always belong to   *)
(* one reply: from what the client has heard the waiting frames are the    *)
(* road to what has been translated, and that has the content of what was  *)
(* said. Each event of the upstream moves all of them together.            *)
(***************************************************************************)
EXTENDS UpstreamProofs

-----------------------------------------------------------------------------
(***************************************************************************)
(* The effort of a request, and the reports of a reply.                    *)
(***************************************************************************)
(* A request is a record of its three parts; what a translation does to    *)
(* the effort field is told apart from what it does to the turns.          *)
IsRequest(q) == q = [system |-> q.system, turns |-> q.turns, effort |-> q.effort]

(* The effort field of a client's request, and of its chat form. *)
ChatEffort(client, effort) ==
  CASE client = "messages" -> EffortFromAnthropic(effort)
    [] client = "responses" -> IF effort.at = "reasoning"
                               THEN [effort EXCEPT !.at = "reasoning_effort"] ELSE NoEffort
    [] client = "chat" -> effort

LEMMA AskedParts ==
  ASSUME NEW client, NEW talk, NEW effort
  PROVE  IsRequest(Asked(client, talk, effort)) /\ Asked(client, talk, effort).effort = effort
<1> DEFINE turns == FlattenSeq([i \in DOMAIN talk |->
                      CASE client = "messages" -> MessagesTurn(talk, i)
                        [] client = "chat" -> ChatTurn(talk, i)
                        [] client = "responses" -> ResponsesTurn(talk, i)])
<1> DEFINE system == IF client = "chat" THEN <<>> ELSE <<Atom("text", 0)>>
<1> DEFINE all == IF client = "chat" THEN <<Msg("system", <<Atom("text", 0)>>)>> \o turns ELSE turns
<1>1. Asked(client, talk, effort) = [system |-> system, turns |-> all, effort |-> effort]
  BY DEF Asked
<1> HIDE DEF system, all
<1> QED BY <1>1 DEF IsRequest

LEMMA ClaudeToOpenaiParts ==
  ASSUME NEW q
  PROVE  IsRequest(ClaudeToOpenai(q)) /\ ClaudeToOpenai(q).effort = EffortFromAnthropic(q.effort)
<1> DEFINE turns == (IF q.system = <<>> THEN <<>> ELSE <<Msg("system", q.system)>>)
                      \o FlattenSeq([i \in DOMAIN q.turns |-> ClaudeMessage(q.turns[i])])
<1>1. ClaudeToOpenai(q) = [system |-> <<>>, turns |-> turns, effort |-> EffortFromAnthropic(q.effort)]
  BY DEF ClaudeToOpenai
<1> HIDE DEF turns
<1> QED BY <1>1 DEF IsRequest

LEMMA OpenaiToClaudeParts ==
  ASSUME NEW q
  PROVE  IsRequest(OpenaiToClaude(q)) /\ OpenaiToClaude(q).effort = NoEffort
<1>1. OpenaiToClaude(q) = [system |-> OpenaiToClaude(q).system, turns |-> OpenaiToClaude(q).turns,
                           effort |-> NoEffort]
  BY DEF OpenaiToClaude
<1> QED BY <1>1 DEF IsRequest

LEMMA CommandCodeMessagesParts ==
  ASSUME NEW q
  PROVE  IsRequest(CommandCodeMessages(q)) /\ CommandCodeMessages(q).effort = NoEffort
<1> DEFINE c == OpenaiToClaude(q)
<1> DEFINE merged == MergeResults(c.turns)
<1>1. IsRequest(c) /\ c.effort = NoEffort
  BY OpenaiToClaudeParts
<1>2. CommandCodeMessages(q) = [c EXCEPT !.turns = merged]
  BY DEF CommandCodeMessages
<1> HIDE DEF c, merged
<1> QED BY <1>1, <1>2 DEF IsRequest

LEMMA ResponsesToChatParts ==
  ASSUME NEW q
  PROVE  /\ IsRequest(ResponsesToChat(q))
         /\ ResponsesToChat(q).effort = IF q.effort.at = "reasoning"
                                        THEN [q.effort EXCEPT !.at = "reasoning_effort"] ELSE NoEffort
<1>1. ResponsesToChat(q) = [system |-> <<>>, turns |-> ResponsesToChat(q).turns,
                            effort |-> IF q.effort.at = "reasoning"
                                       THEN [q.effort EXCEPT !.at = "reasoning_effort"] ELSE NoEffort]
  BY DEF ResponsesToChat
<1> QED BY <1>1 DEF IsRequest

LEMMA GenerateRequestParts ==
  ASSUME NEW q
  PROVE  GenerateRequest(q).effort = NoEffort
BY DEF GenerateRequest

LEMMA CodexRequestParts ==
  ASSUME NEW q, NEW default
  PROVE  CodexRequest(q, default).effort =
           [at |-> "reasoning",
            level |-> CASE q.effort.at \in {"reasoning_effort", "reasoning"} -> q.effort.level
                        [] q.effort = NoEffort /\ default # "none" -> default
                        [] OTHER -> "medium"]
BY DEF CodexRequest

LEMMA InjectedParts ==
  ASSUME NEW q, NEW level, IsRequest(q)
  PROVE  /\ Injected(q, level).effort = IF level = "none" THEN q.effort
                                        ELSE [at |-> "reasoning_effort", level |-> level]
         /\ Thinking(q, level).effort = IF level = "none" THEN q.effort
                                        ELSE [at |-> "thinking", level |-> level]
BY DEF Injected, Thinking, IsRequest

(* The client's request on each of the three adapters' inputs: as it came, *)
(* or, from a Responses client, as the chat request it has become.         *)
Entering(client, asked) == IF client = "responses" THEN ResponsesToChat(asked) ELSE asked

(* The level every upstream's request carries, and the field it is in.     *)
Carried(client, shape, known, configured, effort, got) ==
  /\ got.at \in
       (CASE shape = "codex" -> {"reasoning"}
          [] shape \in {"http_openai", "cc_chat"} -> {"none", "reasoning_effort"}
          [] shape \in {"http_anthropic", "cc_messages"} ->
               {"none", "thinking"} \cup (IF client = "messages" THEN {"output_config"} ELSE {})
          [] shape = "cc_generate" -> {"none"})
  /\ effort = NoEffort /\ configured # "none" =>
       IF shape \in {"codex", "cc_messages"} \/ (known /\ shape \in {"http_openai", "http_anthropic"})
       THEN got.level = configured ELSE got = NoEffort

LEMMA EffortCases ==
  ASSUME NEW client \in Clients, NEW effort \in Efforts(client)
  PROVE  \/ effort = NoEffort
         \/ client = "chat" /\ effort = [at |-> "reasoning_effort", level |-> "high"]
         \/ client = "responses" /\ effort = [at |-> "reasoning", level |-> "high"]
         \/ client = "messages" /\ effort = [at |-> "output_config", level |-> "high"]
         \/ client = "messages" /\ effort = [at |-> "thinking", level |-> "high"]
BY DEF Clients, Efforts, EffortFields

LEMMA EnteringParts ==
  ASSUME NEW client \in Clients, NEW effort \in Efforts(client),
         NEW asked, IsRequest(asked), asked.effort = effort,
         NEW q, q = Entering(client, asked)
  PROVE  /\ IsRequest(q)
         /\ client = "messages" => q.effort = effort
         /\ client # "messages" =>
              q.effort = IF effort = NoEffort THEN NoEffort
                         ELSE [at |-> "reasoning_effort", level |-> "high"]
<1>1. CASE client = "messages"
  BY <1>1 DEF Entering
<1>2. CASE client = "chat"
  BY <1>2, EffortCases DEF Entering
<1>3. CASE client = "responses"
  <2>1. q = ResponsesToChat(asked)
    BY <1>3 DEF Entering
  <2>2. IsRequest(q)
    BY <2>1, ResponsesToChatParts
  <2>3. q.effort = IF effort.at = "reasoning" THEN [effort EXCEPT !.at = "reasoning_effort"]
                   ELSE NoEffort
    BY <2>1, ResponsesToChatParts
  <2>4. effort = NoEffort \/ effort = [at |-> "reasoning", level |-> "high"]
    BY <1>3, EffortCases
  <2> QED BY <1>3, <2>2, <2>3, <2>4 DEF NoEffort
<1> QED BY <1>1, <1>2, <1>3 DEF Clients

LEMMA ClaudeLevels ==
  ASSUME NEW effort \in Efforts("messages")
  PROVE  EffortFromAnthropic(effort) = IF effort = NoEffort THEN NoEffort
                                       ELSE [at |-> "reasoning_effort", level |-> "high"]
BY EffortCases DEF EffortFromAnthropic, NoEffort, Clients

LEMMA NoneStaysNone == EffortFromAnthropic(NoEffort) = NoEffort
BY DEF EffortFromAnthropic, NoEffort

(* The Codex adapter: always its own field, the default only where the     *)
(* client named no level.                                                  *)
LEMMA CodexCarries ==
  ASSUME NEW client \in Clients, NEW known \in BOOLEAN, NEW configured,
         NEW effort \in Efforts(client),
         NEW asked, IsRequest(asked), asked.effort = effort
  PROVE  Carried(client, "codex", known, configured, effort,
                 BuildRequest(client, "codex", known, configured, asked).effort)
<1> DEFINE q == Entering(client, asked)
<1> DEFINE chat == IF client = "messages" THEN ClaudeToOpenai(q) ELSE q
<1> DEFINE level == EffortToInject("codex", known, configured, q)
<1>1. BuildRequest(client, "codex", known, configured, asked) = CodexRequest(chat, level)
  BY DEF BuildRequest, Entering
<1>2. effort = NoEffort => q.effort = NoEffort
  BY EnteringParts
<1> HIDE DEF q
<1>3. effort = NoEffort => chat.effort = NoEffort
  BY <1>2, ClaudeToOpenaiParts, NoneStaysNone
<1>4. effort = NoEffort => level = configured
  BY <1>2 DEF EffortToInject, ClientSpecifiedEffort, CapabilityFor, NoEffort
<1> HIDE DEF chat, level
<1> DEFINE own == CASE chat.effort.at \in {"reasoning_effort", "reasoning"} -> chat.effort.level
                    [] chat.effort = NoEffort /\ level # "none" -> level
                    [] OTHER -> "medium"
<1>5. CodexRequest(chat, level).effort = [at |-> "reasoning", level |-> own]
  BY CodexRequestParts
<1>6. effort = NoEffort /\ configured # "none" => own = configured
  BY <1>3, <1>4 DEF NoEffort
<1> HIDE DEF own
<1>7. CodexRequest(chat, level).effort.at = "reasoning"
  BY <1>5
<1>8. effort = NoEffort /\ configured # "none" => CodexRequest(chat, level).effort.level = configured
  BY <1>5, <1>6
<1> QED BY <1>1, <1>7, <1>8 DEF Carried

(* The HTTP adapter: translated when the dialects differ, then the default *)
(* where the model is known to take one and the client named none.         *)
LEMMA HttpCarries ==
  ASSUME NEW client \in Clients, NEW shape \in {"http_openai", "http_anthropic"},
         NEW known \in BOOLEAN, NEW configured,
         NEW effort \in Efforts(client),
         NEW asked, IsRequest(asked), asked.effort = effort
  PROVE  Carried(client, shape, known, configured, effort,
                 BuildRequest(client, shape, known, configured, asked).effort)
<1> DEFINE q == Entering(client, asked)
<1> DEFINE translated == IF client = "messages" /\ shape = "http_openai" THEN ClaudeToOpenai(q)
                         ELSE IF client # "messages" /\ shape = "http_anthropic" THEN OpenaiToClaude(q)
                         ELSE q
<1> DEFINE level == EffortToInject(shape, known, configured, q)
<1> DEFINE got == BuildRequest(client, shape, known, configured, asked)
<1>1. got = IF shape = "http_openai" THEN Injected(translated, level) ELSE Thinking(translated, level)
  BY DEF BuildRequest, Entering, HttpRequest
<1>2. /\ IsRequest(q)
      /\ client = "messages" => q.effort = effort
      /\ client # "messages" => q.effort = IF effort = NoEffort THEN NoEffort
                                           ELSE [at |-> "reasoning_effort", level |-> "high"]
  BY EnteringParts
<1> HIDE DEF q
<1>3. IsRequest(translated)
  BY <1>2, ClaudeToOpenaiParts, OpenaiToClaudeParts
<1>4. shape = "http_openai" => translated.effort = NoEffort \/ translated.effort.at = "reasoning_effort"
  <2>1. CASE client = "messages" /\ shape = "http_openai"
    BY <1>2, <2>1, ClaudeToOpenaiParts, ClaudeLevels
  <2>2. CASE client # "messages" /\ shape = "http_openai"
    BY <1>2, <2>2
  <2> QED BY <2>1, <2>2
<1>5. shape = "http_anthropic" =>
        translated.effort = IF client = "messages" THEN effort ELSE NoEffort
  BY <1>2, OpenaiToClaudeParts
<1>6. effort = NoEffort => translated.effort = NoEffort /\ q.effort = NoEffort
  BY <1>2, ClaudeToOpenaiParts, OpenaiToClaudeParts, NoneStaysNone
<1>7. effort = NoEffort => level = IF configured = "none" \/ ~known THEN "none" ELSE configured
  BY <1>6 DEF EffortToInject, ClientSpecifiedEffort, CapabilityFor, NoEffort
<1> HIDE DEF translated, level, got
<1>8. CASE shape = "http_openai"
  <2>1. got.effort = IF level = "none" THEN translated.effort
                     ELSE [at |-> "reasoning_effort", level |-> level]
    BY <1>1, <1>3, <1>8, InjectedParts
  <2>2. got.effort.at \in {"none", "reasoning_effort"}
    BY <1>4, <1>8, <2>1 DEF NoEffort
  <2>3. effort = NoEffort /\ configured # "none" =>
          IF known THEN got.effort.level = configured ELSE got.effort = NoEffort
    BY <1>6, <1>7, <2>1
  <2> QED BY <1>8, <2>2, <2>3 DEF Carried, got
<1>9. CASE shape = "http_anthropic"
  <2>1. got.effort = IF level = "none" THEN translated.effort
                     ELSE [at |-> "thinking", level |-> level]
    BY <1>1, <1>3, <1>9, InjectedParts
  <2>2. client = "messages" => effort.at \in {"none", "output_config", "thinking"}
    BY EffortCases DEF NoEffort
  <2>3. got.effort.at \in {"none", "thinking"} \cup (IF client = "messages" THEN {"output_config"} ELSE {})
    BY <1>5, <1>9, <2>1, <2>2 DEF NoEffort
  <2>4. effort = NoEffort /\ configured # "none" =>
          IF known THEN got.effort.level = configured ELSE got.effort = NoEffort
    BY <1>6, <1>7, <2>1
  <2> QED BY <1>9, <2>3, <2>4 DEF Carried, got
<1> QED BY <1>8, <1>9

(* The Command Code adapter: only its Messages shape carries a level.      *)
LEMMA CommandCodeCarries ==
  ASSUME NEW client \in Clients, NEW shape \in {"cc_chat", "cc_messages", "cc_generate"},
         NEW known \in BOOLEAN, NEW configured,
         NEW effort \in Efforts(client),
         NEW asked, IsRequest(asked), asked.effort = effort
  PROVE  Carried(client, shape, known, configured, effort,
                 BuildRequest(client, shape, known, configured, asked).effort)
<1> DEFINE q == Entering(client, asked)
<1> DEFINE openai == IF client = "messages" THEN ClaudeToOpenai(q) ELSE q
<1> DEFINE claude == IF client = "messages" THEN q ELSE CommandCodeMessages(q)
<1> DEFINE level == EffortToInject("cc_messages", TRUE, configured, q)
<1> DEFINE got == BuildRequest(client, shape, known, configured, asked)
<1>1. got = CASE shape = "cc_generate" -> GenerateRequest(openai)
              [] shape = "cc_messages" -> Thinking(claude, level)
              [] shape = "cc_chat" -> openai
  BY DEF BuildRequest, Entering, CommandCodeRequest
<1>2. /\ IsRequest(q)
      /\ client = "messages" => q.effort = effort
      /\ client # "messages" => q.effort = IF effort = NoEffort THEN NoEffort
                                           ELSE [at |-> "reasoning_effort", level |-> "high"]
  BY EnteringParts
<1> HIDE DEF q
<1>3. openai.effort = IF effort = NoEffort THEN NoEffort
                      ELSE [at |-> "reasoning_effort", level |-> "high"]
  BY <1>2, ClaudeToOpenaiParts, ClaudeLevels
<1>4. IsRequest(claude) /\ claude.effort = IF client = "messages" THEN effort ELSE NoEffort
  BY <1>2, CommandCodeMessagesParts
<1>5. effort = NoEffort => level = configured
  BY <1>2 DEF EffortToInject, ClientSpecifiedEffort, CapabilityFor, NoEffort
<1> HIDE DEF openai, claude, level, got
<1>6. CASE shape = "cc_generate"
  <2>1. got.effort = NoEffort
    BY <1>1, <1>6, GenerateRequestParts
  <2> QED BY <1>6, <2>1 DEF Carried, NoEffort, got
<1>7. CASE shape = "cc_chat"
  <2>1. got.effort = openai.effort
    BY <1>1, <1>7
  <2> QED BY <1>3, <1>7, <2>1 DEF Carried, NoEffort, got
<1>8. CASE shape = "cc_messages"
  <2>1. got.effort = IF level = "none" THEN claude.effort ELSE [at |-> "thinking", level |-> level]
    BY <1>1, <1>4, <1>8, InjectedParts
  <2>2. client = "messages" => effort.at \in {"none", "output_config", "thinking"}
    BY EffortCases DEF NoEffort
  <2>3. got.effort.at \in {"none", "thinking"} \cup (IF client = "messages" THEN {"output_config"} ELSE {})
    BY <1>4, <2>1, <2>2 DEF NoEffort
  <2>4. effort = NoEffort /\ configured # "none" => got.effort.level = configured
    BY <1>5, <2>1
  <2> QED BY <1>8, <2>3, <2>4 DEF Carried, got
<1> QED BY <1>6, <1>7, <1>8

LEMMA EveryAdapterCarries ==
  ASSUME NEW client \in Clients, NEW shape \in Shapes, NEW known \in BOOLEAN, NEW configured,
         NEW talk, NEW effort \in Efforts(client)
  PROVE  Carried(client, shape, known, configured, effort,
                 BuildRequest(client, shape, known, configured, Asked(client, talk, effort)).effort)
<1>1. IsRequest(Asked(client, talk, effort)) /\ Asked(client, talk, effort).effort = effort
  BY AskedParts
<1>2. CASE shape = "codex"
  BY <1>1, <1>2, CodexCarries
<1>3. CASE shape \in {"http_openai", "http_anthropic"}
  BY <1>1, <1>3, HttpCarries
<1>4. CASE shape \in {"cc_chat", "cc_messages", "cc_generate"}
  BY <1>1, <1>4, CommandCodeCarries
<1> QED BY <1>2, <1>3, <1>4 DEF Shapes

-----------------------------------------------------------------------------
(* The records keep their shape: an event may change what is in the meter, *)
(* the copy and the reply, never what they are made of.                    *)
TapShape == tap = [best |-> tap.best, recorded |-> tap.recorded]

TeeShape == tee = [items |-> tee.items, kept |-> tee.kept, overflowed |-> tee.overflowed,
                   fired |-> tee.fired, complete |-> tee.complete]

HeardShape == heard = [items |-> heard.items, why |-> heard.why, body |-> heard.body]

UpShape == up = [said |-> up.said, why |-> up.why, src |-> up.src, pieces |-> up.pieces,
                 started |-> up.started, usage |-> up.usage, bill |-> up.bill]

Shaped == TapShape /\ TeeShape /\ HeardShape /\ UpShape

(* What was asked, until the reply begins, and what was sent for it. *)
Asking ==
  phase \in {"asking", "sent"} =>
    /\ ask.client \in Clients /\ ask.shape \in Shapes /\ ask.known \in BOOLEAN
    /\ ask.effort \in Efforts(ask.client)

Sending ==
  phase = "sent" =>
    sent = BuildRequest(ask.client, ask.shape, ask.known, ask.configured,
                        Asked(ask.client, ask.talk, ask.effort))

(* The meter has recorded nothing before the end; the copy may be reported *)
(* earlier, by the end of the upstream's stream.                           *)
Reporting ==
  /\ tap.recorded = IF phase = "ended" /\ (heard.body # "refused" \/ Relayed) THEN 1 ELSE 0
  /\ tee.fired \in {0, 1}
  /\ phase = "ended" => tee.fired = tap.recorded
  /\ tee.complete => tee.fired = 1 /\ (ask.streamed => up.src = "ended")
  /\ tee.fired = 1 /\ phase # "ended" =>
       phase = "replying" /\ up.src # "open" /\ ask.streamed

ExchangeIInv == Shaped /\ Asking /\ Sending /\ Reporting

LEMMA InitShaped == Init => ExchangeIInv
<1> SUFFICES ASSUME Init PROVE ExchangeIInv
  OBVIOUS
<1>1. Shaped
  BY DEF Init, Shaped, TapShape, TeeShape, HeardShape, UpShape, SilentUp, NothingHeard
<1>2. PICK c \in Clients : ask \in [client : {c}, shape : Shapes, streamed : BOOLEAN, known : BOOLEAN,
                                    configured : {"none", "low"}, effort : Efforts(c), talk : Talks]
  BY DEF Init
<1>3. Asking
  BY <1>2 DEF Asking
<1>4. Sending /\ Reporting
  BY DEF Init, Sending, Reporting
<1> QED BY <1>1, <1>3, <1>4 DEF ExchangeIInv

(* A chunk that passes changes the contents of the meter and of the copy,  *)
(* and neither of them reports.                                            *)
LEMMA Passing ==
  ASSUME TapShape, TeeShape, NEW e, Passes(e)
  PROVE  /\ TapShape' /\ TeeShape'
         /\ tap'.recorded = tap.recorded
         /\ tee'.fired = tee.fired
         /\ tee'.complete = tee.complete
<1>1. PICK frames : \/ tap' = Metered(tap, frames) /\ tee' = Copied(tee, Wire, frames)
                    \/ tap' = tap /\ tee' = tee
  BY DEF Passes, Pipe
<1>2. CASE tap' = tap /\ tee' = tee
  BY <1>2 DEF TapShape, TeeShape
<1>3. CASE tap' = Metered(tap, frames) /\ tee' = Copied(tee, Wire, frames)
  <2> DEFINE best == FoldLeft(LAMBDA u, f : MergeUsage(u, UsageIn(f)), tap.best, frames)
  <2> DEFINE c == FoldLeft(LAMBDA u, f : Push(Wire, u, f), tee, frames)
  <2>1. tap' = [tap EXCEPT !.best = best]
    BY <1>3 DEF Metered
  <2>2. tee' = [tee EXCEPT !.items = c.items, !.kept = c.kept, !.overflowed = c.overflowed]
    BY <1>3 DEF Copied
  <2> HIDE DEF best, c
  <2>3. TapShape' /\ tap'.recorded = tap.recorded
    BY <2>1 DEF TapShape
  <2>4. TeeShape' /\ tee'.fired = tee.fired /\ tee'.complete = tee.complete
    BY <2>2 DEF TeeShape
  <2> QED BY <2>3, <2>4
<1> QED BY <1>1, <1>2, <1>3

(* While the upstream speaks nothing has been reported, so nothing that an *)
(* event does to its reply can make a report untrue.                       *)
LEMMA OpenKeeps ==
  ASSUME ExchangeIInv, phase = "replying", up.src = "open", UpShape',
         UNCHANGED <<ask, phase, sent, heard>>, NEW e, Passes(e)
  PROVE  ExchangeIInv'
<1>1. /\ TapShape' /\ TeeShape'
      /\ tap'.recorded = tap.recorded /\ tee'.fired = tee.fired /\ tee'.complete = tee.complete
  BY Passing DEF ExchangeIInv, Shaped
<1>2. Shaped'
  BY <1>1 DEF ExchangeIInv, Shaped, HeardShape
<1>3. tee.fired = 0 /\ ~tee.complete
  BY DEF ExchangeIInv, Reporting
<1>4. Reporting'
  BY <1>1, <1>3 DEF ExchangeIInv, Reporting
<1>5. Asking' /\ Sending'
  BY DEF Asking, Sending
<1> QED BY <1>2, <1>4, <1>5 DEF ExchangeIInv

LEMMA SpeakingKeeps ==
  ASSUME ExchangeIInv, Speaking, UpShape', UNCHANGED <<ask, phase, sent, heard>>,
         NEW e, Passes(e)
  PROVE  ExchangeIInv'
BY OpenKeeps DEF Speaking

LEMMA BeginsKeeps == ExchangeIInv /\ Begins => ExchangeIInv'
<1> SUFFICES ASSUME ExchangeIInv, Begins PROVE ExchangeIInv'
  OBVIOUS
<1>1. UpShape'
  BY DEF Begins, ExchangeIInv, Shaped, UpShape
<1> QED BY <1>1, SpeakingKeeps DEF Begins

LEMMA SaysTextKeeps == ExchangeIInv /\ SaysText => ExchangeIInv'
<1> SUFFICES ASSUME ExchangeIInv, SaysText PROVE ExchangeIInv'
  OBVIOUS
<1>1. PICK p, said : up' = [up EXCEPT !.pieces = p, !.said = said]
  BY DEF SaysText
<1>2. UpShape'
  BY <1>1 DEF ExchangeIInv, Shaped, UpShape
<1>3. Speaking /\ UNCHANGED <<ask, phase, sent, heard>> /\ \E e : Passes(e)
  BY DEF SaysText, Underway
<1> QED BY <1>2, <1>3, SpeakingKeeps

LEMMA SaysErrorKeeps == ExchangeIInv /\ SaysError => ExchangeIInv'
<1> SUFFICES ASSUME ExchangeIInv, SaysError PROVE ExchangeIInv'
  OBVIOUS
<1>1. PICK p, said : up' = [up EXCEPT !.pieces = p, !.why = "error", !.said = said]
  BY DEF SaysError
<1>2. UpShape'
  BY <1>1 DEF ExchangeIInv, Shaped, UpShape
<1>3. Speaking /\ UNCHANGED <<ask, phase, sent, heard>> /\ \E e : Passes(e)
  BY DEF SaysError, Underway
<1> QED BY <1>2, <1>3, SpeakingKeeps

LEMMA OpensBlockKeeps == ExchangeIInv /\ OpensBlock => ExchangeIInv'
<1> SUFFICES ASSUME ExchangeIInv, OpensBlock PROVE ExchangeIInv'
  OBVIOUS
<1>1. PICK said : up' = [up EXCEPT !.said = said]
  BY DEF OpensBlock
<1>2. UpShape'
  BY <1>1 DEF ExchangeIInv, Shaped, UpShape
<1>3. Speaking /\ UNCHANGED <<ask, phase, sent, heard>> /\ \E e : Passes(e)
  BY DEF OpensBlock, Underway
<1> QED BY <1>2, <1>3, SpeakingKeeps

LEMMA ClosesBlockKeeps == ExchangeIInv /\ ClosesBlock => ExchangeIInv'
<1> SUFFICES ASSUME ExchangeIInv, ClosesBlock PROVE ExchangeIInv'
  OBVIOUS
<1>1. PICK said : up' = [up EXCEPT !.said = said]
  BY DEF ClosesBlock
<1>2. UpShape'
  BY <1>1 DEF ExchangeIInv, Shaped, UpShape
<1>3. Speaking /\ UNCHANGED <<ask, phase, sent, heard>> /\ \E e : Passes(e)
  BY DEF ClosesBlock, Underway
<1> QED BY <1>2, <1>3, SpeakingKeeps

LEMMA SaysCallKeeps == ExchangeIInv /\ SaysCall => ExchangeIInv'
<1> SUFFICES ASSUME ExchangeIInv, SaysCall PROVE ExchangeIInv'
  OBVIOUS
<1>1. PICK p, said : up' = [up EXCEPT !.pieces = p, !.said = said]
  BY DEF SaysCall
<1>2. UpShape'
  BY <1>1 DEF ExchangeIInv, Shaped, UpShape
<1>3. Speaking /\ UNCHANGED <<ask, phase, sent, heard>> /\ \E e : Passes(e)
  BY DEF SaysCall, Underway
<1> QED BY <1>2, <1>3, SpeakingKeeps

LEMMA SaysArgumentsKeeps == ExchangeIInv /\ SaysArguments => ExchangeIInv'
<1> SUFFICES ASSUME ExchangeIInv, SaysArguments PROVE ExchangeIInv'
  OBVIOUS
<1>1. PICK p, said : up' = [up EXCEPT !.pieces = p, !.said = said]
  BY DEF SaysArguments
<1>2. UpShape'
  BY <1>1 DEF ExchangeIInv, Shaped, UpShape
<1>3. Speaking /\ UNCHANGED <<ask, phase, sent, heard>> /\ \E e : Passes(e)
  BY DEF SaysArguments, Underway
<1> QED BY <1>2, <1>3, SpeakingKeeps

LEMMA ArgumentsDoneKeeps == ExchangeIInv /\ ArgumentsDone => ExchangeIInv'
<1> SUFFICES ASSUME ExchangeIInv, ArgumentsDone PROVE ExchangeIInv'
  OBVIOUS
<1>1. PICK p, said : up' = [up EXCEPT !.pieces = p, !.said = said]
  BY DEF ArgumentsDone
<1>2. UpShape'
  BY <1>1 DEF ExchangeIInv, Shaped, UpShape
<1>3. Speaking /\ UNCHANGED <<ask, phase, sent, heard>> /\ \E e : Passes(e)
  BY DEF ArgumentsDone, Underway
<1> QED BY <1>2, <1>3, SpeakingKeeps

LEMMA FinishesKeeps == ExchangeIInv /\ Finishes => ExchangeIInv'
<1> SUFFICES ASSUME ExchangeIInv, Finishes PROVE ExchangeIInv'
  OBVIOUS
<1>. DEFINE whole == Bill(ClaudeShaped)
<1>0. PICK why, bill :
        up' = [up EXCEPT !.why = why, !.bill = bill, !.usage = IF bill = "none" THEN @ ELSE whole]
  BY DEF Finishes
<1>. DEFINE usage == up'.usage
<1>. HIDE DEF whole
<1>1. up' = [up EXCEPT !.why = why, !.bill = bill, !.usage = usage]
  BY <1>0 DEF ExchangeIInv, Shaped, UpShape
<1>. HIDE DEF usage
<1>2. UpShape'
  BY <1>1 DEF ExchangeIInv, Shaped, UpShape
<1>3. Speaking /\ UNCHANGED <<ask, phase, sent, heard>> /\ \E e : Passes(e)
  BY DEF Finishes, Underway
<1> QED BY <1>2, <1>3, SpeakingKeeps

LEMMA SaysUsageKeeps == ExchangeIInv /\ SaysUsage => ExchangeIInv'
<1> SUFFICES ASSUME ExchangeIInv, SaysUsage PROVE ExchangeIInv'
  OBVIOUS
<1>1. PICK usage : up' = [up EXCEPT !.bill = "apart", !.usage = usage]
  BY DEF SaysUsage
<1>2. UpShape'
  BY <1>1 DEF ExchangeIInv, Shaped, UpShape
<1>3. /\ phase = "replying" /\ up.src = "open" /\ UNCHANGED <<ask, phase, sent, heard>>
      /\ \E e : Passes(e)
  BY DEF SaysUsage
<1> QED BY <1>2, <1>3, OpenKeeps

LEMMA SendKeeps == ExchangeIInv /\ Send => ExchangeIInv'
<1> SUFFICES ASSUME ExchangeIInv, Send PROVE ExchangeIInv'
  OBVIOUS
<1>1. Shaped'
  BY DEF Send, ExchangeIInv, Shaped, TapShape, TeeShape, HeardShape, UpShape
<1>2. Asking' /\ Sending'
  BY DEF Send, ExchangeIInv, Asking, Sending
<1>3. Reporting'
  BY DEF Send, ExchangeIInv, Reporting
<1> QED BY <1>1, <1>2, <1>3 DEF ExchangeIInv

LEMMA AnswerKeeps == ExchangeIInv /\ Answer => ExchangeIInv'
<1> SUFFICES ASSUME ExchangeIInv, Answer PROVE ExchangeIInv'
  OBVIOUS
<1>1. Shaped'
  BY DEF Answer, ExchangeIInv, Shaped, TapShape, TeeShape, HeardShape, UpShape
<1>2. phase = "sent" /\ phase' = "replying" /\ UNCHANGED <<up, heard, tap, tee>>
  BY DEF Answer
<1>3. tee.fired = 0 /\ ~tee.complete
  BY <1>2 DEF ExchangeIInv, Reporting
<1>4. Reporting'
  BY <1>2, <1>3 DEF ExchangeIInv, Reporting
<1>5. Asking' /\ Sending'
  BY <1>2 DEF Asking, Sending
<1> QED BY <1>1, <1>4, <1>5 DEF ExchangeIInv

(* The drop guard: what has reported does not report again. *)
LEMMA FiredOnce ==
  ASSUME NEW t, t = [items |-> t.items, kept |-> t.kept, overflowed |-> t.overflowed,
                     fired |-> t.fired, complete |-> t.complete],
         t.fired \in {0, 1}, NEW complete \in BOOLEAN, NEW u, u = Fired(t, complete)
  PROVE  /\ u = [items |-> u.items, kept |-> u.kept, overflowed |-> u.overflowed,
                 fired |-> u.fired, complete |-> u.complete]
         /\ u.fired = 1
         /\ u.complete => t.complete \/ (t.fired = 0 /\ complete)
         /\ t.fired = 1 => u = t
<1>1. CASE t.fired = 1
  BY <1>1 DEF Fired
<1>2. CASE t.fired = 0
  <2> DEFINE whole == complete /\ ~t.overflowed
  <2>1. u = [t EXCEPT !.fired = 1, !.complete = whole]
    BY <1>2 DEF Fired
  <2>2. whole => complete
    OBVIOUS
  <2> HIDE DEF whole
  <2>3. u = [items |-> t.items, kept |-> t.kept, overflowed |-> t.overflowed,
             fired |-> 1, complete |-> whole]
    BY <2>1
  <2>4. u.complete => complete
    BY <2>2, <2>3
  <2> QED BY <1>2, <2>3, <2>4
<1> QED BY <1>1, <1>2

LEMMA StopsKeeps == ExchangeIInv /\ Stops => ExchangeIInv'
<1> SUFFICES ASSUME ExchangeIInv, Stops PROVE ExchangeIInv'
  OBVIOUS
<1>1. PICK how \in {"end", "error", "overflow", "given up"} :
        /\ up' = [up EXCEPT !.src = IF how = "error" THEN "broken" ELSE "ended"]
        /\ tee' = Fired(Copied(tee, Wire, EndMark(how)), how \in {"end", "given up"} \/ (how = "overflow" /\ ~Raw))
  BY DEF Stops
<1>2. /\ phase = "replying" /\ up.src = "open" /\ ask.streamed
      /\ UNCHANGED <<ask, phase, sent, conv, heard, tap>>
  BY DEF Stops
<1>3. tee.fired = 0 /\ ~tee.complete /\ tap.recorded = 0
  BY <1>2 DEF ExchangeIInv, Reporting
<1> DEFINE c == FoldLeft(LAMBDA u, f : Push(Wire, u, f), tee, EndMark(how))
<1> DEFINE copy == Copied(tee, Wire, EndMark(how))
<1> DEFINE complete == how \in {"end", "given up"} \/ (how = "overflow" /\ ~Raw)
<1>4. copy = [tee EXCEPT !.items = c.items, !.kept = c.kept, !.overflowed = c.overflowed]
  BY DEF Copied
<1>5. tee' = Fired(copy, complete) /\ complete \in BOOLEAN
  BY <1>1
<1>6. complete => how # "error"
  OBVIOUS
<1> HIDE DEF c, copy, complete
<1>7. /\ copy = [items |-> copy.items, kept |-> copy.kept, overflowed |-> copy.overflowed,
                 fired |-> copy.fired, complete |-> copy.complete]
      /\ copy.fired = 0 /\ copy.complete = tee.complete
  BY <1>3, <1>4 DEF ExchangeIInv, Shaped, TeeShape
<1>8. TeeShape' /\ tee'.fired = 1 /\ (tee'.complete => how # "error")
  BY <1>3, <1>5, <1>6, <1>7, FiredOnce DEF TeeShape
<1>9. UpShape' /\ up'.src # "open" /\ (how # "error" => up'.src = "ended")
  BY <1>1 DEF ExchangeIInv, Shaped, UpShape
<1>10. Shaped'
  BY <1>2, <1>8, <1>9 DEF ExchangeIInv, Shaped, TapShape, HeardShape
<1>11. Reporting'
  BY <1>2, <1>3, <1>8, <1>9 DEF Reporting
<1>12. Asking' /\ Sending'
  BY <1>2 DEF Asking, Sending
<1> QED BY <1>10, <1>11, <1>12 DEF ExchangeIInv

LEMMA TakesKeeps == ExchangeIInv /\ Takes => ExchangeIInv'
<1> SUFFICES ASSUME ExchangeIInv, Takes PROVE ExchangeIInv'
  OBVIOUS
<1>1. PICK h : heard' = [heard EXCEPT !.items = h.items, !.why = h.why]
  BY DEF Takes
<1>2. phase = "replying" /\ UNCHANGED <<ask, phase, sent, up, conv, brg, tap, tee>>
  BY DEF Takes
<1>3. HeardShape'
  BY <1>1 DEF ExchangeIInv, Shaped, HeardShape
<1>4. Shaped'
  BY <1>2, <1>3 DEF ExchangeIInv, Shaped, TapShape, TeeShape, UpShape
<1>5. Reporting'
  BY <1>2 DEF ExchangeIInv, Reporting
<1>6. Asking' /\ Sending'
  BY <1>2 DEF Asking, Sending
<1> QED BY <1>4, <1>5, <1>6 DEF ExchangeIInv

(* The ways a body that was begun comes to its end. *)
LEMMA EndingKeeps ==
  ASSUME ExchangeIInv, phase = "replying", phase' = "ended", UNCHANGED <<ask, sent>>,
         UpShape', HeardShape', heard'.body # "refused" \/ Relayed,
         NEW complete \in BOOLEAN, tee' = Fired(tee, complete),
         complete => up'.src = "ended" \/ ~ask.streamed,
         tee.fired = 1 => up' = up,
         NEW best, tap' = Recorded([tap EXCEPT !.best = best])
  PROVE  ExchangeIInv'
<1>1. TapShape' /\ tap'.recorded = 1
  <2>1. tap = [best |-> tap.best, recorded |-> 0]
    BY DEF ExchangeIInv, Shaped, TapShape, Reporting
  <2>2. [tap EXCEPT !.best = best] = [best |-> best, recorded |-> 0]
    BY <2>1
  <2>3. tap' = [best |-> best, recorded |-> 0 + 1]
    BY <2>2 DEF Recorded
  <2> QED BY <2>3 DEF TapShape
<1>2. /\ TeeShape' /\ tee'.fired = 1
      /\ tee'.complete => tee.complete \/ (tee.fired = 0 /\ complete)
  BY FiredOnce DEF ExchangeIInv, Shaped, TeeShape, Reporting
<1>3. tee'.complete => (ask.streamed => up'.src = "ended")
  BY <1>2 DEF ExchangeIInv, Reporting
<1>4. Relayed' = Relayed
  BY DEF Relayed, Raw
<1>5. Reporting'
  BY <1>1, <1>2, <1>3, <1>4 DEF Reporting
<1>6. Asking' /\ Sending'
  BY DEF Asking, Sending
<1> QED BY <1>1, <1>2, <1>5, <1>6 DEF ExchangeIInv, Shaped

LEMMA BodyEndsKeeps == ExchangeIInv /\ BodyEnds => ExchangeIInv'
<1> SUFFICES ASSUME ExchangeIInv, BodyEnds PROVE ExchangeIInv'
  OBVIOUS
<1>1. HeardShape' /\ heard'.body # "refused" /\ UpShape'
  BY DEF BodyEnds, ExchangeIInv, Shaped, HeardShape, UpShape
<1>2. tap' = Recorded([tap EXCEPT !.best = tap.best])
  BY DEF BodyEnds, ExchangeIInv, Shaped, TapShape
<1>3. (up.src = "ended") \in BOOLEAN
  OBVIOUS
<1> QED BY <1>1, <1>2, <1>3, EndingKeeps DEF BodyEnds

LEMMA LeavesKeeps == ExchangeIInv /\ Leaves => ExchangeIInv'
<1> SUFFICES ASSUME ExchangeIInv, Leaves PROVE ExchangeIInv'
  OBVIOUS
<1>1. HeardShape' /\ heard'.body # "refused" /\ UpShape'
  BY DEF Leaves, ExchangeIInv, Shaped, HeardShape, UpShape
<1>2. tap' = Recorded([tap EXCEPT !.best = tap.best])
  BY DEF Leaves, ExchangeIInv, Shaped, TapShape
<1> QED BY <1>1, <1>2, EndingKeeps DEF Leaves

LEMMA BufferedKeeps == ExchangeIInv /\ Buffered => ExchangeIInv'
<1> SUFFICES ASSUME ExchangeIInv, Buffered PROVE ExchangeIInv'
  OBVIOUS
<1>1. PICK reply : heard' = [items |-> reply.items, why |-> reply.why, body |-> "clean"]
  BY DEF Buffered
<1>2. HeardShape' /\ heard'.body # "refused"
  BY <1>1 DEF HeardShape
<1>3. PICK best :
        /\ phase = "replying" /\ phase' = "ended" /\ ~ask.streamed
        /\ up' = [up EXCEPT !.src = "ended"]
        /\ tap' = Recorded([tap EXCEPT !.best = best])
        /\ tee' = Fired(tee, TRUE)
        /\ UNCHANGED <<ask, sent>>
  BY DEF Buffered
<1>4. UpShape'
  BY <1>3 DEF ExchangeIInv, Shaped, UpShape
<1>5. tee.fired # 1
  BY <1>3 DEF ExchangeIInv, Reporting
<1> QED BY <1>2, <1>3, <1>4, <1>5, EndingKeeps

LEMMA NoReplyKeeps == ExchangeIInv /\ NoReply => ExchangeIInv'
<1> SUFFICES ASSUME ExchangeIInv, NoReply PROVE ExchangeIInv'
  OBVIOUS
<1>1. HeardShape' /\ UpShape' /\ (~Relayed => heard'.body = "refused")
  BY DEF NoReply, ExchangeIInv, Shaped, HeardShape, UpShape
<1>2. /\ phase = "replying" /\ phase' = "ended" /\ ~ask.streamed
      /\ UNCHANGED <<ask, sent>>
      /\ tap' = IF Relayed THEN Recorded(tap) ELSE tap
      /\ tee' = IF Relayed THEN Fired(tee, FALSE) ELSE tee
  BY DEF NoReply
<1>3. tee.fired = 0 /\ ~tee.complete /\ tap.recorded = 0
  BY <1>2 DEF ExchangeIInv, Reporting
<1>4. CASE Relayed
  <2>1. tap' = Recorded([tap EXCEPT !.best = tap.best])
    BY <1>2, <1>4 DEF ExchangeIInv, Shaped, TapShape
  <2>2. tee' = Fired(tee, FALSE) /\ tee.fired # 1
    BY <1>2, <1>3, <1>4
  <2> QED BY <1>1, <1>2, <1>4, <2>1, <2>2, EndingKeeps
<1>5. CASE ~Relayed
  <2>1. UNCHANGED <<tap, tee>>
    BY <1>2, <1>5
  <2>2. Shaped'
    BY <1>1, <2>1 DEF ExchangeIInv, Shaped, TapShape, TeeShape
  <2>3. ~Relayed'
    BY <1>2, <1>5 DEF Relayed, Raw
  <2>4. Reporting'
    BY <1>1, <1>2, <1>3, <1>5, <2>1, <2>3 DEF Reporting
  <2>5. Asking' /\ Sending'
    BY <1>2 DEF Asking, Sending
  <2> QED BY <2>2, <2>4, <2>5 DEF ExchangeIInv
<1> QED BY <1>4, <1>5

LEMMA StutterKeeps == ExchangeIInv /\ UNCHANGED vars => ExchangeIInv'
BY DEF vars, ExchangeIInv, Shaped, TapShape, TeeShape, HeardShape, UpShape, Asking, Sending, Reporting, Relayed, Raw

(* The inductive invariant of an exchange, of any length and of any        *)
(* translators: records keep their shape, the request is what build_request*)
(* made of what was asked, and the reports are counted.                    *)
THEOREM ExchangeInvariance == Spec => []ExchangeIInv
<1>1. Init => ExchangeIInv
  BY InitShaped
<1>2. ExchangeIInv /\ [Next]_vars => ExchangeIInv'
  BY SendKeeps, AnswerKeeps, BeginsKeeps, SaysTextKeeps, SaysErrorKeeps, OpensBlockKeeps,
     ClosesBlockKeeps, SaysCallKeeps, SaysArgumentsKeeps, ArgumentsDoneKeeps, FinishesKeeps,
     SaysUsageKeeps, StopsKeeps, TakesKeeps, BodyEndsKeeps, LeavesKeeps, BufferedKeeps, NoReplyKeeps, StutterKeeps
  DEF Next, Rests
<1> QED BY <1>1, <1>2, PTL DEF Spec

(* Whatever ends a body, and in whatever order its end, a break and the    *)
(* client's leaving come, it is metered once and its copy is reported once,*)
(* and a stream whose upstream did not end is never a complete copy.       *)
THEOREM Reported == Spec => []ReportedOnce
<1>1. ExchangeIInv => ReportedOnce
  BY DEF ExchangeIInv, Reporting, ReportedOnce
<1> QED BY <1>1, ExchangeInvariance, PTL

(* A level of effort reaches an upstream only in the field that upstream   *)
(* reads, and where the client named none it is the configured default:    *)
(* for every dialect, every shape, any conversation.                       *)
THEOREM Effort == Spec => []EffortFits
<1>1. ExchangeIInv => EffortFits
  <2> SUFFICES ASSUME ExchangeIInv, phase = "sent" PROVE EffortFits
    BY DEF EffortFits
  <2>1. Carried(ask.client, ask.shape, ask.known, ask.configured, ask.effort, sent.effort)
    BY EveryAdapterCarries DEF ExchangeIInv, Asking, Sending
  <2>2. ask.client \in Clients /\ ask.shape \in Shapes
    BY DEF ExchangeIInv, Asking
  <2>3. ask.shape \in {"http_anthropic", "cc_messages"} => (Raw <=> ask.client = "messages")
    BY DEF Raw
  <2>4. sent.effort.at \in
          (CASE ask.shape = "codex" -> {"reasoning"}
             [] ask.shape \in {"http_openai", "cc_chat"} -> {"none", "reasoning_effort"}
             [] ask.shape \in {"http_anthropic", "cc_messages"} ->
                  {"none", "thinking"} \cup (IF Raw THEN {"output_config"} ELSE {})
             [] ask.shape = "cc_generate" -> {"none"})
    BY <2>1, <2>2, <2>3 DEF Carried, Shapes
  <2> QED BY <2>1, <2>4 DEF Carried, EffortFits
<1> QED BY <1>1, ExchangeInvariance, PTL

-----------------------------------------------------------------------------
(***************************************************************************)
(* The conversation: the inductive invariant, action by action.            *)
(***************************************************************************)
(* The reply on its way, from what the upstream says to what the client    *)
(* has heard and to what is reported of it.                                *)
NowHeard == Heard(heard.items, heard.why)

AskShape == /\ DOMAIN ask = {"client", "shape", "streamed", "known", "configured", "effort", "talk"}
            /\ ask.client \in Clients /\ ask.shape \in Shapes /\ ask.streamed \in BOOLEAN

\* The generate transport's calls are whole.
CallsWhole(shape, said) ==
  shape = "cc_generate" => \A i \in 1..Len(said) : said[i].kind = "call" => ~said[i].open

(* What has been billed, by how the bill has come. *)
UsageNow(shape, started, bill) ==
  IF bill # "none" THEN FinishUsage(shape, "whole")
  ELSE IF started /\ shape \in {"http_anthropic", "cc_messages"} THEN FirstBill ELSE NoUsage

BillTyped(shape, why, started, bill, usage) ==
  /\ started \in BOOLEAN /\ bill \in {"none", "whole", "split", "apart"}
  /\ usage = UsageNow(shape, started, bill)
  /\ bill = "split" => shape \in {"http_anthropic", "cc_messages"}
  /\ bill = "apart" => shape \notin {"http_anthropic", "cc_messages"}
  /\ why \in {"none", "error"} => bill = "none"
  /\ why = "error" => shape = "cc_generate"

UpTyped == /\ SaidIn(ask.shape, up.said) /\ CallsWhole(ask.shape, up.said)
           /\ up.pieces \in 0..MaxPieces
           /\ up.src \in {"open", "ended", "broken"}
           /\ up.why \in {"none", "whole", "length", "error"}
           /\ BillTyped(ask.shape, up.why, up.started, up.bill, up.usage)

TeeBare == tee.kept = 0 /\ ~tee.overflowed /\ tee.items = <<>>

(* Before the reply there is nothing of it. *)
Fresh == /\ up = SilentUp /\ queue = <<>> /\ heard = NothingHeard
         /\ tap.best = NoBill /\ TeeBare

(* What the meter has: all that was billed, if it sees the upstream's own  *)
(* frames or the whole bill at once; else what the translators leave of it.*)
Direct(client, shape) ==
  InOwnEvents(client, shape) \/ (client # "messages" /\ shape \in {"http_openai", "cc_chat"})

MeterNow(client, shape, started, bill) ==
  IF Direct(client, shape) \/ bill = "whole" THEN UsageOf(UsageNow(shape, started, bill))
  ELSE IF bill = "split" THEN LastPart ELSE NoBill

(* A streamed reply: from what the upstream says one can hear what leaves  *)
(* the proxy, and what the client will have heard; the frames that wait    *)
(* are the road there from what it has heard.                              *)
OnItsWay(w, d) ==
  /\ Carries(ask.client, ask.shape, up.said, up.why, conv, brg, w)
  /\ Delivers(ask.client, up.src, brg, w, d)
  /\ Whole(ask.client, NowHeard) /\ Road(ask.client, NowHeard, queue, d)
  /\ Copies(tee, w)

Streaming ==
  /\ \E w, d : OnItsWay(w, d)
  /\ tap.best = MeterNow(ask.client, ask.shape, up.started, up.bill)
  /\ heard.body \in {"open", "clean", "broken", "left"}
  /\ heard.body = "clean" => queue = <<>>
  /\ heard.body # "open" => phase = "ended"
  /\ tee.complete => ~tee.overflowed

(* A reply that is collected: nothing of it is heard before it is whole.   *)
Collecting ==
  /\ queue = <<>> /\ TeeBare
  /\ phase = "replying" => heard = NothingHeard /\ tap.best = NoBill
  /\ phase = "ended" => heard.body \in {"clean", "broken", "refused"}
  /\ phase = "ended" /\ heard.body # "clean" =>
       heard.items = <<>> /\ heard.why = "none" /\ up.why = "none" /\ tap.best = NoBill
  /\ phase = "ended" /\ heard.body = "clean" =>
       /\ tap.best = IF ask.shape = "codex" /\ up.bill = "apart" THEN NoBill ELSE UsageOf(up.usage)
       /\ up.why # "none"
       /\ \A i \in DOMAIN heard.items : heard.items[i].kind \in {"text", "call"}
       /\ Spoken(heard.items) = Spoken(up.said)
       /\ CallsHeard(heard.items) = IF TextOnly THEN <<>> ELSE CallsHeard(up.said)
       /\ up.why = "whole" => heard.why \in EndedWell
       /\ up.why = "length" /\ ask.shape # "codex" /\ ~(ClaudeShaped /\ Calls # <<>>) => heard.why \in EndedShort

Talking ==
  /\ phase \in {"asking", "sent", "replying", "ended"}
  /\ AskShape /\ UpTyped
  /\ phase \in {"asking", "sent"} => Fresh
  /\ phase \in {"replying", "ended"} /\ ask.streamed => Streaming
  /\ phase \in {"replying", "ended"} /\ ~ask.streamed => Collecting

-----------------------------------------------------------------------------
(* The adapter, the bridge and the client's dialect. *)
LEMMA WireIs == Wire = WireOf(ask.client)
BY DEF Wire, WireOf

LEMMA PipeIs ==
  ASSUME ask.client \in Clients, ask.shape \in Shapes, NEW e, Pipe(e)
  PROVE  \E a, b, r :
           /\ a = Adapted(ask.client, ask.shape, conv, e)
           /\ b = Bridges(ask.client, ask.shape, brg, a)
           /\ r = Arrives(ask.client, b)
           /\ conv' = a.st /\ brg' = r.st /\ queue' = queue \o r.out
           /\ tap' = Metered(tap, b.out) /\ tee' = Copied(tee, WireOf(ask.client), b.out)
<1>. DEFINE a == IF Raw THEN Emits(conv, <<e>>) ELSE ToChat(conv, e)
<1>. DEFINE b == IF Wire = "messages" /\ ~Raw THEN ToMessages(brg, a.out) ELSE Emits(brg, a.out)
<1>. DEFINE r == IF ask.client = "responses" THEN ToResponses(b.st, b.out) ELSE b
<1>1. /\ conv' = a.st /\ brg' = r.st /\ queue' = queue \o r.out
      /\ tap' = Metered(tap, b.out) /\ tee' = Copied(tee, Wire, b.out)
  BY DEF Pipe
<1>2. a = Adapted(ask.client, ask.shape, conv, e)
  <2>1. CASE InOwnEvents(ask.client, ask.shape)
    BY <2>1 DEF InOwnEvents, Raw, Adapted
  <2>2. CASE ~InOwnEvents(ask.client, ask.shape) /\ Raw
    BY <2>2 DEF InOwnEvents, Raw, Adapted, ChunkOf
  <2>3. CASE ~Raw
    BY <2>3, ToChatIs DEF InOwnEvents, Raw, Adapted
  <2>. QED
    BY <2>1, <2>2, <2>3
<1>. HIDE DEF a
<1>3. b = Bridges(ask.client, ask.shape, brg, a)
  BY DEF Bridges, Wire, Raw, InOwnEvents
<1>. HIDE DEF b
<1>4. r = Arrives(ask.client, b)
  BY DEF Arrives
<1>. HIDE DEF r
<1>. QED
  BY <1>1, <1>2, <1>3, <1>4, WireIs

LEMMA CarriesAnyway ==
  ASSUME NEW client, client # "messages", NEW shape, NEW said, NEW why, NEW st, NEW b, NEW w, NEW c,
         Carries(client, shape, said, why, st, b, w)
  PROVE  Carries(client, shape, said, why, st, c, w)
BY DEF Carries, InOwnEvents

(* One event on its way. *)
OneDelivered(client, shape, next, why, w, d, a, b, r, u) ==
  \E v, i : /\ Carries(client, shape, next, why, a.st, r.st, v)
            /\ Road(WireOf(client), w, b.out, v)
            /\ Road(client, d, r.out, i) /\ Delivers(client, "open", r.st, v, i)
            /\ Billed(b.out) = {u} \ {NoBill}

\* What an event does wherever the reply stands: it passes, and bills u.
Onward(client, shape, said, was, st, brig, e, next, why, u) ==
  \A w, a, b : Carries(client, shape, said, was, st, brig, w)
                 /\ a = Adapted(client, shape, st, e) /\ b = Bridges(client, shape, brig, a) =>
               Passed(client, shape, next, why, w, a, b, u)

LEMMA SpeaksOnward ==
  ASSUME NEW client, NEW shape, NEW said, NEW st, NEW brig,
         NEW e, NEW next, NEW why, NEW u, Speaks(client, shape, said, st, e, next, why, u)
  PROVE  Onward(client, shape, said, "none", st, brig, e, next, why, u)
<1>. SUFFICES ASSUME NEW w, NEW a, NEW b, Carries(client, shape, said, "none", st, brig, w),
                     a = Adapted(client, shape, st, e), b = Bridges(client, shape, brig, a)
              PROVE  Passed(client, shape, next, why, w, a, b, u)
  BY DEF Onward
<1>. QED
  BY EventPasses

LEMMA EventDelivered ==
  ASSUME NEW client \in Clients, NEW shape, NEW said, NEW was, NEW st, NEW brig, NEW w, NEW d,
         Carries(client, shape, said, was, st, brig, w), Delivers(client, "open", brig, w, d),
         NEW e, NEW next, NEW why, NEW u, Onward(client, shape, said, was, st, brig, e, next, why, u),
         NEW a, a = Adapted(client, shape, st, e), NEW b, b = Bridges(client, shape, brig, a),
         NEW r, r = Arrives(client, b)
  PROVE  OneDelivered(client, shape, next, why, w, d, a, b, r, u)
<1>1. Passed(client, shape, next, why, w, a, b, u)
  BY DEF Onward
<1>2. PICK v : /\ Road(WireOf(client), w, b.out, v)
               /\ Carries(client, shape, next, why, a.st, b.st, v)
               /\ Billed(b.out) = {u} \ {NoBill}
  BY <1>1 DEF Passed
<1>3. client = "responses" => b.st = brig
  BY DEF Bridges, Emits
<1>4. PICK i : Road(client, d, r.out, i) /\ Delivers(client, "open", r.st, v, i)
  BY <1>2, <1>3, Delivered
<1>5. Carries(client, shape, next, why, a.st, r.st, v)
  <2>1. CASE client = "messages"
    <3>1. r = b
      BY <2>1 DEF Arrives
    <3>. QED
      BY <1>2, <3>1
  <2>2. CASE client # "messages"
    BY <1>2, <2>2, CarriesAnyway
  <2>. QED
    BY <2>1, <2>2
<1>. QED
  BY <1>2, <1>4, <1>5 DEF OneDelivered

-----------------------------------------------------------------------------
LEMMA FirstMerges ==
  ASSUME NEW u \in Counts
  PROVE  MergeUsage(NoBill, u) = u
<1>1. NoBill = [input |-> 0, cached |-> 0, output |-> 0]
  BY DEF NoBill, NoUsage, UsageOf
<1>2. \A n \in Nat : MaxOf(0, n) = n
  BY DEF MaxOf
<1>. QED
  BY <1>1, <1>2 DEF MergeUsage, Counts

(* The counts a reply can be billed for. *)
LEMMA BillCounts ==
  /\ NoBill = [input |-> 0, cached |-> 0, output |-> 0]
  /\ NoBill \in Counts /\ First \in Counts /\ LastPart \in Counts
  /\ UsageOf(BillCounted) \in Counts /\ UsageOf(BillApart) \in Counts
<1>1. NoBill = [input |-> 0, cached |-> 0, output |-> 0]
  BY DEF NoBill, NoUsage, UsageOf
<1>. QED
  BY <1>1, BillIs DEF Counts

(* The parts of a split bill make the whole of it, in their order. *)
LEMMA PartsMerge ==
  /\ MergeUsage(First, UsageOf(BillApart)) = UsageOf(BillApart)
  /\ MergeUsage(First, LastPart) = UsageOf(BillApart)
<1>1. /\ MaxOf(3, 3) = 3 /\ MaxOf(3, 0) = 3 /\ MaxOf(1, 1) = 1 /\ MaxOf(1, 0) = 1 /\ MaxOf(1, 2) = 2
  BY DEF MaxOf
<1>2. MergeUsage(First, LastPart) = [input |-> 3, cached |-> 1, output |-> 2]
  BY <1>1, BillIs DEF MergeUsage
<1>3. MergeUsage(First, UsageOf(BillApart)) = [input |-> 3, cached |-> 1, output |-> 2]
  BY <1>1, BillIs DEF MergeUsage
<1>. QED
  BY <1>2, <1>3, BillIs

(* The meter before the reason has come. *)
LEMMA MeterBefore ==
  ASSUME NEW client, NEW shape, NEW started \in BOOLEAN
  PROVE  MeterNow(client, shape, started, "none")
           = IF InOwnEvents(client, shape) /\ started THEN First ELSE NoBill
BY DEF MeterNow, Direct, UsageNow, InOwnEvents, First, NoBill

LEMMA MeterBegins ==
  ASSUME NEW client, NEW shape
  PROVE  /\ BegunBill(client, shape) \in Counts
         /\ MergeUsage(MeterNow(client, shape, FALSE, "none"), BegunBill(client, shape))
              = MeterNow(client, shape, TRUE, "none")
<1>1. /\ MeterNow(client, shape, FALSE, "none") = NoBill
      /\ MeterNow(client, shape, TRUE, "none") = BegunBill(client, shape)
  BY MeterBefore DEF BegunBill
<1>2. BegunBill(client, shape) \in Counts
  BY BillCounts DEF BegunBill
<1>. QED
  BY <1>1, <1>2, FirstMerges

(* The meter at any time: no more than was billed. *)
LEMMA MeterTyped ==
  ASSUME NEW client, NEW shape, NEW why, NEW started, NEW bill, NEW usage,
         BillTyped(shape, why, started, bill, usage), NEW best, best = MeterNow(client, shape, started, bill)
  PROVE  /\ best \in Counts /\ NoMore(best, UsageOf(usage)) /\ NoMore(NoBill, UsageOf(usage))
         /\ Direct(client, shape) \/ bill = "whole" => best = UsageOf(usage)
         /\ usage \in Usage /\ (usage.apart \/ usage.cached = 0 \/ shape \notin {"http_anthropic", "cc_messages"})
<1>1. usage \in {BillCounted, BillApart, FirstBill, NoUsage}
  BY DEF BillTyped, UsageNow, FinishUsage
<1>2. UsageOf(usage) \in Counts
  BY <1>1, BillCounts DEF First, NoBill
<1>3. NoMore(NoBill, UsageOf(usage)) /\ NoMore(UsageOf(usage), UsageOf(usage))
  BY <1>2, BillCounts DEF NoMore, Counts
<1>4. Direct(client, shape) \/ bill = "whole" => best = UsageOf(usage)
  BY DEF MeterNow, BillTyped
<1>5. best \in Counts /\ NoMore(best, UsageOf(usage))
  <2>1. CASE Direct(client, shape) \/ bill = "whole"
    BY <1>2, <1>3, <1>4, <2>1
  <2>2. CASE ~(Direct(client, shape) \/ bill = "whole") /\ bill = "split"
    <3>1. best = LastPart
      BY <2>2 DEF MeterNow
    <3>2. usage = BillApart
      BY <2>2 DEF BillTyped, UsageNow, FinishUsage
    <3>3. NoMore(LastPart, UsageOf(BillApart))
      BY BillIs DEF NoMore
    <3>. QED
      BY <3>1, <3>2, <3>3, BillCounts
  <2>3. CASE ~(Direct(client, shape) \/ bill = "whole") /\ bill # "split"
    <3>1. best = NoBill
      BY <2>3 DEF MeterNow
    <3>. QED
      BY <1>3, <3>1, BillCounts
  <2>. QED
    BY <2>1, <2>2, <2>3
<1>6. usage \in Usage
  <2>1. NoUsage \in Usage
    BY DEF NoUsage, Usage, Usages
  <2>. QED
    BY <1>1, <2>1, BillIs
<1>7. usage.apart \/ usage.cached = 0 \/ shape \notin {"http_anthropic", "cc_messages"}
  <2>1. shape \in {"http_anthropic", "cc_messages"} => usage \in {BillApart, FirstBill, NoUsage}
    BY DEF BillTyped, UsageNow, FinishUsage
  <2>2. BillApart.apart /\ FirstBill.apart /\ NoUsage.cached = 0
    BY DEF BillApart, Bill, FirstBill, NoUsage
  <2>. QED
    BY <2>1, <2>2
<1>. QED
  BY <1>3, <1>4, <1>5, <1>6, <1>7

(* The meter when the reason comes, with the bill or without. *)
LEMMA MeterFinishes ==
  ASSUME NEW client, NEW shape, NEW started \in BOOLEAN, started \/ shape = "cc_generate",
         NEW why, NEW bill, Billing(shape, why, bill),
         NEW u, u = UsageOf(FinishUsage(shape, bill)),
         NEW best, best = MeterNow(client, shape, started, "none")
  PROVE  u \in Counts /\ MergeUsage(best, u) = MeterNow(client, shape, started, bill)
<1>1. /\ bill \in {"whole", "split", "none", "apart"}
      /\ bill = "split" => shape \in {"http_anthropic", "cc_messages"}
      /\ bill = "none" => shape \in {"http_openai", "cc_chat"}
      /\ bill = "apart" => shape = "codex"
  BY DEF Billing
<1>2. FinishUsage(shape, bill) \in {BillCounted, BillApart, ReplyBill, NoUsage}
  BY DEF FinishUsage
<1>3. u \in Counts
  BY <1>2, BillCounts DEF LastPart, NoBill
<1>4. best = IF InOwnEvents(client, shape) /\ started THEN First ELSE NoBill
  BY MeterBefore
<1>5. CASE bill = "whole"
  <2>1. MeterNow(client, shape, started, bill) = u
    BY <1>5 DEF MeterNow, UsageNow
  <2>2. CASE best = NoBill
    BY <1>3, <2>1, <2>2, FirstMerges
  <2>3. CASE best # NoBill
    <3>0. best = First /\ shape \in {"http_anthropic", "cc_messages"}
      BY <1>4, <2>3 DEF InOwnEvents
    <3>1. best = First /\ u = UsageOf(BillApart)
      BY <1>5, <3>0 DEF FinishUsage
    <3>. QED
      BY <1>3, <2>1, <3>1, PartsMerge
  <2>. QED
    BY <2>2, <2>3
<1>6. CASE bill = "split"
  <2>1. u = LastPart /\ shape \in {"http_anthropic", "cc_messages"} /\ started
    BY <1>1, <1>6 DEF FinishUsage, LastPart
  <2>2. CASE InOwnEvents(client, shape)
    <3>1. MeterNow(client, shape, started, bill) = UsageOf(BillApart)
      BY <1>6, <2>1, <2>2 DEF MeterNow, Direct, UsageNow, FinishUsage
    <3>2. best = First
      BY <1>4, <2>1, <2>2
    <3>. QED
      BY <1>3, <2>1, <3>1, <3>2, PartsMerge
  <2>3. CASE ~InOwnEvents(client, shape)
    <3>1. MeterNow(client, shape, started, bill) = LastPart
      BY <1>6, <2>1, <2>3 DEF MeterNow, Direct
    <3>2. best = NoBill
      BY <1>4, <2>3
    <3>. QED
      BY <1>3, <2>1, <3>1, <3>2, FirstMerges
  <2>. QED
    BY <2>2, <2>3
<1>7. CASE bill \in {"none", "apart"}
  <2>1. u = NoBill /\ shape \in {"http_openai", "cc_chat", "codex"} /\ ~InOwnEvents(client, shape)
    BY <1>1, <1>7 DEF FinishUsage, NoBill, InOwnEvents
  <2>2. best = NoBill
    BY <1>4, <2>1
  <2>3. MeterNow(client, shape, started, bill) = NoBill
    <3>1. CASE bill = "none"
      BY <2>1, <3>1, MeterBefore
    <3>2. CASE bill = "apart"
      <4>1. ~Direct(client, shape)
        BY <1>1, <3>2 DEF Direct, InOwnEvents
      <4>. QED
        BY <3>2, <4>1 DEF MeterNow
    <3>. QED
      BY <1>7, <3>1, <3>2
  <2>. QED
    BY <1>3, <2>1, <2>2, <2>3, FirstMerges
<1>. QED
  BY <1>1, <1>3, <1>5, <1>6, <1>7

(* The meter when the bill comes after the reason: a Messages client's     *)
(* translator drops it.                                                    *)
LEMMA MeterAfter ==
  ASSUME NEW client, NEW shape \in {"http_openai", "cc_chat"}, NEW started \in BOOLEAN,
         NEW u, u = IF client = "messages" THEN NoBill ELSE UsageOf(BillCounted),
         NEW best, best = MeterNow(client, shape, started, "none")
  PROVE  u \in Counts /\ MergeUsage(best, u) = MeterNow(client, shape, started, "apart")
<1>1. u \in Counts
  BY BillCounts
<1>2. best = NoBill
  BY MeterBefore DEF InOwnEvents
<1>3. MeterNow(client, shape, started, "apart") = u
  BY DEF MeterNow, Direct, InOwnEvents, UsageNow, FinishUsage
<1>. QED
  BY <1>1, <1>2, <1>3, FirstMerges

(* The upstream says one thing more, which passes on its way. *)
LEMMA StreamPasses ==
  ASSUME ExchangeIInv, Talking, phase = "replying", up.src = "open", queue = <<>>, ask.streamed,
         UNCHANGED <<ask, phase, sent, heard>>,
         up'.src = up.src, NEW e, Pipe(e), NEW u \in Counts,
         Onward(ask.client, ask.shape, up.said, up.why, conv, brg, e, up'.said, up'.why, u),
         MergeUsage(tap.best, u) = MeterNow(ask.client, ask.shape, up'.started, up'.bill),
         tee'.complete = tee.complete
  PROVE  Streaming'
<1>0. /\ ask.client \in Clients /\ ask.shape \in Shapes
      /\ up.why \in {"none", "whole", "length", "error"}
  BY DEF Talking, AskShape, UpTyped
<1>1. Streaming
  BY DEF Talking
<1>2. PICK w, d : OnItsWay(w, d)
  BY <1>1 DEF Streaming
<1>3. /\ Carries(ask.client, ask.shape, up.said, up.why, conv, brg, w)
      /\ Delivers(ask.client, "open", brg, w, d)
      /\ Whole(ask.client, NowHeard) /\ Copies(tee, w)
  BY <1>2 DEF OnItsWay
<1>4. NowHeard = d
  <2>1. Road(ask.client, NowHeard, <<>>, d)
    BY <1>2 DEF OnItsWay
  <2>. QED
    BY <2>1, RoadEmpty
<1>5. PICK a, b, r :
           /\ a = Adapted(ask.client, ask.shape, conv, e)
           /\ b = Bridges(ask.client, ask.shape, brg, a)
           /\ r = Arrives(ask.client, b)
           /\ conv' = a.st /\ brg' = r.st /\ queue' = queue \o r.out
           /\ tap' = Metered(tap, b.out) /\ tee' = Copied(tee, WireOf(ask.client), b.out)
  BY <1>0, PipeIs
<1>a. OneDelivered(ask.client, ask.shape, up'.said, up'.why, w, d, a, b, r, u)
  <2>. DEFINE client == ask.client
  <2>. DEFINE shape == ask.shape
  <2>. DEFINE said == up.said
  <2>. DEFINE was == up.why
  <2>. DEFINE next == up'.said
  <2>. DEFINE why == up'.why
  <2>1. /\ client \in Clients /\ Carries(client, shape, said, was, conv, brg, w)
        /\ Delivers(client, "open", brg, w, d)
        /\ Onward(client, shape, said, was, conv, brg, e, next, why, u)
        /\ a = Adapted(client, shape, conv, e) /\ b = Bridges(client, shape, brg, a) /\ r = Arrives(client, b)
    BY <1>0, <1>3, <1>5
  <2>. HIDE DEF client, shape, said, was, next, why
  <2>2. OneDelivered(client, shape, next, why, w, d, a, b, r, u)
    BY <2>1, EventDelivered
  <2>. QED
    BY <2>2 DEF client, shape, next, why
<1>6. PICK v, i : /\ Carries(ask.client, ask.shape, up'.said, up'.why, a.st, r.st, v)
                  /\ Road(WireOf(ask.client), w, b.out, v)
                  /\ Road(ask.client, d, r.out, i) /\ Delivers(ask.client, "open", r.st, v, i)
                  /\ Billed(b.out) = {u} \ {NoBill}
  BY <1>a DEF OneDelivered
<1>7. r.out \in Seq(Frames) /\ b.out \in Seq(Frames) /\ queue' = r.out
  <2>1. r.out \in Seq(Frames) /\ b.out \in Seq(Frames)
    BY <1>6 DEF Road
  <2>. QED
    BY <1>0, <1>5, <2>1
<1>8. Copies(tee', v)
  <2>1. Whole(WireOf(ask.client), w)
    <3>1. Tells(ask.client, ask.shape, up.said, up.why, w)
      BY <1>0, <1>3, CarriesReply
    <3>. QED
      BY <3>1 DEF Tells
  <2>2. WireOf(ask.client) \in {"chat", "messages"}
    BY DEF WireOf
  <2>. QED
    BY <1>3, <1>5, <1>6, <2>1, <2>2, CopiedKeeps
<1>9. NowHeard' = NowHeard
  BY DEF NowHeard
<1>10. OnItsWay(v, i)'
  BY <1>3, <1>4, <1>5, <1>6, <1>7, <1>8, <1>9 DEF OnItsWay
<1>11. tap'.best = MergeUsage(tap.best, u)
  <2>1. IsTap(tap)
    BY DEF ExchangeIInv, Shaped, TapShape, IsTap
  <2>2. tap.best \in Counts
    <3>1. BillTyped(ask.shape, up.why, up.started, up.bill, up.usage)
      BY DEF Talking, UpTyped
    <3>2. tap.best = MeterNow(ask.client, ask.shape, up.started, up.bill)
      BY <1>1 DEF Streaming
    <3>. DEFINE client == ask.client
    <3>. DEFINE shape == ask.shape
    <3>. DEFINE why == up.why
    <3>. DEFINE started == up.started
    <3>. DEFINE bill == up.bill
    <3>. DEFINE usage == up.usage
    <3>. DEFINE best == tap.best
    <3>3. BillTyped(shape, why, started, bill, usage) /\ best = MeterNow(client, shape, started, bill)
      BY <3>1, <3>2
    <3>. HIDE DEF client, shape, why, started, bill, usage, best
    <3>4. best \in Counts
      BY <3>3, MeterTyped
    <3>. QED
      BY <3>4 DEF best
  <2>. DEFINE q == b.out
  <2>3. q \in Seq(Frames) /\ Billed(q) = {u} \ {NoBill} /\ tap' = Metered(tap, q)
    BY <1>5, <1>6, <1>7
  <2>. HIDE DEF q
  <2>. QED
    BY <2>1, <2>2, <2>3, MeteredIs
<1>12. tap'.best = MeterNow(ask.client, ask.shape, up'.started, up'.bill)
  BY <1>11
<1>13. ~tee.complete
  BY DEF ExchangeIInv, Reporting
<1>14. heard.body = "open"
  BY <1>1 DEF Streaming
<1>. QED
  BY <1>10, <1>12, <1>13, <1>14 DEF Streaming

LEMMA OpenTalks ==
  ASSUME ExchangeIInv, Talking, phase = "replying", up.src = "open", queue = <<>>,
         UNCHANGED <<ask, phase, sent, heard>>,
         UpTyped', up'.src = up.src, NEW e, Passes(e), NEW u \in Counts,
         ask.streamed =>
           /\ Onward(ask.client, ask.shape, up.said, up.why, conv, brg, e, up'.said, up'.why, u)
           /\ MergeUsage(tap.best, u) = MeterNow(ask.client, ask.shape, up'.started, up'.bill)
  PROVE  Talking'
<1>0. AskShape' /\ TapShape /\ TeeShape
  BY DEF Talking, AskShape, ExchangeIInv, Shaped
<1>1. CASE ask.streamed
  <2>1. tee'.complete = tee.complete
    BY <1>0, Passing
  <2>2. Pipe(e)
    BY <1>1 DEF Passes
  <2>3. Streaming'
    BY <1>1, <2>1, <2>2, StreamPasses
  <2>. QED
    BY <1>0, <1>1, <2>3 DEF Talking
<1>2. CASE ~ask.streamed
  <2>1. UNCHANGED <<queue, tap, tee>>
    BY <1>2 DEF Passes
  <2>2. Collecting
    BY <1>2 DEF Talking
  <2>3. Collecting'
    BY <1>0, <2>1, <2>2 DEF Collecting, TeeBare
  <2>. QED
    BY <1>0, <1>2, <2>3 DEF Talking
<1>. QED
  BY <1>1, <1>2

LEMMA SpeakingTalks ==
  ASSUME ExchangeIInv, Talking, Speaking, UNCHANGED <<ask, phase, sent, heard>>,
         UpTyped', up'.src = up.src, NEW e, Passes(e), NEW u \in Counts,
         ask.streamed =>
           /\ Speaks(ask.client, ask.shape, up.said, conv, e, up'.said, up'.why, u)
           /\ MergeUsage(tap.best, u) = MeterNow(ask.client, ask.shape, up'.started, up'.bill)
  PROVE  Talking'
<1>1. phase = "replying" /\ up.src = "open" /\ up.why = "none" /\ queue = <<>>
  BY DEF Speaking
<1>2. ASSUME ask.streamed
      PROVE  Onward(ask.client, ask.shape, up.said, up.why, conv, brg, e, up'.said, up'.why, u)
  <2>. DEFINE next == up'.said
  <2>. DEFINE why == up'.why
  <2>1. Speaks(ask.client, ask.shape, up.said, conv, e, next, why, u)
    BY <1>2
  <2>. HIDE DEF next, why
  <2>2. Onward(ask.client, ask.shape, up.said, "none", conv, brg, e, next, why, u)
    BY <2>1, SpeaksOnward
  <2>. QED
    BY <1>1, <2>2 DEF next, why
<1>. QED
  BY <1>1, <1>2, OpenTalks

-----------------------------------------------------------------------------
(* What the upstream says, action by action.                               *)
SameBill == up'.started = up.started /\ up'.bill = up.bill /\ up'.usage = up.usage

LEMMA UpSays ==
  ASSUME UpShape, NEW p, NEW s, up' = [up EXCEPT !.pieces = p, !.said = s]
  PROVE  /\ up'.said = s /\ up'.pieces = p /\ up'.why = up.why /\ up'.src = up.src
         /\ SameBill
BY DEF UpShape, SameBill

LEMMA UpSaysOnly ==
  ASSUME UpShape, NEW s, up' = [up EXCEPT !.said = s]
  PROVE  /\ up'.said = s /\ up'.pieces = up.pieces /\ up'.why = up.why /\ up'.src = up.src
         /\ SameBill
BY DEF UpShape, SameBill

(* What bills nothing leaves the meter as it is. *)
LEMMA MeterStays ==
  ASSUME Talking, phase = "replying", ask.streamed, SameBill
  PROVE  MergeUsage(tap.best, NoBill) = MeterNow(ask.client, ask.shape, up'.started, up'.bill)
<1>1. tap.best = MeterNow(ask.client, ask.shape, up.started, up.bill)
  BY DEF Talking, Streaming
<1>2. tap.best \in Counts
  BY <1>1, MeterTyped DEF Talking, UpTyped
<1>. QED
  BY <1>1, <1>2, NoBillMerges DEF SameBill

(* What the upstream says that bills nothing and does not end the reply. *)
LEMMA QuietTalks ==
  ASSUME ExchangeIInv, Talking, Speaking, UNCHANGED <<ask, phase, sent, heard>>,
         NEW next, SaidIn(ask.shape, next), CallsWhole(ask.shape, next),
         up'.said = next, up'.pieces \in 0..MaxPieces, up'.why = up.why, up'.src = up.src,
         SameBill, NEW e, Passes(e),
         ask.streamed => Speaks(ask.client, ask.shape, up.said, conv, e, next, "none", NoBill)
  PROVE  Talking'
<1>1. phase = "replying" /\ up.why = "none" /\ ask.shape \in Shapes
  BY DEF Speaking, Talking, AskShape
<1>2. UpTyped'
  BY <1>1 DEF UpTyped, Talking, SameBill
<1>3. NoBill \in Counts
  BY BillCounts
<1>4. CASE ask.streamed
  BY <1>1, <1>2, <1>3, <1>4, MeterStays, SpeakingTalks
<1>5. CASE ~ask.streamed
  BY <1>2, <1>3, <1>5, SpeakingTalks
<1>. QED
  BY <1>4, <1>5

LEMMA UnderwayIs ==
  ASSUME ExchangeIInv, Talking, Underway
  PROVE  /\ Speaking /\ UpShape /\ SaidIn(ask.shape, up.said) /\ up.said \in Seq(Items)
         /\ CallsWhole(ask.shape, up.said)
         /\ ask.shape \in Shapes /\ ask.client \in Clients /\ up.pieces \in 0..MaxPieces /\ MaxPieces \in Nat
         /\ up.why = "none"
BY ExchangeBounds DEF ExchangeIInv, Shaped, Talking, AskShape, UpTyped, Underway, Speaking, SaidIn

LEMMA BeginsTalks == ExchangeIInv /\ Talking /\ Begins => Talking'
<1>. SUFFICES ASSUME ExchangeIInv, Talking, Begins PROVE Talking'
  OBVIOUS
<1>. DEFINE e == RoleEvent(ask.shape)
<1>. DEFINE u == BegunBill(ask.client, ask.shape)
<1>. DEFINE usage == IF ClaudeShaped THEN FirstBill ELSE up.usage
<1>1. /\ Speaking /\ ~up.started /\ ask.shape # "cc_generate" /\ UNCHANGED <<ask, phase, sent, heard>>
      /\ up' = [up EXCEPT !.started = TRUE, !.usage = usage]
  BY DEF Begins, ExchangeIInv, Shaped, UpShape
<1>2. /\ UpShape /\ UpTyped /\ ask.shape \in Shapes /\ phase = "replying" /\ up.why = "none"
  BY <1>1 DEF ExchangeIInv, Shaped, Talking, AskShape, Speaking
<1>3. BillTyped(ask.shape, "none", up.started, up.bill, up.usage) /\ up.started = FALSE /\ up.bill = "none"
  BY <1>1, <1>2 DEF UpTyped, BillTyped
<1>4. BillTyped(ask.shape, "none", TRUE, "none", usage)
  BY <1>3 DEF BillTyped, UsageNow, ClaudeShaped
<1>5. Passes(e)
  BY <1>2 DEF Begins, RoleEvent, ChatShaped, ClaudeShaped, Shapes
<1>6. Speaks(ask.client, ask.shape, up.said, conv, e, up.said, "none", u)
  BY <1>1, <1>2, SpeaksRole DEF UpTyped
<1>. HIDE DEF e, u, usage
<1>7. /\ up'.said = up.said /\ up'.pieces = up.pieces /\ up'.why = "none" /\ up'.src = up.src
      /\ up'.started = TRUE /\ up'.bill = "none" /\ up'.usage = usage
  BY <1>1, <1>2, <1>3 DEF UpShape
<1>8. UpTyped'
  BY <1>1, <1>2, <1>4, <1>7 DEF UpTyped
<1>9. u \in Counts
  BY MeterBegins DEF u
<1>10. ask.streamed => MergeUsage(tap.best, u) = MeterNow(ask.client, ask.shape, up'.started, up'.bill)
  <2>. SUFFICES ASSUME ask.streamed PROVE MergeUsage(tap.best, u) = MeterNow(ask.client, ask.shape, TRUE, "none")
    BY <1>7
  <2>1. tap.best = MeterNow(ask.client, ask.shape, FALSE, "none")
    BY <1>2, <1>3 DEF Talking, Streaming
  <2>. QED
    BY <2>1, MeterBegins DEF u
<1>11. Speaks(ask.client, ask.shape, up.said, conv, e, up'.said, up'.why, u)
  BY <1>6, <1>7
<1>. QED
  BY <1>1, <1>5, <1>7, <1>8, <1>9, <1>10, <1>11, SpeakingTalks

LEMMA TextStaysWhole ==
  ASSUME NEW shape, NEW said \in Seq(Items), CallsWhole(shape, said), NEW p \in Nat,
         NEW more \in BOOLEAN, more => EndsInText(said), NEW next, next = TextSaid(said, more, p)
  PROVE  CallsWhole(shape, next)
<1>. DEFINE n == Len(said)
<1>. DEFINE o == <<p>>
<1>0. n \in Nat /\ o \in Seq(Nat)
  OBVIOUS
<1>1. CASE more
  <2>1. next = Extend(said, n, o) /\ n \in 1..Len(said)
    BY <1>0, <1>1 DEF TextSaid, EndsInText
  <2>2. Else(said, n, next)
    BY <1>0, <2>1, ExtendIs
  <2>. QED
    BY <2>2 DEF Else, CallsWhole
<1>2. CASE ~more
  <2>1. next = Append(said, Item(n, "text", 0, o))
    BY <1>2 DEF TextSaid
  <2>. HIDE DEF o
  <2>. DEFINE x == Item(n, "text", 0, o)
  <2>2. x.kind = "text"
    BY DEF Item
  <2>. HIDE DEF x
  <2>3. Len(next) = n + 1 /\ next[n + 1] = x /\ \A i \in 1..n : next[i] = said[i]
    BY <2>1 DEF x
  <2>. QED
    BY <2>2, <2>3 DEF CallsWhole
<1>. QED
  BY <1>1, <1>2

LEMMA SaysTextTalks == ExchangeIInv /\ Talking /\ SaysText => Talking'
<1>. SUFFICES ASSUME ExchangeIInv, Talking, SaysText PROVE Talking'
  OBVIOUS
<1>. DEFINE p == up.pieces + 1
<1>. DEFINE more == EndsInText(up.said)
<1>. DEFINE e == TextEvent(ask.shape, Len(up.said), p)
<1>. DEFINE next == TextSaid(up.said, more, p)
<1>1. /\ Underway /\ up.pieces < MaxPieces /\ (ClaudeShaped => more)
      /\ UNCHANGED <<ask, phase, sent, heard>>
      /\ up' = [up EXCEPT !.pieces = p, !.said = next]
  BY DEF SaysText, EndsInText, TextSaid
<1>2. /\ Speaking /\ UpShape /\ SaidIn(ask.shape, up.said) /\ up.said \in Seq(Items)
      /\ CallsWhole(ask.shape, up.said)
      /\ ask.shape \in Shapes /\ up.pieces \in 0..MaxPieces /\ MaxPieces \in Nat
  BY <1>1, UnderwayIs
<1>3. Passes(e)
  BY <1>2 DEF SaysText, TextEvent, ChatShaped, ClaudeShaped, Shapes
<1>4. p \in Nat /\ p \in 0..MaxPieces /\ more \in BOOLEAN
  BY <1>1, <1>2 DEF EndsInText
<1>5. ask.shape \in {"http_anthropic", "cc_messages"} => more
  BY <1>1 DEF ClaudeShaped
<1>. HIDE DEF p, more
<1>6. Speaks(ask.client, ask.shape, up.said, conv, e, next, "none", NoBill) /\ SaidIn(ask.shape, next)
  BY <1>2, <1>4, <1>5, SpeaksText DEF more
<1>7. CallsWhole(ask.shape, next)
  BY <1>2, <1>4, TextStaysWhole DEF more
<1>. HIDE DEF e, next
<1>8. /\ up'.said = next /\ up'.pieces = p /\ up'.why = up.why /\ up'.src = up.src
      /\ SameBill
  BY <1>1, <1>2, UpSays
<1>. QED
  BY <1>1, <1>2, <1>3, <1>4, <1>6, <1>7, <1>8, QuietTalks

LEMMA SaysErrorTalks == ExchangeIInv /\ Talking /\ SaysError => Talking'
<1>. SUFFICES ASSUME ExchangeIInv, Talking, SaysError PROVE Talking'
  OBVIOUS
<1>. DEFINE p == up.pieces + 1
<1>. DEFINE e == [ev |-> "error", p |-> p]
<1>. DEFINE next == TextSaid(up.said, FALSE, p)
<1>1. /\ Underway /\ up.pieces < MaxPieces /\ ask.shape = "cc_generate" /\ ask.streamed
      /\ UNCHANGED <<ask, phase, sent, heard>> /\ Passes(e)
      /\ up' = [up EXCEPT !.pieces = p, !.why = "error", !.said = next]
  BY DEF SaysError, TextSaid
<1>2. /\ Speaking /\ UpShape /\ SaidIn(ask.shape, up.said) /\ up.said \in Seq(Items)
      /\ CallsWhole(ask.shape, up.said) /\ up.why = "none"
      /\ ask.shape \in Shapes /\ up.pieces \in 0..MaxPieces /\ MaxPieces \in Nat
  BY <1>1, UnderwayIs
<1>3. p \in Nat /\ p \in 0..MaxPieces
  BY <1>1, <1>2
<1>. HIDE DEF p
<1>4. Speaks(ask.client, ask.shape, up.said, conv, e, next, "error", NoBill) /\ SaidIn(ask.shape, next)
  BY <1>1, <1>2, <1>3, SpeaksError
<1>5. CallsWhole(ask.shape, next)
  <2>. DEFINE more == FALSE
  <2>1. more \in BOOLEAN /\ ~more
    OBVIOUS
  <2>2. next = TextSaid(up.said, more, p)
    OBVIOUS
  <2>. HIDE DEF more, next
  <2>. QED
    BY <1>2, <1>3, <2>1, <2>2, TextStaysWhole
<1>. HIDE DEF e, next
<1>6. /\ up'.said = next /\ up'.pieces = p /\ up'.why = "error" /\ up'.src = up.src
      /\ SameBill
  BY <1>1, <1>2 DEF UpShape, SameBill
<1>7. phase = "replying" /\ BillTyped(ask.shape, "error", up.started, up.bill, up.usage)
  <2>1. ask.shape = "cc_generate"
    BY DEF SaysError
  <2>. QED
    BY <1>2, <2>1 DEF Speaking, Talking, UpTyped, BillTyped
<1>8. UpTyped'
  BY <1>1, <1>2, <1>3, <1>4, <1>5, <1>6, <1>7 DEF UpTyped, Talking, SameBill
<1>9. NoBill \in Counts
  BY BillCounts
<1>10. MergeUsage(tap.best, NoBill) = MeterNow(ask.client, ask.shape, up'.started, up'.bill)
  BY <1>1, <1>6, <1>7, MeterStays
<1>11. Speaks(ask.client, ask.shape, up.said, conv, e, up'.said, up'.why, NoBill)
  BY <1>4, <1>6
<1>. QED
  BY <1>1, <1>2, <1>6, <1>8, <1>9, <1>10, <1>11, SpeakingTalks

-----------------------------------------------------------------------------
(* Blocks and calls.                                                       *)
LEMMA CallsAre == Calls = CallsOf(up.said) /\ Len(Calls) = CallCount(up.said)
BY DEF Calls, CallCount

LEMMA ClaudeWhole ==
  ASSUME NEW shape, shape # "cc_generate", NEW said
  PROVE  CallsWhole(shape, said)
BY DEF CallsWhole

LEMMA OpensBlockTalks == ExchangeIInv /\ Talking /\ OpensBlock => Talking'
<1>. SUFFICES ASSUME ExchangeIInv, Talking, OpensBlock PROVE Talking'
  OBVIOUS
<1>. DEFINE n == Len(up.said)
<1>. DEFINE number(kind) == IF kind = "call" THEN CallCount(up.said) + 1 ELSE 0
<1>1. PICK kind \in {"text", "call"} :
        /\ up' = [up EXCEPT !.said = Append(@, Item(n, kind, number(kind), <<>>))]
        /\ Passes(Open(n, kind, number(kind)))
  BY CallsAre DEF OpensBlock
<1>2. Underway /\ ClaudeShaped /\ UNCHANGED <<ask, phase, sent, heard>>
  BY DEF OpensBlock
<1>3. /\ Speaking /\ UpShape /\ SaidIn(ask.shape, up.said) /\ up.said \in Seq(Items)
      /\ ask.shape \in Shapes /\ up.pieces \in 0..MaxPieces
  BY <1>2, UnderwayIs
<1>. DEFINE id == number(kind)
<1>. DEFINE e == Open(n, kind, id)
<1>. DEFINE next == Append(up.said, Item(n, kind, id, <<>>))
<1>4. ask.shape \in {"http_anthropic", "cc_messages"}
  BY <1>2 DEF ClaudeShaped
<1>5. Speaks(ask.client, ask.shape, up.said, conv, e, next, "none", NoBill) /\ SaidIn(ask.shape, next)
  BY <1>3, <1>4, SpeaksOpen
<1>6. CallsWhole(ask.shape, next)
  BY <1>4, ClaudeWhole
<1>7. up' = [up EXCEPT !.said = next] /\ Passes(e)
  BY <1>1
<1>. HIDE DEF e, next
<1>8. /\ up'.said = next /\ up'.pieces = up.pieces /\ up'.why = up.why /\ up'.src = up.src
      /\ SameBill
  BY <1>3, <1>7, UpSaysOnly
<1>. QED
  BY <1>2, <1>3, <1>5, <1>6, <1>7, <1>8, QuietTalks

LEMMA ClosesBlockTalks == ExchangeIInv /\ Talking /\ ClosesBlock => Talking'
<1>. SUFFICES ASSUME ExchangeIInv, Talking, ClosesBlock PROVE Talking'
  OBVIOUS
<1>1. PICK i \in OpenOnes : up' = [up EXCEPT !.said = Shut(@, i)] /\ Passes(Close(i - 1))
  BY DEF ClosesBlock
<1>2. Underway /\ ClaudeShaped /\ UNCHANGED <<ask, phase, sent, heard>>
  BY DEF ClosesBlock
<1>3. /\ Speaking /\ UpShape /\ SaidIn(ask.shape, up.said) /\ up.said \in Seq(Items)
      /\ ask.shape \in Shapes /\ up.pieces \in 0..MaxPieces
  BY <1>2, UnderwayIs
<1>4. i \in 1..Len(up.said) /\ up.said[i].open
  BY <1>1, <1>3 DEF OpenOnes
<1>. DEFINE e == Close(i - 1)
<1>. DEFINE next == Shut(up.said, i)
<1>5. ask.shape \in {"http_anthropic", "cc_messages"}
  BY <1>2 DEF ClaudeShaped
<1>6. Speaks(ask.client, ask.shape, up.said, conv, e, next, "none", NoBill) /\ SaidIn(ask.shape, next)
  BY <1>3, <1>4, <1>5, SpeaksClose
<1>7. CallsWhole(ask.shape, next)
  BY <1>5, ClaudeWhole
<1>8. up' = [up EXCEPT !.said = next] /\ Passes(e)
  BY <1>1
<1>. HIDE DEF e, next
<1>9. /\ up'.said = next /\ up'.pieces = up.pieces /\ up'.why = up.why /\ up'.src = up.src
      /\ SameBill
  BY <1>3, <1>8, UpSaysOnly
<1>. QED
  BY <1>2, <1>3, <1>6, <1>7, <1>8, <1>9, QuietTalks

LEMMA CallStaysWhole ==
  ASSUME NEW shape, NEW said \in Seq(Items), CallsWhole(shape, said), NEW p \in Nat,
         NEW c, c = CallItem(shape, said, p), NEW next, next = Append(said, c)
  PROVE  CallsWhole(shape, next)
<1>. DEFINE n == Len(said)
<1>1. shape = "cc_generate" => ~c.open
  BY DEF CallItem
<1>2. Len(next) = n + 1 /\ next[n + 1] = c /\ \A i \in 1..n : next[i] = said[i]
  OBVIOUS
<1>. QED
  BY <1>1, <1>2 DEF CallsWhole

(* The arguments a call brings: one piece, where it is whole. *)
Whole1(shape, p) == IF shape = "cc_generate" THEN <<p>> ELSE <<>>

LEMMA SaysCallIs ==
  ASSUME SaysCall, ask.shape \in Shapes, up.said \in Seq(Items), up.pieces \in Nat,
         NEW p, p = up.pieces + 1, NEW c, c = CallItem(ask.shape, up.said, p)
  PROVE  /\ up' = [up EXCEPT !.pieces = @ + Len(Whole1(ask.shape, p)), !.said = Append(@, c)]
         /\ Passes(CallEvent(ask.shape, c))
         /\ ask.shape \in {"codex", "http_openai", "cc_chat", "cc_generate"}
         /\ ask.shape = "cc_generate" /\ ask.streamed /\ ~ParallelLines => c.id = 1
<1>. DEFINE n == Len(up.said)
<1>. DEFINE id == Len(Calls) + 1
<1>. DEFINE whole == ask.shape = "cc_generate"
<1>. DEFINE args == IF whole THEN <<up.pieces + 1>> ELSE <<>>
<1>. DEFINE at == IF ask.shape = "codex" THEN n ELSE id - 1
<1>. DEFINE item == [Item(at, "call", id, args) EXCEPT !.open = ~whole]
<1>1. /\ ~ClaudeShaped /\ (whole /\ ask.streamed /\ ~ParallelLines => id = 1)
      /\ up' = [up EXCEPT !.pieces = @ + Len(args), !.said = Append(@, item)]
      /\ Passes(CASE ask.shape = "codex" -> [ev |-> "item_added", at |-> at, id |-> id, args |-> args]
                  [] whole -> [ev |-> "tool_call", id |-> id, args |-> args]
                  [] ChatShaped -> Call(at, id, args))
  BY DEF SaysCall
<1>2. args = Whole1(ask.shape, p) /\ id = CallCount(up.said) + 1
  BY CallsAre DEF Whole1
<1>3. CallCount(up.said) \in Nat
  BY CountTyped
<1>4. item = [at |-> at, kind |-> "call", id |-> id, parts |-> args, open |-> ~whole]
  <2>. HIDE DEF at, id, args
  <2>1. Item(at, "call", id, args) = [at |-> at, kind |-> "call", id |-> id, parts |-> args, open |-> TRUE]
    BY DEF Item
  <2>. QED
    BY <2>1
<1>5. item = c
  <2>1. CASE ask.shape = "cc_generate"
    <3>1. (~whole) = FALSE /\ at = CallCount(up.said) /\ args = <<p>>
      BY <1>2, <1>3, <2>1
    <3>2. c = [at |-> CallCount(up.said), kind |-> "call", id |-> CallCount(up.said) + 1,
               parts |-> <<p>>, open |-> FALSE]
      BY <2>1 DEF CallItem
    <3>. HIDE DEF item, whole, at, args, id
    <3>. QED
      BY <1>2, <1>4, <3>1, <3>2
  <2>2. CASE ask.shape # "cc_generate"
    <3>1. (~whole) = TRUE /\ at = (IF ask.shape = "codex" THEN Len(up.said) ELSE CallCount(up.said)) /\ args = <<>>
      BY <1>2, <1>3, <2>2
    <3>2. c = [at |-> IF ask.shape = "codex" THEN Len(up.said) ELSE CallCount(up.said), kind |-> "call",
               id |-> CallCount(up.said) + 1, parts |-> <<>>, open |-> TRUE]
      BY <2>2 DEF CallItem
    <3>. HIDE DEF item, whole, at, args, id
    <3>. QED
      BY <1>2, <1>4, <3>1, <3>2
  <2>. QED
    BY <2>1, <2>2
<1>6. c.at = at /\ c.id = id /\ c.parts = args
  BY <1>4, <1>5
<1>7. ask.shape \in {"codex", "http_openai", "cc_chat", "cc_generate"}
  BY <1>1 DEF ClaudeShaped, Shapes
<1>. HIDE DEF at, id, args, item
<1>8. Passes(CallEvent(ask.shape, c))
  BY <1>1, <1>6, <1>7 DEF CallEvent, ChatShaped
<1>. QED
  BY <1>1, <1>2, <1>5, <1>6, <1>7, <1>8

LEMMA SaysCallTalks == ExchangeIInv /\ Talking /\ SaysCall => Talking'
<1>. SUFFICES ASSUME ExchangeIInv, Talking, SaysCall PROVE Talking'
  OBVIOUS
<1>. DEFINE p == up.pieces + 1
<1>. DEFINE c == CallItem(ask.shape, up.said, p)
<1>. DEFINE e == CallEvent(ask.shape, c)
<1>. DEFINE next == Append(up.said, c)
<1>. DEFINE pieces == up.pieces + Len(Whole1(ask.shape, p))
<1>1. Underway /\ up.pieces < MaxPieces /\ UNCHANGED <<ask, phase, sent, heard>>
  BY DEF SaysCall
<1>2. /\ Speaking /\ UpShape /\ SaidIn(ask.shape, up.said) /\ up.said \in Seq(Items)
      /\ CallsWhole(ask.shape, up.said)
      /\ ask.shape \in Shapes /\ up.pieces \in 0..MaxPieces /\ MaxPieces \in Nat
  BY <1>1, UnderwayIs
<1>3. /\ up' = [up EXCEPT !.pieces = pieces, !.said = next] /\ Passes(e)
      /\ ask.shape \in {"codex", "http_openai", "cc_chat", "cc_generate"}
      /\ ask.shape = "cc_generate" /\ ask.streamed /\ ~ParallelLines => c.id = 1
  <2>1. up.pieces \in Nat /\ p = up.pieces + 1 /\ c = CallItem(ask.shape, up.said, p)
    BY <1>2
  <2>. HIDE DEF p, c
  <2>. QED
    BY <1>2, <2>1, SaysCallIs
<1>4. p \in Nat
  BY <1>2
<1>5. pieces \in 0..MaxPieces
  BY <1>1, <1>2 DEF Whole1
<1>. HIDE DEF p, pieces
<1>6. SaidIn(ask.shape, next)
  BY <1>2, <1>3, <1>4, SaidInCall
<1>7. CallsWhole(ask.shape, next)
  BY <1>2, <1>4, CallStaysWhole
<1>8. ask.streamed => Speaks(ask.client, ask.shape, up.said, conv, e, next, "none", NoBill)
  <2>. SUFFICES ASSUME ask.streamed PROVE Speaks(ask.client, ask.shape, up.said, conv, e, next, "none", NoBill)
    OBVIOUS
  <2>1. ask.shape = "cc_generate" /\ ~ParallelLines => c.id = 1
    BY <1>3
  <2>. HIDE DEF c
  <2>. QED
    BY <1>2, <1>3, <1>4, <2>1, SpeaksCall DEF c
<1>. HIDE DEF e, next
<1>9. /\ up'.said = next /\ up'.pieces = pieces /\ up'.why = up.why /\ up'.src = up.src
      /\ SameBill
  BY <1>2, <1>3, UpSays
<1>. QED
  BY <1>1, <1>2, <1>3, <1>5, <1>6, <1>7, <1>8, <1>9, QuietTalks

-----------------------------------------------------------------------------
(* Arguments, and the end of the reply.                                    *)
LEMMA SaysArgumentsTalks == ExchangeIInv /\ Talking /\ SaysArguments => Talking'
<1>. SUFFICES ASSUME ExchangeIInv, Talking, SaysArguments PROVE Talking'
  OBVIOUS
<1>. DEFINE p == up.pieces + 1
<1>. DEFINE args == <<p>>
<1>1. Underway /\ up.pieces < MaxPieces /\ UNCHANGED <<ask, phase, sent, heard>>
  BY DEF SaysArguments
<1>2. /\ Speaking /\ UpShape /\ SaidIn(ask.shape, up.said) /\ up.said \in Seq(Items)
      /\ CallsWhole(ask.shape, up.said)
      /\ ask.shape \in Shapes /\ up.pieces \in 0..MaxPieces /\ MaxPieces \in Nat
  BY <1>1, UnderwayIs
<1>3. PICK i \in OpenOnes :
        /\ up.said[i].kind = "call"
        /\ up' = [up EXCEPT !.pieces = p, !.said = Extend(@, i, args)]
        /\ Passes(CASE ask.shape = "codex" -> [ev |-> "arguments_delta", at |-> up.said[i].at, args |-> args]
                    [] ChatShaped -> Call(up.said[i].at, 0, args)
                    [] ClaudeShaped -> Delta(i - 1, args))
  BY DEF SaysArguments
<1>4. i \in 1..Len(up.said) /\ up.said[i].open
  BY <1>2, <1>3 DEF OpenOnes
<1>5. ask.shape \in Shapes \ {"cc_generate"}
  BY <1>2, <1>3, <1>4 DEF CallsWhole
<1>6. p \in Nat /\ p \in 0..MaxPieces /\ args \in Seq(Nat) /\ args # <<>>
  BY <1>1, <1>2
<1>. DEFINE e == ArgumentsEvent(ask.shape, up.said[i].at, i, args)
<1>. DEFINE next == Extend(up.said, i, args)
<1>7. Passes(e)
  BY <1>3, <1>5 DEF ArgumentsEvent, ChatShaped, ClaudeShaped, Shapes
<1>. HIDE DEF p, args
<1>8. Speaks(ask.client, ask.shape, up.said, conv, e, next, "none", NoBill) /\ SaidIn(ask.shape, next)
  BY <1>2, <1>3, <1>4, <1>5, <1>6, SpeaksArguments
<1>9. CallsWhole(ask.shape, next)
  BY <1>5, ClaudeWhole
<1>10. up' = [up EXCEPT !.pieces = p, !.said = next]
  BY <1>3
<1>. HIDE DEF e, next
<1>11. /\ up'.said = next /\ up'.pieces = p /\ up'.why = up.why /\ up'.src = up.src
       /\ SameBill
  BY <1>2, <1>10, UpSays
<1>. QED
  BY <1>1, <1>2, <1>6, <1>7, <1>8, <1>9, <1>11, QuietTalks

LEMMA ArgumentsDoneTalks == ExchangeIInv /\ Talking /\ ArgumentsDone => Talking'
<1>. SUFFICES ASSUME ExchangeIInv, Talking, ArgumentsDone PROVE Talking'
  OBVIOUS
<1>1. Underway /\ ask.shape = "codex" /\ UNCHANGED <<ask, phase, sent, heard>>
  BY DEF ArgumentsDone
<1>2. /\ Speaking /\ UpShape /\ SaidIn(ask.shape, up.said) /\ up.said \in Seq(Items)
      /\ ask.shape \in Shapes /\ up.pieces \in 0..MaxPieces /\ MaxPieces \in Nat
  BY <1>1, UnderwayIs
<1>. DEFINE late(i) == up.said[i].parts = <<>> /\ up.pieces < MaxPieces
<1>. DEFINE filling(i) == IF late(i) THEN <<up.pieces + 1>> ELSE up.said[i].parts
<1>3. PICK i \in OpenOnes, ev \in {"arguments_done", "item_done"} :
        /\ up.said[i].kind = "call"
        /\ up' = [up EXCEPT !.pieces = @ + IF late(i) THEN 1 ELSE 0,
                            !.said = Filled(@, i, filling(i), ev = "arguments_done")]
        /\ Passes([ev |-> ev, at |-> up.said[i].at, args |-> filling(i)])
  BY DEF ArgumentsDone
<1>4. i \in 1..Len(up.said) /\ up.said[i] \in Items
  BY <1>2, <1>3 DEF OpenOnes
<1>. DEFINE full == filling(i)
<1>. DEFINE pieces == up.pieces + IF late(i) THEN 1 ELSE 0
<1>. DEFINE open == ev = "arguments_done"
<1>. DEFINE e == [ev |-> ev, at |-> up.said[i].at, args |-> full]
<1>. DEFINE next == Filled(up.said, i, full, open)
<1>5. full \in Seq(Nat) /\ (up.said[i].parts # <<>> => full = up.said[i].parts)
  <2>1. up.said[i].parts \in Seq(Nat)
    BY <1>4, ItemParts
  <2>2. <<up.pieces + 1>> \in Seq(Nat)
    BY <1>2
  <2>. QED
    BY <2>1, <2>2
<1>6. pieces \in 0..MaxPieces /\ open \in BOOLEAN
  BY <1>2
<1>7. up' = [up EXCEPT !.pieces = pieces, !.said = next] /\ Passes(e)
  BY <1>3
<1>. HIDE DEF full, pieces, open
<1>8. Speaks(ask.client, "codex", up.said, conv, e, next, "none", NoBill)
  BY <1>1, <1>2, <1>3, <1>4, <1>5, <1>6, SpeaksDone
<1>9. SaidIn("codex", next)
  BY <1>1, <1>2, <1>3, <1>4, <1>5, <1>6, SaidInDone
<1>10. CallsWhole(ask.shape, next)
  BY <1>1, ClaudeWhole
<1>. HIDE DEF e, next
<1>11. /\ up'.said = next /\ up'.pieces = pieces /\ up'.why = up.why /\ up'.src = up.src
       /\ SameBill
  BY <1>2, <1>7, UpSays
<1>12. Speaks(ask.client, ask.shape, up.said, conv, e, next, "none", NoBill) /\ SaidIn(ask.shape, next)
  BY <1>1, <1>8, <1>9
<1>. QED
  BY <1>1, <1>2, <1>6, <1>7, <1>10, <1>11, <1>12, QuietTalks

LEMMA BillsAre == Bill(ClaudeShaped) = IF ClaudeShaped THEN BillApart ELSE BillCounted
<1>1. CASE ClaudeShaped
  <2>. DEFINE c == ClaudeShaped
  <2>1. c = TRUE
    BY <1>1
  <2>. HIDE DEF c
  <2>2. Bill(c) = Bill(TRUE)
    BY <2>1
  <2>. QED
    BY <1>1, <2>2 DEF c, BillApart
<1>2. CASE ~ClaudeShaped
  <2>. DEFINE c == ClaudeShaped
  <2>1. c = FALSE
    BY <1>2
  <2>. HIDE DEF c
  <2>2. Bill(c) = Bill(FALSE)
    BY <2>1
  <2>. QED
    BY <1>2, <2>2 DEF c, BillCounted
<1>. QED
  BY <1>1, <1>2

LEMMA FinishesIs ==
  ASSUME Finishes, ask.shape \in Shapes, up.said \in Seq(Items), UpShape
  PROVE  \E why, bill, usage :
           /\ why \in {"whole", "length"}
           /\ Billing(ask.shape, why, bill)
           /\ up' = [up EXCEPT !.why = why, !.bill = bill, !.usage = usage]
           /\ usage = IF bill = "none" THEN up.usage ELSE FinishUsage(ask.shape, "whole")
           /\ Passes(FinishEvent(ask.shape, why, ChatWord(up.said, why), FinishUsage(ask.shape, bill)))
<1>. DEFINE word(why) == IF why = "length" THEN "length" ELSE IF Calls # <<>> THEN "tool_calls" ELSE "stop"
<1>. DEFINE whole == Bill(ClaudeShaped)
<1>1. PICK why, bill :
        /\ why \in {"whole", "length"} /\ bill \in Bills(why)
        /\ up' = [up EXCEPT !.why = why, !.bill = bill, !.usage = IF bill = "none" THEN @ ELSE whole]
        /\ Passes(CASE ask.shape = "codex" /\ why = "whole" -> [ev |-> "completed", usage |-> LastBill(bill)]
                    [] ask.shape = "codex" /\ why = "length" -> [ev |-> "incomplete"]
                    [] ask.shape = "cc_generate" -> [ev |-> "finish", usage |-> LastBill(bill),
                         why |-> IF word(why) = "stop" THEN "none" ELSE word(why)]
                    [] ChatShaped -> Finish(word(why), LastBill(bill))
                    [] ClaudeShaped -> Why(FinishToStopReason(word(why)), LastBill(bill)))
  BY DEF Finishes
<1>2. word(why) = ChatWord(up.said, why)
  <2>1. Calls = <<>> <=> CallCount(up.said) = 0
    BY CallsAre, SaidTyped
  <2>. QED
    BY <2>1 DEF ChatWord
<1>3. Billing(ask.shape, why, bill)
  BY <1>1 DEF Bills, Billing, ClaudeShaped, ChatShaped
<1>4. whole = FinishUsage(ask.shape, "whole")
  BY BillsAre DEF FinishUsage, ClaudeShaped
<1>5. LastBill(bill) = FinishUsage(ask.shape, bill)
  <2>1. bill \in {"whole", "split", "none", "apart"}
    BY <1>3 DEF Billing
  <2>2. CASE bill = "whole"
    BY <1>4, <2>2 DEF LastBill
  <2>3. CASE bill # "whole"
    BY <2>1, <2>3 DEF LastBill, FinishUsage
  <2>. QED
    BY <2>2, <2>3
<1>6. PICK usage : /\ usage = IF bill = "none" THEN up.usage ELSE whole
                   /\ up' = [up EXCEPT !.why = why, !.bill = bill, !.usage = usage]
  BY <1>1 DEF UpShape
<1>. DEFINE w == word(why)
<1>. DEFINE part == LastBill(bill)
<1>7. Passes(CASE ask.shape = "codex" /\ why = "whole" -> [ev |-> "completed", usage |-> part]
               [] ask.shape = "codex" /\ why = "length" -> [ev |-> "incomplete"]
               [] ask.shape = "cc_generate" -> [ev |-> "finish", usage |-> part,
                    why |-> IF w = "stop" THEN "none" ELSE w]
               [] ChatShaped -> Finish(w, part)
               [] ClaudeShaped -> Why(FinishToStopReason(w), part))
  BY <1>1
<1>. HIDE DEF word, part, w
<1>8. Passes(FinishEvent(ask.shape, why, w, part))
  BY <1>7 DEF FinishEvent, ChatShaped, ClaudeShaped, Shapes
<1>9. Passes(FinishEvent(ask.shape, why, ChatWord(up.said, why), FinishUsage(ask.shape, bill)))
  BY <1>2, <1>5, <1>8 DEF w, part
<1>10. usage = IF bill = "none" THEN up.usage ELSE FinishUsage(ask.shape, "whole")
  BY <1>4, <1>6
<1>. HIDE DEF whole
<1>11. why \in {"whole", "length"} /\ up' = [up EXCEPT !.why = why, !.bill = bill, !.usage = usage]
  BY <1>1, <1>6
<1>. DEFINE Is(y, z, x) ==
           /\ y \in {"whole", "length"}
           /\ Billing(ask.shape, y, z)
           /\ up' = [up EXCEPT !.why = y, !.bill = z, !.usage = x]
           /\ x = IF z = "none" THEN up.usage ELSE FinishUsage(ask.shape, "whole")
           /\ Passes(FinishEvent(ask.shape, y, ChatWord(up.said, y), FinishUsage(ask.shape, z)))
<1>12. Is(why, bill, usage)
  BY <1>3, <1>9, <1>10, <1>11
<1>. HIDE DEF Is
<1>13. \E y, z, x : Is(y, z, x)
  BY <1>12
<1>. QED
  BY <1>13 DEF Is

LEMMA FinishesTalks == ExchangeIInv /\ Talking /\ Finishes => Talking'
<1>. SUFFICES ASSUME ExchangeIInv, Talking, Finishes PROVE Talking'
  OBVIOUS
<1>1. /\ Underway /\ UNCHANGED <<ask, phase, sent, heard>>
      /\ ask.shape \in {"codex", "http_anthropic", "cc_messages"} =>
           \A i \in OpenOnes : up.said[i].kind = "text" /\ ~ClaudeShaped
  BY DEF Finishes
<1>2. /\ Speaking /\ UpShape /\ SaidIn(ask.shape, up.said) /\ up.said \in Seq(Items)
      /\ CallsWhole(ask.shape, up.said) /\ up.why = "none"
      /\ ask.shape \in Shapes /\ up.pieces \in 0..MaxPieces /\ MaxPieces \in Nat
  BY <1>1, UnderwayIs
<1>3. PICK why, bill, usage :
           /\ why \in {"whole", "length"}
           /\ Billing(ask.shape, why, bill)
           /\ up' = [up EXCEPT !.why = why, !.bill = bill, !.usage = usage]
           /\ usage = IF bill = "none" THEN up.usage ELSE FinishUsage(ask.shape, "whole")
           /\ Passes(FinishEvent(ask.shape, why, ChatWord(up.said, why), FinishUsage(ask.shape, bill)))
  BY <1>2, FinishesIs
<1>. DEFINE part == FinishUsage(ask.shape, bill)
<1>. DEFINE e == FinishEvent(ask.shape, why, ChatWord(up.said, why), part)
<1>. DEFINE u == UsageOf(part)
<1>4. ask.shape \in {"http_anthropic", "cc_messages"} => \A i \in 1..Len(up.said) : ~up.said[i].open
  BY <1>1, <1>2 DEF OpenOnes, ClaudeShaped
<1>5. Speaks(ask.client, ask.shape, up.said, conv, e, up.said, why, u)
  BY <1>2, <1>3, <1>4, SpeaksFinish
<1>6. phase = "replying" /\ (up.started \/ ask.shape = "cc_generate")
  BY <1>1, <1>2 DEF Speaking, Underway
<1>7. BillTyped(ask.shape, "none", up.started, up.bill, up.usage)
  BY <1>2 DEF Talking, UpTyped
<1>8. up.started \in BOOLEAN /\ up.bill = "none" /\ up.usage = UsageNow(ask.shape, up.started, "none")
  BY <1>7 DEF BillTyped
<1>9. BillTyped(ask.shape, why, up.started, bill, usage)
  BY <1>3, <1>8 DEF Billing, BillTyped, UsageNow
<1>10. Passes(e)
  BY <1>3
<1>. HIDE DEF e
<1>11. /\ up'.said = up.said /\ up'.pieces = up.pieces /\ up'.why = why /\ up'.src = up.src
       /\ up'.started = up.started /\ up'.bill = bill /\ up'.usage = usage
  BY <1>2, <1>3 DEF UpShape
<1>12. UpTyped'
  <2>1. UpTyped /\ ask' = ask /\ BillTyped(ask'.shape, up'.why, up'.started, up'.bill, up'.usage)
    BY <1>1, <1>9, <1>11 DEF Talking
  <2>2. /\ SaidIn(ask'.shape, up'.said) /\ CallsWhole(ask'.shape, up'.said)
        /\ up'.pieces \in 0..MaxPieces /\ up'.src \in {"open", "ended", "broken"}
        /\ up'.why \in {"none", "whole", "length", "error"}
    BY <1>3, <1>11, <2>1 DEF UpTyped
  <2>. QED
    BY <2>1, <2>2 DEF UpTyped
<1>13. u \in Counts
  BY <1>3, <1>6, <1>8, MeterFinishes
<1>14. ask.streamed => MergeUsage(tap.best, u) = MeterNow(ask.client, ask.shape, up'.started, up'.bill)
  <2>. SUFFICES ASSUME ask.streamed PROVE MergeUsage(tap.best, u) = MeterNow(ask.client, ask.shape, up.started, bill)
    BY <1>11
  <2>1. tap.best = MeterNow(ask.client, ask.shape, up.started, "none")
    BY <1>6, <1>8 DEF Talking, Streaming
  <2>. QED
    BY <1>3, <1>6, <1>8, <2>1, MeterFinishes
<1>. HIDE DEF u, part
<1>15. ask.streamed => Speaks(ask.client, ask.shape, up.said, conv, e, up'.said, up'.why, u)
  BY <1>5, <1>11
<1>. QED
  BY <1>1, <1>2, <1>10, <1>11, <1>12, <1>13, <1>14, <1>15, SpeakingTalks

LEMMA UsageOnward ==
  ASSUME NEW client, NEW shape \in {"http_openai", "cc_chat"}, NEW said, NEW why, NEW st, NEW brig,
         NEW part \in Usage, NEW e, e = UsageChunk(part),
         NEW u, u = IF client = "messages" THEN NoBill ELSE UsageOf(part)
  PROVE  Onward(client, shape, said, why, st, brig, e, said, why, u)
<1>. SUFFICES ASSUME NEW w, NEW a, NEW b, Carries(client, shape, said, why, st, brig, w),
                     a = Adapted(client, shape, st, e), b = Bridges(client, shape, brig, a)
              PROVE  Passed(client, shape, said, why, w, a, b, u)
  BY DEF Onward
<1>. QED
  BY UsagePasses

LEMMA SaysUsageTalks == ExchangeIInv /\ Talking /\ SaysUsage => Talking'
<1>. SUFFICES ASSUME ExchangeIInv, Talking, SaysUsage PROVE Talking'
  OBVIOUS
<1>. DEFINE e == UsageChunk(BillCounted)
<1>. DEFINE u == IF ask.client = "messages" THEN NoBill ELSE UsageOf(BillCounted)
<1>1. /\ phase = "replying" /\ up.src = "open" /\ queue = <<>> /\ UNCHANGED <<ask, phase, sent, heard>>
      /\ ask.shape \in {"http_openai", "cc_chat"} /\ ask.streamed /\ up.why # "none" /\ up.bill = "none"
      /\ up' = [up EXCEPT !.bill = "apart", !.usage = BillCounted] /\ Passes(e)
  BY DEF SaysUsage, ChatShaped, BillCounted
<1>2. UpShape /\ UpTyped /\ BillTyped(ask.shape, up.why, up.started, up.bill, up.usage)
  BY DEF ExchangeIInv, Shaped, Talking, UpTyped
<1>3. up.why # "error"
  BY <1>1, <1>2 DEF BillTyped
<1>4. up.started \in BOOLEAN /\ BillTyped(ask.shape, up.why, up.started, "apart", BillCounted)
  BY <1>1, <1>2, <1>3 DEF BillTyped, UsageNow, FinishUsage
<1>5. BillCounted \in Usage
  BY BillIs
<1>6. Onward(ask.client, ask.shape, up.said, up.why, conv, brg, e, up.said, up.why, u)
  BY <1>1, <1>5, UsageOnward
<1>7. tap.best = MeterNow(ask.client, ask.shape, up.started, "none")
  BY <1>1 DEF Talking, Streaming
<1>a. u = IF ask.client = "messages" THEN NoBill ELSE UsageOf(BillCounted)
  OBVIOUS
<1>. HIDE DEF e, u
<1>8. u \in Counts /\ MergeUsage(tap.best, u) = MeterNow(ask.client, ask.shape, up.started, "apart")
  <2>1. up.started \in BOOLEAN /\ ask.shape \in {"http_openai", "cc_chat"}
    BY <1>1, <1>4
  <2>. QED
    BY <1>7, <1>a, <2>1, MeterAfter
<1>9. /\ up'.said = up.said /\ up'.pieces = up.pieces /\ up'.why = up.why /\ up'.src = up.src
      /\ up'.started = up.started /\ up'.bill = "apart" /\ up'.usage = BillCounted
  BY <1>1, <1>2 DEF UpShape
<1>10. UpTyped'
  BY <1>1, <1>2, <1>4, <1>9 DEF UpTyped
<1>11. Onward(ask.client, ask.shape, up.said, up.why, conv, brg, e, up'.said, up'.why, u)
  BY <1>6, <1>9
<1>12. MergeUsage(tap.best, u) = MeterNow(ask.client, ask.shape, up'.started, up'.bill)
  BY <1>8, <1>9
<1>. QED
  BY <1>1, <1>8, <1>9, <1>10, <1>11, <1>12, OpenTalks

-----------------------------------------------------------------------------
(* Before the reply, and as it begins.                                     *)
LEMMA NothingSaidIn ==
  ASSUME NEW shape
  PROVE  SaidIn(shape, <<>>) /\ CallsWhole(shape, <<>>)
<1>1. /\ Numbered(<<>>) /\ CallKeys(<<>>) = {} /\ CallCount(<<>>) = 0 /\ <<>> \in Seq(Items)
      /\ Len(<<>>) = 0 /\ 1..0 = {}
  BY NothingContent DEF CallCount
<1>2. ByRank(CallCount(<<>>)) = {}
  BY <1>1, RankOne
<1>3. Placed(<<>>)
  BY <1>1 DEF Placed
<1>4. CallsWhole(shape, <<>>)
  BY <1>1 DEF CallsWhole
<1>. QED
  BY <1>1, <1>2, <1>3, <1>4 DEF SaidIn

LEMMA SilentTyped == up = SilentUp => UpTyped
<1>. SUFFICES ASSUME up = SilentUp PROVE UpTyped
  OBVIOUS
<1>1. /\ up.said = <<>> /\ up.why = "none" /\ up.src = "open" /\ up.pieces = 0
      /\ up.started = FALSE /\ up.bill = "none" /\ up.usage = NoUsage
  BY DEF SilentUp
<1>3. BillTyped(ask.shape, up.why, up.started, up.bill, up.usage)
  BY <1>1 DEF BillTyped, UsageNow
<1>2. 0 \in 0..MaxPieces
  BY ExchangeBounds
<1>. QED
  BY <1>1, <1>2, <1>3, NothingSaidIn DEF UpTyped

LEMMA InitTalks == Init => Talking
<1>. SUFFICES ASSUME Init PROVE Talking
  OBVIOUS
<1>1. PICK c \in Clients : ask \in [client : {c}, shape : Shapes, streamed : BOOLEAN, known : BOOLEAN,
                                    configured : {"none", "low"}, effort : Efforts(c), talk : Talks]
  BY DEF Init
<1>2. AskShape
  BY <1>1 DEF AskShape
<1>3. phase = "asking" /\ up = SilentUp /\ queue = <<>> /\ heard = NothingHeard
  BY DEF Init
<1>4. tap.best = NoBill /\ TeeBare
  BY DEF Init, TeeBare, NoBill
<1>5. Fresh
  BY <1>3, <1>4 DEF Fresh
<1>. QED
  BY <1>2, <1>3, <1>5, SilentTyped DEF Talking

LEMMA SendTalks == ExchangeIInv /\ Talking /\ Send => Talking'
<1>. SUFFICES ASSUME ExchangeIInv, Talking, Send PROVE Talking'
  OBVIOUS
<1>1. /\ phase = "asking" /\ phase' = "sent"
      /\ UNCHANGED <<ask, up, conv, brg, queue, heard, tap, tee>>
  BY DEF Send
<1>2. AskShape' /\ UpTyped' /\ Fresh'
  BY <1>1 DEF Talking, AskShape, UpTyped, Fresh, TeeBare
<1>. QED
  BY <1>1, <1>2 DEF Talking

\* Before the first event the adapter has heard nothing.
Silence == Heard(<<>>, "none")

LEMMA SilenceIs == Silence.items = <<>> /\ Silence.why = "none"
BY DEF Silence, Heard

LEMMA SilenceWhole == ASSUME NEW client PROVE Whole(client, Silence) /\ Numbered(Silence.items)
<1>1. Silence = Heard(Silence.items, Silence.why)
  BY SilenceIs DEF Silence
<1>2. Good(client, <<>>, "none")
  BY DEF Good, Placed, ChatPlaced
<1>. QED
  BY <1>1, <1>2, SilenceIs, NothingContent DEF Whole

LEMMA SilenceTracked ==
  ASSUME NEW shape \in Shapes
  PROVE  Tracks(shape, <<>>, ConvStart(shape), Silence)
<1>1. /\ CallKeys(Silence.items) = {} /\ CallCount(Silence.items) = 0 /\ CallCount(<<>>) = 0
      /\ CallKeys(<<>>) = {} /\ ByRank(0) = {}
  BY SilenceIs, NothingContent, RankOne DEF CallCount
<1>2. Places(<<>>) = {}
  BY DEF Places
<1>3. shape = "codex" => CodexTracks(<<>>, ConvStart(shape), Silence)
  BY <1>1, <1>2 DEF CodexTracks, ConvStart, CodexStart
<1>4. shape = "cc_generate" => GenerateTracks(<<>>, ConvStart(shape), Silence)
  <2>. DEFINE st == GenerateStart
  <2>1. st.saw = FALSE
    BY DEF GenerateStart
  <2>. HIDE DEF st
  <2>2. (CallCount(<<>>) # 0) = FALSE
    BY <1>1
  <2>3. /\ CallCount(Silence.items) <= 1
        /\ CallKeys(Silence.items) = ByRank(CallCount(Silence.items))
        /\ CallCount(Silence.items) = 0 <=> CallCount(<<>>) = 0
    BY <1>1
  <2>4. GenerateTracks(<<>>, st, Silence)
    BY <2>1, <2>2, <2>3, Zenon DEF GenerateTracks
  <2>. QED
    BY <2>4 DEF ConvStart, st
<1>5. shape \in {"http_anthropic", "cc_messages"} => ClaudeTracks(<<>>, ConvStart(shape), Silence)
  <2>. DEFINE st == OpenAiStart
  <2>1. /\ DOMAIN st = {"kinds", "tools", "next"} /\ st.next = 0
        /\ DOMAIN st.kinds = {} /\ DOMAIN st.tools = {}
    BY DEF OpenAiStart
  <2>. HIDE DEF st
  <2>2. ClaudeTracks(<<>>, st, Silence)
    BY <1>1, <1>2, <2>1 DEF ClaudeTracks
  <2>. QED
    BY <2>2 DEF ConvStart, st
<1>. QED
  BY <1>1, <1>3, <1>4, <1>5 DEF Tracks

LEMMA SilenceSays ==
  ASSUME NEW shape \in Shapes
  PROVE  Says(shape, <<>>, "none", ConvStart(shape), Silence)
BY SilenceTracked, SilenceWhole, SilenceIs, NothingSaidIn DEF Says

LEMMA SilenceToMessages == MessagesBridge(ClaudeStart, Silence, Silence)
<1>. DEFINE st == ClaudeStart
<1>1. IsClaude(st) /\ st.next = 0 /\ st.text = -1 /\ DOMAIN st.tools = {}
  BY DEF ClaudeStart, IsClaude
<1>. HIDE DEF st
<1>2. /\ CallKeys(Silence.items) = {} /\ Silence.items = <<>> /\ Len(<<>>) = 0 /\ Silence.why = "none"
      /\ 1..0 = {}
  BY SilenceIs, NothingContent
<1>3. TextAt(st.next, st.text, Silence.items)
  BY <1>1, <1>2 DEF TextAt
<1>4. ToolsAt(st.tools, Silence.items, CallKeys(Silence.items))
  BY <1>1, <1>2 DEF ToolsAt
<1>5. SameReply(Silence, Silence)
  BY <1>2, SilenceWhole DEF SameReply, WhyAcross
<1>6. MessagesBridge(st, Silence, Silence)
  BY <1>1, <1>3, <1>4, <1>5 DEF MessagesBridge, MessagesState
<1>. QED
  BY <1>6 DEF st

LEMMA SilenceToResponses == ResponsesBridge(ResponsesStart, Silence, Silence)
<1>. DEFINE st == ResponsesStart
<1>1. IsFeed(st) /\ st.next = 0 /\ st.text = -1 /\ st.calls = <<>> /\ ~st.finished
  BY DEF ResponsesStart, IsFeed
<1>. HIDE DEF st
<1>2. /\ CallKeys(Silence.items) = {} /\ Silence.items = <<>> /\ Len(<<>>) = 0 /\ Silence.why = "none"
      /\ 1..0 = {} /\ <<>> \in Seq(Listings)
  BY SilenceIs, NothingContent
<1>3. TextNow(0, -1, <<>>)
  BY <1>2 DEF TextNow
<1>4. CallsNow(<<>>, <<>>, {})
  BY <1>2 DEF CallsNow, Apart
<1>5. OpenNow(-1, <<>>, <<>>)
  BY <1>2 DEF OpenNow
<1>6. SameContent(Silence, Silence)
  BY SilenceWhole DEF SameContent
<1>7. FeedState(st.next, st.text, st.calls, Silence.items, CallKeys(Silence.items))
  BY <1>1, <1>2, <1>3, <1>4, <1>5 DEF FeedState
<1>8. ResponsesBridge(st, Silence, Silence)
  BY <1>1, <1>2, <1>6, <1>7 DEF ResponsesBridge
<1>. QED
  BY <1>8 DEF st

LEMMA SilenceCarries ==
  ASSUME NEW client \in Clients, NEW shape \in Shapes
  PROVE  /\ Carries(client, shape, <<>>, "none", ConvStart(shape), BrgStart(client), Silence)
         /\ Delivers(client, "open", BrgStart(client), Silence, Silence)
<1>1. SaysOwn(shape, <<>>, "none", Silence)
  BY NothingSaidIn DEF SaysOwn, OwnWord, Silence
<1>2. Says(shape, <<>>, "none", ConvStart(shape), Silence)
  BY SilenceSays
<1>3. client = "messages" => MessagesBridge(BrgStart(client), Silence, Silence)
  BY SilenceToMessages DEF BrgStart
<1>4. client = "responses" => ResponsesBridge(BrgStart(client), Silence, Silence)
  BY SilenceToResponses DEF BrgStart
<1>. QED
  BY <1>1, <1>2, <1>3, <1>4 DEF Carries, Delivers

LEMMA AskIs ==
  ASSUME AskShape,
         NEW streamed \in BOOLEAN,
         ask' = [ask EXCEPT !.streamed = streamed, !.talk = <<>>, !.effort = NoEffort,
                            !.known = FALSE, !.configured = "none"]
  PROVE  AskShape' /\ ask'.client = ask.client /\ ask'.shape = ask.shape
BY DEF AskShape

LEMMA FirstStreams ==
  ASSUME AskShape', UpTyped', Fresh', TeeShape', ~tee'.complete,
         conv' = ConvStart(ask'.shape), brg' = BrgStart(ask'.client)
  PROVE  Streaming'
<1>1. /\ up'.said = <<>> /\ up'.why = "none" /\ up'.src = "open" /\ queue' = <<>>
      /\ up'.started = FALSE /\ up'.bill = "none"
      /\ heard'.items = <<>> /\ heard'.why = "none" /\ heard'.body = "open" /\ tap'.best = NoBill
  BY DEF Fresh, SilentUp, NothingHeard
<1>2. NowHeard' = Silence
  BY <1>1 DEF NowHeard, Silence
<1>3. Copies(tee', Silence)
  <2>1. IsTee(tee')
    BY DEF TeeShape, IsTee
  <2>2. tee'.kept = 0 /\ 0 \in 0..MaxCapture /\ tee'.overflowed = FALSE /\ tee'.items = <<>>
    BY ExchangeBounds DEF Fresh, TeeBare
  <2>. QED
    BY <2>1, <2>2, SilenceIs DEF Copies
<1>4. OnItsWay(Silence, Silence)'
  <2>. DEFINE client == ask'.client
  <2>. DEFINE shape == ask'.shape
  <2>1. client \in Clients /\ shape \in Shapes /\ conv' = ConvStart(shape) /\ brg' = BrgStart(client)
    BY DEF AskShape
  <2>. HIDE DEF client, shape
  <2>2. Road(client, Silence, <<>>, Silence) /\ Whole(client, Silence)
    BY RoadNone, SilenceWhole
  <2>3. /\ Carries(client, shape, <<>>, "none", conv', brg', Silence)
        /\ Delivers(client, "open", brg', Silence, Silence)
    BY <2>1, SilenceCarries
  <2>. QED
    BY <1>1, <1>2, <1>3, <2>2, <2>3 DEF OnItsWay, client, shape
<1>5. tap'.best = MeterNow(ask'.client, ask'.shape, up'.started, up'.bill)
  BY <1>1, MeterBefore
<1>. QED
  BY <1>1, <1>4, <1>5 DEF Streaming

LEMMA AnswerTalks == ExchangeIInv /\ Talking /\ Answer => Talking'
<1>. SUFFICES ASSUME ExchangeIInv, Talking, Answer PROVE Talking'
  OBVIOUS
<1>1. /\ phase = "sent" /\ phase' = "replying" /\ UNCHANGED <<up, queue, heard, tap, tee>>
      /\ conv' = ConvStart(ask.shape) /\ brg' = BrgStart(ask.client)
  BY DEF Answer
<1>2. PICK streamed \in BOOLEAN :
        ask' = [ask EXCEPT !.streamed = streamed, !.talk = <<>>, !.effort = NoEffort,
                           !.known = FALSE, !.configured = "none"]
  BY DEF Answer
<1>3. AskShape' /\ ask'.client = ask.client /\ ask'.shape = ask.shape
  BY <1>2, AskIs DEF Talking
<1>4. UpTyped' /\ Fresh'
  BY <1>1, <1>3 DEF Talking, UpTyped, Fresh, TeeBare
<1>5. TeeShape' /\ ~tee'.complete
  BY <1>1 DEF ExchangeIInv, Shaped, Reporting, TeeShape
<1>6. ConvStart(ask'.shape) = ConvStart(ask.shape) /\ BrgStart(ask'.client) = BrgStart(ask.client)
  BY <1>3
<1>7. Streaming'
  BY <1>1, <1>3, <1>4, <1>5, <1>6, FirstStreams
<1>8. Collecting'
  BY <1>1, <1>4 DEF Fresh, Collecting
<1>. QED
  BY <1>1, <1>3, <1>4, <1>7, <1>8 DEF Talking

-----------------------------------------------------------------------------
(* The reply on its way to the client, and its end.                        *)
LEMMA UpStops ==
  ASSUME UpShape, NEW s, up' = [up EXCEPT !.src = s]
  PROVE  /\ up'.said = up.said /\ up'.pieces = up.pieces /\ up'.why = up.why /\ up'.src = s
         /\ SameBill
BY DEF UpShape, SameBill

LEMMA TakesTalks == ExchangeIInv /\ Talking /\ Takes => Talking'
<1>. SUFFICES ASSUME ExchangeIInv, Talking, Takes PROVE Talking'
  OBVIOUS
<1>. DEFINE h == Hear(ask.client, NowHeard, Head(queue))
<1>1. /\ phase = "replying" /\ queue # <<>> /\ queue' = Tail(queue)
      /\ UNCHANGED <<ask, phase, sent, up, conv, brg, tap, tee>>
  BY DEF Takes
<1>2. heard' = [heard EXCEPT !.items = h.items, !.why = h.why]
  BY DEF Takes, NowHeard, Heard
<1>3. ask.streamed
  BY <1>1 DEF Talking, Collecting, AskShape
<1>4. Streaming
  BY <1>1, <1>3 DEF Talking
<1>5. PICK w, d : OnItsWay(w, d)
  BY <1>4 DEF Streaming
<1>6. /\ Whole(ask.client, NowHeard) /\ Road(ask.client, NowHeard, queue, d)
      /\ Carries(ask.client, ask.shape, up.said, up.why, conv, brg, w)
      /\ Delivers(ask.client, up.src, brg, w, d) /\ Copies(tee, w)
  BY <1>5 DEF OnItsWay
<1>7. /\ Fits(ask.client, NowHeard.items, NowHeard.why, Head(queue))
      /\ Road(ask.client, h, Tail(queue), d)
  BY <1>1, <1>6, RoadTakes
<1>8. Whole(ask.client, h)
  BY <1>6, <1>7, HearKeeps
<1>. HIDE DEF h
<1>9. heard'.items = h.items /\ heard'.why = h.why /\ heard'.body = heard.body
  <2>. DEFINE a == h.items
  <2>. DEFINE b == h.why
  <2>1. heard' = [heard EXCEPT !.items = a, !.why = b] /\ HeardShape
    BY <1>2 DEF ExchangeIInv, Shaped
  <2>. HIDE DEF a, b
  <2>2. heard'.items = a /\ heard'.why = b /\ heard'.body = heard.body
    BY <2>1 DEF HeardShape
  <2>. QED
    BY <2>2 DEF a, b
<1>10. NowHeard' = h
  BY <1>8, <1>9 DEF NowHeard, Whole
<1>11. OnItsWay(w, d)'
  BY <1>1, <1>6, <1>7, <1>8, <1>10 DEF OnItsWay
<1>12. heard.body = "open"
  BY <1>1, <1>4 DEF Streaming
<1>13. Streaming'
  BY <1>1, <1>4, <1>9, <1>11, <1>12 DEF Streaming
<1>14. AskShape' /\ UpTyped' /\ phase' = "replying" /\ ask'.streamed = ask.streamed
  BY <1>1 DEF Talking, AskShape, UpTyped
<1>. QED
  BY <1>3, <1>13, <1>14 DEF Talking

(* A report leaves what was copied as it is. *)
LEMMA FiredIs ==
  ASSUME NEW t, IsTee(t), NEW complete \in BOOLEAN, t.overflowed \in BOOLEAN, NEW u, u = Fired(t, complete)
  PROVE  /\ IsTee(u) /\ u.items = t.items /\ u.kept = t.kept /\ u.overflowed = t.overflowed
         /\ u.complete => t.complete \/ ~t.overflowed
<1>1. CASE t.fired > 0
  BY <1>1 DEF Fired
<1>2. CASE ~(t.fired > 0)
  <2>. DEFINE whole == complete /\ ~t.overflowed
  <2>1. u = [t EXCEPT !.fired = 1, !.complete = whole]
    BY <1>2 DEF Fired
  <2>2. whole => ~t.overflowed
    OBVIOUS
  <2>. HIDE DEF whole
  <2>3. /\ IsTee(u) /\ u.items = t.items /\ u.kept = t.kept /\ u.overflowed = t.overflowed
        /\ u.complete = whole
    BY <2>1 DEF IsTee
  <2>. QED
    BY <2>2, <2>3
<1>. QED
  BY <1>1, <1>2

LEMMA FiredCopies ==
  ASSUME NEW t, NEW x, Copies(t, x), t.complete => ~t.overflowed, NEW complete \in BOOLEAN,
         NEW u, u = Fired(t, complete)
  PROVE  Copies(u, x) /\ (u.complete => ~u.overflowed)
<1>1. IsTee(t) /\ t.kept \in 0..MaxCapture /\ t.overflowed \in BOOLEAN /\ (~t.overflowed => t.items = x.items)
  BY DEF Copies
<1>2. /\ IsTee(u) /\ u.items = t.items /\ u.kept = t.kept /\ u.overflowed = t.overflowed
      /\ u.complete => t.complete \/ ~t.overflowed
  BY <1>1, FiredIs
<1>. QED
  BY <1>1, <1>2 DEF Copies

(* The body is dropped with what the client has of it. *)
LEMMA DropTalks ==
  ASSUME ExchangeIInv, Talking, phase = "replying", ask.streamed, phase' = "ended",
         UNCHANGED <<ask, up, conv, brg, queue>>, tap' = Recorded(tap),
         NEW complete \in BOOLEAN, tee' = Fired(tee, complete),
         NEW b \in {"clean", "broken", "left"}, heard' = [heard EXCEPT !.body = b],
         b = "clean" => queue = <<>>
  PROVE  Talking'
<1>1. Streaming
  BY DEF Talking
<1>2. PICK w, d : OnItsWay(w, d)
  BY <1>1 DEF Streaming
<1>3. heard'.items = heard.items /\ heard'.why = heard.why /\ heard'.body = b
  BY DEF ExchangeIInv, Shaped, HeardShape
<1>4. NowHeard' = NowHeard
  BY <1>3 DEF NowHeard
<1>5. Copies(tee', w) /\ (tee'.complete => ~tee'.overflowed)
  BY <1>1, <1>2, FiredCopies DEF OnItsWay, Streaming
<1>6. OnItsWay(w, d)'
  BY <1>2, <1>4, <1>5 DEF OnItsWay
<1>7. tap'.best = tap.best
  BY DEF Recorded, ExchangeIInv, Shaped, TapShape
<1>8. Streaming'
  BY <1>1, <1>3, <1>5, <1>6, <1>7 DEF Streaming
<1>9. AskShape' /\ UpTyped' /\ ask'.streamed = ask.streamed
  BY DEF Talking, AskShape, UpTyped
<1>. QED
  BY <1>8, <1>9 DEF Talking

LEMMA BodyEndsTalks == ExchangeIInv /\ Talking /\ BodyEnds => Talking'
<1>. SUFFICES ASSUME ExchangeIInv, Talking, BodyEnds PROVE Talking'
  OBVIOUS
<1>. DEFINE b == IF up.src = "ended" \/ ask.client = "responses" THEN "clean" ELSE "broken"
<1>. DEFINE complete == up.src = "ended"
<1>1. /\ phase = "replying" /\ ask.streamed /\ phase' = "ended" /\ queue = <<>>
      /\ UNCHANGED <<ask, up, conv, brg, queue>> /\ tap' = Recorded(tap)
      /\ tee' = Fired(tee, complete) /\ heard' = [heard EXCEPT !.body = b]
  BY DEF BodyEnds
<1>2. b \in {"clean", "broken", "left"} /\ complete \in BOOLEAN
  OBVIOUS
<1>. HIDE DEF b, complete
<1>. QED
  BY <1>1, <1>2, DropTalks

LEMMA LeavesTalks == ExchangeIInv /\ Talking /\ Leaves => Talking'
<1>. SUFFICES ASSUME ExchangeIInv, Talking, Leaves PROVE Talking'
  OBVIOUS
<1>. DEFINE b == "left"
<1>. DEFINE complete == FALSE
<1>1. /\ phase = "replying" /\ ask.streamed /\ phase' = "ended"
      /\ UNCHANGED <<ask, up, conv, brg, queue>> /\ tap' = Recorded(tap)
      /\ tee' = Fired(tee, complete) /\ heard' = [heard EXCEPT !.body = b]
  BY DEF Leaves
<1>2. b \in {"clean", "broken", "left"} /\ complete \in BOOLEAN /\ b # "clean"
  OBVIOUS
<1>. HIDE DEF b, complete
<1>. QED
  BY <1>1, <1>2, DropTalks

(* What is put at the end of a stream changes nothing of the reply. *)
LEMMA IdleMark ==
  ASSUME NEW w
  PROVE  Road("chat", w, <<Done>>, w) /\ Road("messages", w, <<Over>>, w)
<1>. DEFINE e == Done
<1>. DEFINE o == Over
<1>1. /\ e.d = "done" /\ o.d = "over" /\ e \in Frames /\ o \in Frames
      /\ Hear("chat", w, e) = w /\ Hear("messages", w, o) = w
  <2>1. e = [d |-> "done"] /\ o = [d |-> "over"]
    BY DEF Done, Over
  <2>2. e.d = "done" /\ o.d = "over" /\ e \in [d : {"role", "done", "over"}] /\ o \in [d : {"role", "done", "over"}]
    BY <2>1
  <2>3. e \in Frames /\ o \in Frames
    BY <2>2 DEF Frames
  <2>. HIDE DEF e, o
  <2>. QED
    BY <2>2, <2>3 DEF Hear, HearChat, HearEvent
<1>. HIDE DEF e, o
<1>2. Fits("chat", w.items, w.why, e) /\ Fits("messages", w.items, w.why, o)
  BY <1>1 DEF Fits, FitsChat, FitsEvent
<1>3. Road("chat", w, <<e>>, Hear("chat", w, e)) /\ Road("messages", w, <<o>>, Hear("messages", w, o))
  BY <1>1, <1>2, RoadOne
<1>. QED
  BY <1>1, <1>3 DEF e, o

LEMMA EndMarks ==
  ASSUME ask.client \in Clients, NEW how, NEW w
  PROVE  Road(WireOf(ask.client), w, EndMark(how), w)
<1>1. EndMark(how) \in {<<>>, <<IF Wire = "chat" THEN Done ELSE Over>>}
  <2>1. CASE Raw
    BY <2>1 DEF EndMark
  <2>2. CASE ~Raw /\ Wire = "messages"
    BY <2>2 DEF EndMark
  <2>3. CASE ~Raw /\ Wire = "chat"
    BY <2>3 DEF EndMark
  <2>. QED
    BY <2>1, <2>2, <2>3 DEF Wire
<1>2. Wire \in {"chat", "messages"} /\ Wire = WireOf(ask.client)
  BY WireIs DEF Wire
<1>3. Road(WireOf(ask.client), w, <<>>, w)
  BY RoadNone
<1>4. Road(WireOf(ask.client), w, <<IF Wire = "chat" THEN Done ELSE Over>>, w)
  BY <1>2, IdleMark
<1>. QED
  BY <1>1, <1>3, <1>4

(* The reply as the client will have it when the upstream has stopped. *)
LEMMA EndDelivered ==
  ASSUME NEW client \in Clients, NEW brig, NEW w, NEW d, Delivers(client, "open", brig, w, d),
         NEW marks, Road(WireOf(client), w, marks, w),
         NEW last, last = IF client = "responses" THEN FinishResponse(brig) ELSE Emits(brig, marks),
         NEW src, src # "open"
  PROVE  \E i : Road(client, d, last.out, i) /\ Delivers(client, src, last.st, w, i)
<1>1. CASE client = "responses"
  <2>1. ResponsesBridge(brig, w, d) /\ last = FinishResponse(brig)
    BY <1>1 DEF Delivers
  <2>2. PICK i : Road("responses", d, FinishResponse(brig).out, i) /\ SameContent(w, i) /\ i.why # "none"
    BY <2>1, FeedFinished
  <2>. QED
    BY <1>1, <2>1, <2>2 DEF Delivers
<1>2. CASE client # "responses"
  <2>1. last.out = marks /\ d = w /\ WireOf(client) = client
    BY <1>2, EmitsIs DEF Delivers, WireOf, Clients
  <2>2. Delivers(client, src, last.st, w, w)
    BY <1>2 DEF Delivers
  <2>. QED
    BY <2>1, <2>2
<1>. QED
  BY <1>1, <1>2

LEMMA StopsTalks == ExchangeIInv /\ Talking /\ Stops => Talking'
<1>. SUFFICES ASSUME ExchangeIInv, Talking, Stops PROVE Talking'
  OBVIOUS
<1>1. /\ phase = "replying" /\ up.src = "open" /\ queue = <<>> /\ ask.streamed
      /\ UNCHANGED <<ask, phase, sent, conv, heard, tap>>
  BY DEF Stops
<1>2. PICK how :
        LET last == IF ask.client = "responses" THEN FinishResponse(brg) ELSE Emits(brg, EndMark(how))
        IN  /\ up' = [up EXCEPT !.src = IF how = "error" THEN "broken" ELSE "ended"]
            /\ brg' = last.st
            /\ queue' = last.out
            /\ tee' = Fired(Copied(tee, Wire, EndMark(how)), how \in {"end", "given up"} \/ (how = "overflow" /\ ~Raw))
  BY DEF Stops
<1>. DEFINE marks == EndMark(how)
<1>. DEFINE last == IF ask.client = "responses" THEN FinishResponse(brg) ELSE Emits(brg, marks)
<1>. DEFINE src == IF how = "error" THEN "broken" ELSE "ended"
<1>. DEFINE complete == how \in {"end", "given up"} \/ (how = "overflow" /\ ~Raw)
<1>3. /\ up' = [up EXCEPT !.src = src] /\ brg' = last.st /\ queue' = last.out
      /\ tee' = Fired(Copied(tee, WireOf(ask.client), marks), complete)
  BY <1>2, WireIs
<1>4. src \in {"ended", "broken"} /\ complete \in BOOLEAN
  OBVIOUS
<1>5. ask.client \in Clients
  BY DEF Talking, AskShape
<1>6. \A w : Road(WireOf(ask.client), w, marks, w)
  BY <1>5, EndMarks
<1>. HIDE DEF marks, src, complete
<1>7. last = IF ask.client = "responses" THEN FinishResponse(brg) ELSE Emits(brg, marks)
  OBVIOUS
<1>. HIDE DEF last
<1>8. Streaming
  BY <1>1 DEF Talking
<1>9. PICK w, d : OnItsWay(w, d)
  BY <1>8 DEF Streaming
<1>10. /\ Carries(ask.client, ask.shape, up.said, up.why, conv, brg, w)
       /\ Delivers(ask.client, "open", brg, w, d)
       /\ Whole(ask.client, NowHeard) /\ Copies(tee, w) /\ Road(ask.client, NowHeard, <<>>, d)
  BY <1>1, <1>9 DEF OnItsWay
<1>11. NowHeard = d
  BY <1>10, RoadEmpty
<1>12. PICK i : Road(ask.client, d, last.out, i) /\ Delivers(ask.client, src, last.st, w, i)
  <2>. DEFINE client == ask.client
  <2>1. /\ client \in Clients /\ Delivers(client, "open", brg, w, d) /\ Road(WireOf(client), w, marks, w)
        /\ last = IF client = "responses" THEN FinishResponse(brg) ELSE Emits(brg, marks)
        /\ src # "open"
    BY <1>4, <1>5, <1>6, <1>7, <1>10
  <2>. HIDE DEF client
  <2>2. \E i : Road(client, d, last.out, i) /\ Delivers(client, src, last.st, w, i)
    BY <2>1, EndDelivered
  <2>. QED
    BY <2>2 DEF client
<1>13. Carries(ask.client, ask.shape, up.said, up.why, conv, last.st, w)
  <2>1. CASE ask.client = "messages"
    <3>1. last.st = brg
      BY <1>7, <2>1, EmitsIs
    <3>. QED
      BY <1>10, <3>1
  <2>2. CASE ask.client # "messages"
    BY <1>10, <2>2, CarriesAnyway
  <2>. QED
    BY <2>1, <2>2
<1>14. Copies(tee', w) /\ (tee'.complete => ~tee'.overflowed)
  <2>. DEFINE copy == Copied(tee, WireOf(ask.client), marks)
  <2>0. Whole(WireOf(ask.client), w)
    <3>1. Tells(ask.client, ask.shape, up.said, up.why, w)
      <4>1. up.why \in {"none", "whole", "length", "error"}
        BY DEF Talking, UpTyped
      <4>. QED
        BY <1>10, <4>1, CarriesReply
    <3>. QED
      BY <3>1 DEF Tells
  <2>1. WireOf(ask.client) \in {"chat", "messages"}
    BY DEF WireOf
  <2>2. Copies(copy, w) /\ SameFire(copy, tee)
    BY <1>6, <1>10, <2>0, <2>1, CopiedKeeps
  <2>3. ~copy.complete
    BY <1>1, <2>2 DEF ExchangeIInv, Reporting, SameFire
  <2>4. tee' = Fired(copy, complete)
    BY <1>3
  <2>. HIDE DEF copy
  <2>. QED
    BY <1>4, <2>2, <2>3, <2>4, FiredCopies
<1>15. /\ up'.said = up.said /\ up'.pieces = up.pieces /\ up'.why = up.why /\ up'.src = src
       /\ SameBill
  BY <1>3, UpStops DEF ExchangeIInv, Shaped
<1>16. NowHeard' = NowHeard
  BY <1>1 DEF NowHeard
<1>17. OnItsWay(w, i)'
  BY <1>1, <1>3, <1>10, <1>11, <1>12, <1>13, <1>14, <1>15, <1>16 DEF OnItsWay
<1>18. heard.body = "open"
  BY <1>1, <1>8 DEF Streaming
<1>19. Streaming'
  BY <1>1, <1>8, <1>14, <1>15, <1>17, <1>18 DEF Streaming, SameBill
<1>20. AskShape' /\ UpTyped' /\ phase' = "replying" /\ ask'.streamed = ask.streamed
  BY <1>1, <1>4, <1>15 DEF Talking, AskShape, UpTyped, SameBill
<1>. QED
  BY <1>1, <1>19, <1>20 DEF Talking

LEMMA NoReplyTalks == ExchangeIInv /\ Talking /\ NoReply => Talking'
<1>. SUFFICES ASSUME ExchangeIInv, Talking, NoReply PROVE Talking'
  OBVIOUS
<1>. DEFINE src == "broken"
<1>. DEFINE body == IF Relayed /\ ask.client # "responses" THEN "broken" ELSE "refused"
<1>1. /\ phase = "replying" /\ ~ask.streamed /\ up.why = "none" /\ phase' = "ended"
      /\ up' = [up EXCEPT !.src = src] /\ heard' = [heard EXCEPT !.body = body]
      /\ UNCHANGED <<ask, sent, conv, brg, queue>>
  BY DEF NoReply
<1>2. src \in {"open", "ended", "broken"} /\ body \in {"broken", "refused"}
  OBVIOUS
<1>. HIDE DEF src, body
<1>3. /\ up'.said = up.said /\ up'.pieces = up.pieces /\ up'.why = up.why /\ up'.src = src
      /\ SameBill
  BY <1>1, UpStops DEF ExchangeIInv, Shaped
<1>4. Collecting
  BY <1>1 DEF Talking
<1>5. heard.items = <<>> /\ heard.why = "none"
  BY <1>1, <1>4 DEF Collecting, NothingHeard
<1>6. heard'.items = <<>> /\ heard'.why = "none" /\ heard'.body = body
  BY <1>1, <1>5 DEF ExchangeIInv, Shaped, HeardShape
<1>7. tap'.best = tap.best
  BY DEF NoReply, Recorded, ExchangeIInv, Shaped, TapShape
<1>8. TeeBare'
  <2>1. CASE Relayed
    <3>1. IsTee(tee)
      BY DEF ExchangeIInv, Shaped, TeeShape, IsTee
    <3>2. tee.kept = 0 /\ tee.overflowed = FALSE /\ tee.items = <<>>
      BY <1>4 DEF Collecting, TeeBare
    <3>. DEFINE complete == FALSE
    <3>3. tee' = Fired(tee, complete) /\ complete \in BOOLEAN
      BY <2>1 DEF NoReply
    <3>. HIDE DEF complete
    <3>. QED
      BY <3>1, <3>2, <3>3, FiredIs DEF TeeBare
  <2>2. CASE ~Relayed
    BY <1>4, <2>2 DEF NoReply, Collecting, TeeBare
  <2>. QED
    BY <2>1, <2>2
<1>9. Collecting'
  BY <1>1, <1>2, <1>3, <1>4, <1>6, <1>7, <1>8 DEF Collecting
<1>10. AskShape' /\ UpTyped' /\ ask'.streamed = ask.streamed
  BY <1>1, <1>2, <1>3 DEF Talking, AskShape, UpTyped, SameBill
<1>. QED
  BY <1>1, <1>9, <1>10 DEF Talking

LEMMA StutterTalks == ExchangeIInv /\ Talking /\ UNCHANGED vars => Talking'
BY DEF vars, Talking, AskShape, UpTyped, Fresh, TeeBare, Streaming, OnItsWay, NowHeard, Collecting,
       TextOnly, Raw, ClaudeShaped, Calls

-----------------------------------------------------------------------------
(* A reply that is collected: one text, and the calls after it.            *)
LEMMA CallsLast ==
  ASSUME NEW S, Parted(S), NEW a \in Seq(S), NEW m \in 0..Len(a),
         \A k \in 1..m : a[k].kind = "text", \A k \in (m + 1)..Len(a) : a[k].kind = "call"
  PROVE  /\ CallsOf(a) \in Seq(S) /\ Len(CallsOf(a)) = Len(a) - m
         /\ \A i \in 1..(Len(a) - m) : CallsOf(a)[i] = a[m + i]
<1>1. PICK h : CallsRun(S, a, h)
  BY CallsRuns
<1>2. /\ h \in [0..Len(a) -> Seq(S)] /\ h[0] = <<>> /\ h[Len(a)] = CallsOf(a) /\ Len(a) \in Nat
      /\ \A k \in 1..Len(a) : h[k] = IF a[k].kind = "call" THEN Append(h[k - 1], a[k]) ELSE h[k - 1]
  BY <1>1 DEF CallsRun
<1>. DEFINE P == {k \in Nat : k <= m => h[k] = <<>>}
<1>3. 0 \in P
  BY <1>2
<1>4. ASSUME NEW k \in Nat, k \in P PROVE k + 1 \in P
  <2>. SUFFICES ASSUME k + 1 <= m PROVE h[k + 1] = <<>>
    OBVIOUS
  <2>1. k + 1 \in 1..Len(a) /\ (k + 1) - 1 = k /\ h[k] = <<>> /\ a[k + 1].kind = "text"
    BY <1>2, <1>4
  <2>. QED
    BY <1>2, <2>1
<1>. HIDE DEF P
<1>5. Nat \subseteq P
  BY <1>3, <1>4, SpokenFold!Induction
<1>6. h[m] = <<>>
  BY <1>5 DEF P
<1>. DEFINE Q(k) == Len(h[m + k]) = k /\ \A i \in 1..k : h[m + k][i] = a[m + i]
<1>. DEFINE R == {k \in Nat : m + k <= Len(a) => Q(k)}
<1>7. 0 \in R
  BY <1>6
<1>8. ASSUME NEW k \in Nat, k \in R PROVE k + 1 \in R
  <2>. SUFFICES ASSUME m + (k + 1) <= Len(a) PROVE Q(k + 1)
    OBVIOUS
  <2>1. /\ m + (k + 1) \in 1..Len(a) /\ m + (k + 1) \in (m + 1)..Len(a) /\ (m + (k + 1)) - 1 = m + k
        /\ Q(k) /\ m + k \in 0..Len(a)
    BY <1>2, <1>8
  <2>2. a[m + (k + 1)].kind = "call" /\ a[m + (k + 1)] \in S /\ h[m + k] \in Seq(S)
    BY <1>2, <2>1
  <2>3. h[m + (k + 1)] = Append(h[m + k], a[m + (k + 1)])
    BY <1>2, <2>1, <2>2
  <2>. DEFINE g == h[m + k]
  <2>. DEFINE x == a[m + (k + 1)]
  <2>4. g \in Seq(S) /\ x \in S /\ h[m + (k + 1)] = Append(g, x) /\ Len(g) = k /\ \A i \in 1..k : g[i] = a[m + i]
    BY <2>1, <2>2, <2>3
  <2>. HIDE DEF g
  <2>5. \A i \in 1..(k + 1) : i \in 1..k \/ i = k + 1
    OBVIOUS
  <2>. QED
    BY <2>4, <2>5
<1>. HIDE DEF R
<1>9. Nat \subseteq R
  BY <1>7, <1>8, SpokenFold!Induction
<1>. DEFINE n == Len(a) - m
<1>10. n \in Nat /\ m + n = Len(a)
  BY <1>2
<1>11. \A k \in Nat : m + k <= Len(a) => Q(k)
  BY <1>9 DEF R
<1>. HIDE DEF n
<1>12. Len(CallsOf(a)) = n /\ \A i \in 1..n : CallsOf(a)[i] = a[m + i]
  <2>1. m + n <= Len(a)
    BY <1>2, <1>10
  <2>2. Q(n)
    BY <1>10, <1>11, <2>1
  <2>. QED
    BY <1>2, <1>10, <2>2
<1>13. CallsOf(a) \in Seq(S)
  BY CallsTyped
<1>. QED
  BY <1>12, <1>13 DEF n

LEMMA AllCalls ==
  ASSUME NEW a \in Seq(Items)
  PROVE  /\ CallsOf(a) \in Seq(Items)
         /\ \A r \in 1..Len(CallsOf(a)) : CallsOf(a)[r].kind = "call"
<1>1. Together(a, a, CallsOf(a), CallsOf(a), Len(a))
  BY CallsTogether
<1>. QED
  BY <1>1, SaidTyped DEF Together

(* One text and calls after it, or calls alone. *)
LEMMA CallsAlone ==
  ASSUME NEW c \in Seq(Items), \A r \in 1..Len(c) : c[r].kind = "call"
  PROVE  Spoken(c) = <<>> /\ CallsOf(c) = c
<1>1. PICK h : SpokenRun(c, h)
  BY SpokenRuns, ItemsParted
<1>2. /\ 0 \in 0..Len(c) /\ h[0] = <<>> /\ \A k \in (0 + 1)..Len(c) : c[k].kind # "text"
      /\ \A k \in (0 + 1)..Len(c) : c[k].kind = "call"
      /\ \A k \in 1..0 : c[k].kind = "text"
  BY <1>1 DEF SpokenRun
<1>3. h[0] = Spoken(c)
  BY <1>1, <1>2, SpokenQuiet
<1>4. CallsOf(c) \in Seq(Items) /\ Len(CallsOf(c)) = Len(c) - 0 /\ \A i \in 1..(Len(c) - 0) : CallsOf(c)[i] = c[0 + i]
  BY <1>2, CallsLast, ItemsParted
<1>. QED
  BY <1>2, <1>3, <1>4

Texts == [kind : {"text"}, id : {0}, parts : Seq(Nat)]

LEMMA SameList ==
  ASSUME NEW S, NEW b \in Seq(S), NEW c \in Seq(S), Len(b) = Len(c), \A i \in 1..Len(c) : b[i] = c[i]
  PROVE  b = c
<1>1. b = [i \in 1..Len(b) |-> b[i]] /\ c = [i \in 1..Len(c) |-> c[i]]
  OBVIOUS
<1>. QED
  BY <1>1, Zenon

LEMMA TextAndCalls ==
  ASSUME NEW t \in Texts, NEW c \in Seq(Items), \A r \in 1..Len(c) : c[r].kind = "call",
         NEW a, a = <<t>> \o c
  PROVE  /\ Spoken(a) = t.parts /\ CallsOf(a) = c
         /\ \A k \in DOMAIN a : a[k].kind \in {"text", "call"}
<1>. DEFINE S == Texts \cup Items
<1>1. Parted(S)
  BY DEF Parted, Texts, Items
<1>2. t \in S /\ c \in Seq(S) /\ t.kind = "text" /\ t.parts \in Seq(Nat)
  BY DEF Texts
<1>. HIDE DEF S
<1>3. <<t>> \in Seq(S) /\ Len(<<t>>) = 1 /\ <<t>>[1] = t
  BY <1>2
<1>4. /\ a \in Seq(S) /\ Len(a) = Len(c) + 1 /\ Len(c) \in Nat /\ a[1] = t
      /\ \A k \in 1..Len(c) : a[1 + k] = c[k]
  BY <1>2, <1>3
<1>5. \A k \in (1 + 1)..Len(a) : a[k].kind = "call"
  <2>. SUFFICES ASSUME NEW k \in (1 + 1)..Len(a) PROVE a[k].kind = "call"
    OBVIOUS
  <2>. DEFINE j == k - 1
  <2>1. j \in 1..Len(c) /\ 1 + j = k
    BY <1>4
  <2>. HIDE DEF j
  <2>. QED
    BY <1>4, <2>1
<1>6. /\ 1 \in 0..Len(a) /\ \A k \in 1..1 : a[k].kind = "text"
      /\ \A k \in (1 + 1)..Len(a) : a[k].kind # "text"
  BY <1>2, <1>4, <1>5
<1>7. PICK h : SpokenRun(a, h)
  BY <1>1, <1>4, SpokenRuns
<1>8. h[1] = Spoken(a)
  BY <1>4, <1>6, <1>7, SpokenQuiet
<1>9. h[1] = t.parts
  <2>1. 1 \in 1..Len(a) /\ 1 - 1 = 0 /\ h[0] = <<>>
    BY <1>4, <1>7 DEF SpokenRun
  <2>2. h[1] = <<>> \o t.parts
    BY <1>2, <1>4, <1>7, <2>1 DEF SpokenRun
  <2>. QED
    BY <1>2, <2>2
<1>10. /\ CallsOf(a) \in Seq(S) /\ Len(CallsOf(a)) = Len(a) - 1
       /\ \A i \in 1..(Len(a) - 1) : CallsOf(a)[i] = a[1 + i]
  <2>. DEFINE m == 1
  <2>1. /\ m \in 0..Len(a) /\ \A k \in 1..m : a[k].kind = "text"
        /\ \A k \in (m + 1)..Len(a) : a[k].kind = "call"
    BY <1>5, <1>6
  <2>. HIDE DEF m
  <2>2. /\ CallsOf(a) \in Seq(S) /\ Len(CallsOf(a)) = Len(a) - m
        /\ \A i \in 1..(Len(a) - m) : CallsOf(a)[i] = a[m + i]
    <3>1. a \in Seq(S)
      BY <1>4
    <3>. QED
      BY <1>1, <2>1, <3>1, CallsLast
  <2>. QED
    BY <2>2 DEF m
<1>11. CallsOf(a) = c
  <2>. DEFINE b == CallsOf(a)
  <2>1. b \in Seq(S) /\ c \in Seq(S) /\ Len(b) = Len(c) /\ \A i \in 1..Len(c) : b[i] = c[i]
    BY <1>2, <1>4, <1>10
  <2>. HIDE DEF b
  <2>2. b = c
    BY <2>1, SameList
  <2>. QED
    BY <2>2 DEF b
<1>12. \A k \in DOMAIN a : a[k].kind \in {"text", "call"}
  BY <1>4, <1>5, <1>6
<1>. QED
  BY <1>8, <1>9, <1>11, <1>12

(* What the client has of a collected reply. *)
Gathered(items, said, calls) ==
  /\ \A k \in DOMAIN items : items[k].kind \in {"text", "call"}
  /\ Spoken(items) = Spoken(said) /\ CallsOf(items) = calls

LEMMA OneTextIs ==
  ASSUME NEW said \in Seq(Items), NEW t, t = OneText(said)
  PROVE  t \in Texts /\ t.parts = Spoken(said)
BY SaidTyped DEF OneText, Texts

LEMMA GatheredSaid == ASSUME NEW said \in Seq(Items) PROVE Gathered(said, said, CallsOf(said))
<1>1. \A k \in DOMAIN said : said[k] \in Items
  OBVIOUS
<1>2. \A k \in DOMAIN said : said[k].kind \in {"text", "call"}
  BY <1>1, ItemParts
<1>. QED
  BY <1>2 DEF Gathered

LEMMA GatheredAll ==
  ASSUME NEW said \in Seq(Items), NEW t, t = OneText(said), NEW a, a = <<t>> \o CallsOf(said)
  PROVE  Gathered(a, said, CallsOf(said)) /\ OneText(a) = t
<1>1. t \in Texts /\ t.parts = Spoken(said)
  BY OneTextIs
<1>2. Gathered(a, said, CallsOf(said))
  BY <1>1, AllCalls, TextAndCalls DEF Gathered
<1>. QED
  BY <1>2 DEF Gathered, OneText

LEMMA GatheredText ==
  ASSUME NEW said \in Seq(Items), NEW t, t = OneText(said), NEW a, a = <<t>>
  PROVE  Gathered(a, said, <<>>) /\ OneText(a) = t
<1>1. t \in Texts /\ t.parts = Spoken(said)
  BY OneTextIs
<1>2. <<>> \in Seq(Items) /\ \A r \in 1..Len(<<>>) : <<>>[r].kind = "call"
  OBVIOUS
<1>3. a = <<t>> \o <<>>
  BY <1>1
<1>4. Gathered(a, said, <<>>)
  BY <1>1, <1>2, <1>3, TextAndCalls DEF Gathered
<1>. QED
  BY <1>4 DEF Gathered, OneText

LEMMA GatheredNoText ==
  ASSUME NEW said \in Seq(Items), Spoken(said) = <<>>, NEW calls \in {<<>>, CallsOf(said)}
  PROVE  Gathered(<<>> \o calls, said, calls)
<1>1. calls \in Seq(Items) /\ \A r \in 1..Len(calls) : calls[r].kind = "call"
  <2>1. CallsOf(said) \in Seq(Items) /\ \A r \in 1..Len(CallsOf(said)) : CallsOf(said)[r].kind = "call"
    BY AllCalls
  <2>2. <<>> \in Seq(Items) /\ Len(<<>>) = 0 /\ 1..0 = {}
    OBVIOUS
  <2>3. CASE calls = <<>>
    BY <2>2, <2>3
  <2>4. CASE calls = CallsOf(said)
    BY <2>1, <2>4
  <2>. QED
    BY <2>3, <2>4
<1>2. <<>> \o calls = calls
  BY <1>1
<1>3. Spoken(calls) = <<>> /\ CallsOf(calls) = calls
  BY <1>1, CallsAlone
<1>. QED
  BY <1>1, <1>2, <1>3 DEF Gathered

-----------------------------------------------------------------------------
(* The reply that is made of what was collected.                           *)
ChatOf(shape, said, why) ==
  CASE shape = "codex" -> AggregateSse(said)
    [] shape = "cc_generate" -> AggregateNdjson(said, why)
    [] shape \in {"http_openai", "cc_chat"} -> [items |-> <<OneText(said)>> \o CallsOf(said), why |-> why]
    [] shape \in {"http_anthropic", "cc_messages"} -> ClaudeJsonToOpenai(said, FinishToStopReason(why))

ReplyOf(client, shape, said, why) ==
  IF InOwnEvents(client, shape) THEN [items |-> said, why |-> FinishToStopReason(why)]
  ELSE IF client = "messages" THEN OpenaiJsonToClaude(ChatOf(shape, said, why))
  ELSE IF client = "responses" THEN ChatToResponse(ChatOf(shape, said, why))
  ELSE ChatOf(shape, said, why)

BareText(client, shape) == shape = "codex" \/ (client = "messages" /\ ~InOwnEvents(client, shape))

\* A reply that was cut, of an adapter that tells it from one with calls.
Told(shape, said) ==
  shape # "codex" /\ ~(shape \in {"http_anthropic", "cc_messages"} /\ CallsOf(said) # <<>>)

ChatGathered(shape, said, why, items, word) ==
  /\ Gathered(items, said, IF shape = "codex" THEN <<>> ELSE CallsOf(said))
  /\ OneText(items) = OneText(said)
  /\ why \in {"stop", "tool_calls"} => word \in {"stop", "tool_calls"}
  /\ why = "length" /\ Told(shape, said) => word = "length"

LEMMA ChatOfIs ==
  ASSUME NEW shape \in Shapes, NEW said \in Seq(Items), NEW why, NEW r, r = ChatOf(shape, said, why)
  PROVE  ChatGathered(shape, said, why, r.items, r.why)
<1>. DEFINE t == OneText(said)
<1>. DEFINE one == <<t>>
<1>. DEFINE all == <<t>> \o CallsOf(said)
<1>1. /\ Gathered(one, said, <<>>) /\ OneText(one) = OneText(said)
      /\ Gathered(all, said, CallsOf(said)) /\ OneText(all) = OneText(said)
  BY GatheredText, GatheredAll
<1>2. CASE shape = "codex"
  <2>1. r = [items |-> one, why |-> "stop"]
    BY <1>2 DEF ChatOf, AggregateSse
  <2>. HIDE DEF one
  <2>2. r.items = one /\ r.why = "stop"
    BY <2>1
  <2>. QED
    BY <1>1, <1>2, <2>2 DEF ChatGathered, Told
<1>3. CASE shape \in {"cc_generate", "http_openai", "cc_chat"}
  <2>1. r = [items |-> all, why |-> why]
    BY <1>3 DEF ChatOf, AggregateNdjson
  <2>. HIDE DEF all
  <2>2. r.items = all /\ r.why = why
    BY <2>1
  <2>. QED
    BY <1>1, <1>3, <2>2 DEF ChatGathered
<1>4. CASE shape \in {"http_anthropic", "cc_messages"}
  <2>. DEFINE word == IF CallsOf(said) # <<>> THEN "tool_calls" ELSE StopReasonToFinish(FinishToStopReason(why))
  <2>1. r = [items |-> all, why |-> word]
    BY <1>4 DEF ChatOf, ClaudeJsonToOpenai
  <2>2. /\ why \in {"stop", "tool_calls"} => word \in {"stop", "tool_calls"}
        /\ why = "length" /\ CallsOf(said) = <<>> => word = "length"
    BY DEF StopReasonToFinish, FinishToStopReason
  <2>. HIDE DEF all, word
  <2>3. r.items = all /\ r.why = word
    BY <2>1
  <2>. QED
    BY <1>1, <1>4, <2>2, <2>3 DEF ChatGathered, Told
<1>. QED
  BY <1>2, <1>3, <1>4 DEF Shapes

ReplyGathered(client, shape, said, why, items, word) ==
  /\ Gathered(items, said, IF BareText(client, shape) THEN <<>> ELSE CallsOf(said))
  /\ why \in {"stop", "tool_calls"} => word \in EndedWell
  /\ why = "length" /\ Told(shape, said) => word \in EndedShort

LEMMA ReplyOfIs ==
  ASSUME NEW client \in Clients, NEW shape \in Shapes, NEW said \in Seq(Items), NEW why,
         NEW r, r = ReplyOf(client, shape, said, why)
  PROVE  ReplyGathered(client, shape, said, why, r.items, r.why)
<1>. DEFINE x == ChatOf(shape, said, why)
<1>. DEFINE t == OneText(said)
<1>. DEFINE calls == IF shape = "codex" THEN <<>> ELSE CallsOf(said)
<1>1. ChatGathered(shape, said, why, x.items, x.why)
  BY ChatOfIs
<1>. HIDE DEF x
<1>2. /\ Gathered(x.items, said, calls) /\ OneText(x.items) = t
      /\ why \in {"stop", "tool_calls"} => x.why \in {"stop", "tool_calls"}
      /\ why = "length" /\ Told(shape, said) => x.why = "length"
  BY <1>1 DEF ChatGathered
<1>3. CASE InOwnEvents(client, shape)
  <2>. DEFINE word == FinishToStopReason(why)
  <2>1. r = [items |-> said, why |-> word]
    BY <1>3 DEF ReplyOf
  <2>2. /\ why \in {"stop", "tool_calls"} => word \in EndedWell
        /\ why = "length" => word \in EndedShort
    BY DEF FinishToStopReason, EndedWell, EndedShort
  <2>3. ~BareText(client, shape)
    BY <1>3 DEF BareText, InOwnEvents
  <2>. HIDE DEF word
  <2>4. r.items = said /\ r.why = word
    BY <2>1
  <2>. QED
    BY <2>2, <2>3, <2>4, GatheredSaid DEF ReplyGathered
<1>4. CASE client = "messages" /\ ~InOwnEvents(client, shape)
  <2>. DEFINE word == FinishToStopReason(x.why)
  <2>. DEFINE one == <<t>>
  <2>1. r = [items |-> one, why |-> word]
    BY <1>2, <1>4 DEF ReplyOf, OpenaiJsonToClaude, x
  <2>2. /\ why \in {"stop", "tool_calls"} => word \in EndedWell
        /\ why = "length" /\ Told(shape, said) => word \in EndedShort
    BY <1>2 DEF FinishToStopReason, EndedWell, EndedShort
  <2>3. BareText(client, shape)
    BY <1>4 DEF BareText
  <2>4. Gathered(one, said, <<>>)
    BY GatheredText
  <2>. HIDE DEF word, one
  <2>5. r.items = one /\ r.why = word
    BY <2>1
  <2>. QED
    BY <2>2, <2>3, <2>4, <2>5 DEF ReplyGathered
<1>5. CASE client = "responses"
  <2>. DEFINE word == IF x.why = "length" THEN "incomplete" ELSE "completed"
  <2>. DEFINE list == (IF t.parts = <<>> THEN <<>> ELSE <<t>>) \o calls
  <2>0. CallsOf(x.items) = calls
    BY <1>2 DEF Gathered
  <2>1. r = [items |-> list, why |-> word]
    BY <1>2, <1>5, <2>0 DEF ReplyOf, ChatToResponse, x, InOwnEvents
  <2>2. /\ why \in {"stop", "tool_calls"} => word \in EndedWell
        /\ why = "length" /\ Told(shape, said) => word \in EndedShort
    BY <1>2 DEF EndedWell, EndedShort
  <2>3. calls = IF BareText(client, shape) THEN <<>> ELSE CallsOf(said)
    BY <1>5 DEF BareText
  <2>4. Gathered(list, said, calls)
    <3>1. CASE t.parts = <<>>
      <4>1. Spoken(said) = <<>> /\ calls \in {<<>>, CallsOf(said)}
        BY <3>1 DEF OneText
      <4>2. list = <<>> \o calls
        BY <3>1
      <4>. QED
        BY <4>1, <4>2, GatheredNoText
    <3>2. CASE t.parts # <<>>
      <4>1. CASE shape = "codex"
        <5>1. t \in Texts
          BY OneTextIs
        <5>2. list = <<t>>
          BY <3>2, <4>1, <5>1
        <5>. QED
          BY <4>1, <5>2, GatheredText
      <4>2. CASE shape # "codex"
        <5>1. list = <<t>> \o CallsOf(said)
          BY <3>2, <4>2
        <5>. QED
          BY <4>2, <5>1, GatheredAll
      <4>. QED
        BY <4>1, <4>2
    <3>. QED
      BY <3>1, <3>2
  <2>. HIDE DEF word, list, calls
  <2>5. r.items = list /\ r.why = word
    BY <2>1
  <2>. QED
    BY <2>2, <2>3, <2>4, <2>5 DEF ReplyGathered
<1>6. CASE client = "chat"
  <2>1. r = x
    BY <1>6 DEF ReplyOf, InOwnEvents, x
  <2>2. calls = IF BareText(client, shape) THEN <<>> ELSE CallsOf(said)
    BY <1>6 DEF BareText
  <2>. HIDE DEF calls
  <2>. QED
    BY <1>2, <2>1, <2>2 DEF ReplyGathered, EndedWell, EndedShort
<1>. QED
  BY <1>3, <1>4, <1>5, <1>6 DEF Clients

LEMMA BufferedIs ==
  ASSUME Talking, Buffered
  PROVE  \E why, r : /\ why = IF up.why = "whole" THEN IF Calls # <<>> THEN "tool_calls" ELSE "stop" ELSE up.why
                     /\ r = ReplyOf(ask.client, ask.shape, up.said, why)
                     /\ heard' = [items |-> r.items, why |-> r.why, body |-> "clean"]
<1>. DEFINE why == IF up.why = "whole" THEN IF Calls # <<>> THEN "tool_calls" ELSE "stop" ELSE up.why
<1>. DEFINE chat == CASE ask.shape = "codex" -> AggregateSse(up.said)
                      [] ask.shape = "cc_generate" -> AggregateNdjson(up.said, why)
                      [] ChatShaped -> [items |-> <<OneText(up.said)>> \o CallsOf(up.said), why |-> why]
                      [] ClaudeShaped -> ClaudeJsonToOpenai(up.said, FinishToStopReason(why))
<1>. DEFINE reply == CASE Raw /\ Wire = "messages" -> [items |-> up.said, why |-> FinishToStopReason(why)]
                       [] ~Raw /\ Wire = "messages" -> OpenaiJsonToClaude(chat)
                       [] ask.client = "responses" -> ChatToResponse(chat)
                       [] OTHER -> chat
<1>1. heard' = [items |-> reply.items, why |-> reply.why, body |-> "clean"]
  BY DEF Buffered
<1>2. ask.client \in Clients /\ ask.shape \in Shapes
  BY DEF Talking, AskShape
<1>. HIDE DEF why
<1>3. chat = ChatOf(ask.shape, up.said, why)
  BY <1>2 DEF ChatOf, ChatShaped, ClaudeShaped, Shapes
<1>. HIDE DEF chat
<1>4. reply = ReplyOf(ask.client, ask.shape, up.said, why)
  <2>1. CASE InOwnEvents(ask.client, ask.shape)
    <3>1. Raw /\ Wire = "messages" /\ ask.client # "responses"
      BY <2>1 DEF Raw, Wire, InOwnEvents
    <3>2. reply = [items |-> up.said, why |-> FinishToStopReason(why)]
      BY <3>1
    <3>. QED
      BY <2>1, <3>2 DEF ReplyOf
  <2>2. CASE ask.client = "messages" /\ ~InOwnEvents(ask.client, ask.shape)
    <3>1. ~Raw /\ Wire = "messages" /\ ask.client # "responses"
      BY <2>2 DEF Raw, Wire, InOwnEvents
    <3>2. reply = OpenaiJsonToClaude(chat)
      BY <3>1
    <3>. QED
      BY <1>3, <2>2, <3>2 DEF ReplyOf
  <2>3. CASE ask.client = "responses"
    <3>1. Wire # "messages" /\ ~InOwnEvents(ask.client, ask.shape)
      BY <2>3 DEF Wire, InOwnEvents
    <3>2. reply = ChatToResponse(chat)
      BY <2>3, <3>1
    <3>. QED
      BY <1>3, <2>3, <3>1, <3>2 DEF ReplyOf
  <2>4. CASE ask.client = "chat"
    <3>1. Wire # "messages" /\ ~InOwnEvents(ask.client, ask.shape) /\ ask.client # "responses" /\ ask.client # "messages"
      BY <2>4 DEF Wire, InOwnEvents
    <3>2. reply = chat
      BY <3>1
    <3>. QED
      BY <1>3, <3>1, <3>2 DEF ReplyOf
  <2>. QED
    BY <1>2, <2>1, <2>2, <2>3, <2>4 DEF Clients
<1>. HIDE DEF reply
<1>. QED
  BY <1>1, <1>4 DEF why

(* The bill of a reply that is collected, as the translators leave it. *)
LEMMA BufferedBill ==
  ASSUME Talking, Buffered
  PROVE  tap' = Recorded([tap EXCEPT !.best =
                  IF ask.shape = "codex" /\ up.bill = "apart" THEN NoBill ELSE UsageOf(up.usage)])
<1>. DEFINE lost == ask.shape = "codex" /\ up.bill = "apart"
<1>. DEFINE billed == IF lost THEN NoUsage ELSE up.usage
<1>. DEFINE usage == CASE ~Raw /\ Wire = "messages" -> UsageFrom(billed)
                       [] ~Raw /\ ClaudeShaped -> OpenaiUsageFromClaude(billed)
                       [] OTHER -> billed
<1>1. tap' = Recorded([tap EXCEPT !.best = UsageOf(usage)])
  BY DEF Buffered
<1>2. /\ up.usage \in Usage
      /\ up.usage.apart \/ up.usage.cached = 0 \/ ~ClaudeShaped
  <2>. DEFINE best == MeterNow(ask.client, ask.shape, up.started, up.bill)
  <2>1. BillTyped(ask.shape, up.why, up.started, up.bill, up.usage)
    BY DEF Talking, UpTyped
  <2>2. /\ up.usage \in Usage
        /\ up.usage.apart \/ up.usage.cached = 0 \/ ask.shape \notin {"http_anthropic", "cc_messages"}
    BY <2>1, MeterTyped
  <2>. QED
    BY <2>2 DEF ClaudeShaped
<1>3. billed \in Usage /\ (billed.apart \/ billed.cached = 0 \/ ~ClaudeShaped)
  <2>1. NoUsage \in Usage /\ NoUsage.cached = 0
    BY DEF NoUsage, Usage, Usages
  <2>. QED
    BY <1>2, <2>1
<1>. HIDE DEF billed
<1>4. billed \in Usages /\ (billed.apart \/ billed.cached <= billed.input)
  BY <1>3 DEF Usage
<1>5. UsageOf(UsageFrom(billed)) = UsageOf(billed)
  BY <1>4, DeductingKeeps
<1>6. ClaudeShaped => UsageOf(OpenaiUsageFromClaude(billed)) = UsageOf(billed)
  BY <1>3, <1>4, BillConverts
<1>7. Raw \/ Wire # "messages" \/ ~ClaudeShaped
  BY DEF Raw, Wire, ClaudeShaped
<1>8. UsageOf(usage) = UsageOf(billed)
  <2>1. CASE ~Raw /\ Wire = "messages"
    <3>1. usage = UsageFrom(billed)
      BY <1>7, <2>1
    <3>. QED
      BY <1>5, <3>1
  <2>2. CASE ~Raw /\ ClaudeShaped
    <3>1. usage = OpenaiUsageFromClaude(billed)
      BY <1>7, <2>2
    <3>. QED
      BY <1>6, <2>2, <3>1
  <2>3. CASE ~(~Raw /\ Wire = "messages") /\ ~(~Raw /\ ClaudeShaped)
    <3>1. usage = billed
      BY <2>3
    <3>. QED
      BY <3>1
  <2>. QED
    BY <2>1, <2>2, <2>3
<1>. HIDE DEF usage
<1>9. UsageOf(billed) = IF lost THEN NoBill ELSE UsageOf(up.usage)
  BY DEF billed, NoBill
<1>. QED
  BY <1>1, <1>8, <1>9

LEMMA BufferedTalks == ExchangeIInv /\ Talking /\ Buffered => Talking'
<1>. SUFFICES ASSUME ExchangeIInv, Talking, Buffered PROVE Talking'
  OBVIOUS
<1>. DEFINE src == "ended"
<1>. DEFINE best == IF ask.shape = "codex" /\ up.bill = "apart" THEN NoBill ELSE UsageOf(up.usage)
<1>. DEFINE complete == TRUE
<1>1. /\ phase = "replying" /\ ~ask.streamed /\ up.why # "none" /\ phase' = "ended"
      /\ up' = [up EXCEPT !.src = src] /\ tap' = Recorded([tap EXCEPT !.best = best])
      /\ tee' = Fired(tee, complete) /\ UNCHANGED <<ask, sent, conv, brg, queue>>
  BY BufferedBill DEF Buffered
<1>2. /\ src \in {"open", "ended", "broken"} /\ complete \in BOOLEAN
      /\ best = IF ask.shape = "codex" /\ up.bill = "apart" THEN NoBill ELSE UsageOf(up.usage)
  OBVIOUS
<1>. HIDE DEF src, best, complete
<1>3. PICK why, r :
        /\ why = IF up.why = "whole" THEN IF Calls # <<>> THEN "tool_calls" ELSE "stop" ELSE up.why
        /\ r = ReplyOf(ask.client, ask.shape, up.said, why)
        /\ heard' = [items |-> r.items, why |-> r.why, body |-> "clean"]
  BY BufferedIs
<1>4. /\ ask.client \in Clients /\ ask.shape \in Shapes /\ up.said \in Seq(Items) /\ Collecting
      /\ up.why \in {"none", "whole", "length", "error"}
  BY <1>1 DEF Talking, AskShape, UpTyped, SaidIn
<1>5. ReplyGathered(ask.client, ask.shape, up.said, why, r.items, r.why)
  <2>. DEFINE client == ask.client
  <2>. DEFINE shape == ask.shape
  <2>. DEFINE said == up.said
  <2>1. client \in Clients /\ shape \in Shapes /\ said \in Seq(Items) /\ r = ReplyOf(client, shape, said, why)
    BY <1>3, <1>4
  <2>. HIDE DEF client, shape, said
  <2>2. ReplyGathered(client, shape, said, why, r.items, r.why)
    BY <2>1, ReplyOfIs
  <2>. QED
    BY <2>2 DEF client, shape, said
<1>6. /\ up'.said = up.said /\ up'.pieces = up.pieces /\ up'.why = up.why /\ up'.src = src
      /\ SameBill
  BY <1>1, UpStops DEF ExchangeIInv, Shaped
<1>7. heard'.items = r.items /\ heard'.why = r.why /\ heard'.body = "clean"
  BY <1>3
<1>8. tap'.best = best
  <2>1. tap = [best |-> tap.best, recorded |-> tap.recorded]
    BY DEF ExchangeIInv, Shaped, TapShape
  <2>2. [tap EXCEPT !.best = best] = [best |-> best, recorded |-> tap.recorded]
    BY <2>1
  <2>. QED
    BY <1>1, <2>2 DEF Recorded
<1>9. TeeBare'
  <2>1. IsTee(tee)
    BY DEF ExchangeIInv, Shaped, TeeShape, IsTee
  <2>2. tee.kept = 0 /\ tee.overflowed = FALSE /\ tee.items = <<>>
    BY <1>4 DEF Collecting, TeeBare
  <2>. QED
    BY <1>1, <1>2, <2>1, <2>2, FiredIs DEF TeeBare
<1>10. TextOnly' = BareText(ask.client, ask.shape)
  BY <1>1 DEF TextOnly, BareText, Raw, InOwnEvents
<1>11. /\ \A i \in DOMAIN r.items : r.items[i].kind \in {"text", "call"}
       /\ Spoken(r.items) = Spoken(up.said)
       /\ CallsOf(r.items) = IF BareText(ask.client, ask.shape) THEN <<>> ELSE CallsOf(up.said)
  BY <1>5 DEF ReplyGathered, Gathered
<1>12. CallsHeard(r.items) = IF BareText(ask.client, ask.shape) THEN <<>> ELSE CallsHeard(up.said)
  BY <1>11 DEF CallsHeard
<1>13. up.why = "whole" => r.why \in EndedWell
  BY <1>3, <1>5 DEF ReplyGathered
<1>14. up.why = "length" /\ ask.shape # "codex" /\ ~(ClaudeShaped /\ Calls # <<>>) => r.why \in EndedShort
  BY <1>3, <1>5 DEF ReplyGathered, Told, ClaudeShaped, Calls
<1>15. ClaudeShaped' = ClaudeShaped /\ Calls' = Calls
  BY <1>1, <1>6 DEF ClaudeShaped, Calls
<1>16. Collecting'
  BY <1>1, <1>2, <1>4, <1>6, <1>7, <1>8, <1>9, <1>10, <1>11, <1>12, <1>13, <1>14, <1>15
  DEF Collecting, SameBill
<1>17. AskShape' /\ UpTyped' /\ ask'.streamed = ask.streamed
  BY <1>1, <1>2, <1>6 DEF Talking, AskShape, UpTyped, SameBill
<1>. QED
  BY <1>1, <1>16, <1>17 DEF Talking

-----------------------------------------------------------------------------
(***************************************************************************)
(* What the invariant says of the replies.                                 *)
(***************************************************************************)
(* Every step keeps it.                                                    *)
LEMMA NextTalks == ExchangeIInv /\ Talking /\ [Next]_vars => Talking'
<1>. SUFFICES ASSUME ExchangeIInv, Talking, [Next]_vars PROVE Talking'
  OBVIOUS
<1>1. CASE Send \/ Answer
  BY <1>1, SendTalks, AnswerTalks
<1>2. CASE Begins \/ SaysText \/ SaysError \/ OpensBlock \/ ClosesBlock
  BY <1>2, BeginsTalks, SaysTextTalks, SaysErrorTalks, OpensBlockTalks, ClosesBlockTalks
<1>3. CASE SaysCall \/ SaysArguments \/ ArgumentsDone \/ Finishes \/ SaysUsage
  BY <1>3, SaysCallTalks, SaysArgumentsTalks, ArgumentsDoneTalks, FinishesTalks, SaysUsageTalks
<1>4. CASE Stops \/ Takes \/ BodyEnds \/ Leaves
  BY <1>4, StopsTalks, TakesTalks, BodyEndsTalks, LeavesTalks
<1>5. CASE Buffered \/ NoReply
  BY <1>5, BufferedTalks, NoReplyTalks
<1>6. CASE Rests \/ UNCHANGED vars
  BY <1>6, StutterTalks DEF Rests
<1>. QED
  BY <1>1, <1>2, <1>3, <1>4, <1>5, <1>6 DEF Next

(* What the client has heard, what waits for it, what the adapter has made *)
(* of the reply (transform_response) and what the upstream has said always *)
(* belong together.                                                        *)
THEOREM Conversation == Spec => [](ExchangeIInv /\ Talking)
<1>1. Init => ExchangeIInv /\ Talking
  BY InitShaped, InitTalks
<1>2. ExchangeIInv /\ Talking /\ [Next]_vars => Talking'
  BY NextTalks
<1>3. Spec => []ExchangeIInv
  BY ExchangeInvariance
<1>. QED
  BY <1>1, <1>2, <1>3, PTL DEF Spec

-----------------------------------------------------------------------------
(* What follows for a streamed reply.                                      *)
InAccord(w, d) ==
  /\ Tells(ask.client, ask.shape, up.said, up.why, w)
  /\ Whole(ask.client, NowHeard) /\ Whole(ask.client, d)
  /\ Numbered(d.items) /\ Content(d.items) = Content(w.items)
  /\ ask.client # "responses" => d = w
  /\ BeginningOf(NowHeard.items, d.items)
  /\ NowHeard.why # "none" => d.why = NowHeard.why
  /\ queue = <<>> => NowHeard = d
  /\ Copies(tee, w)

LEMMA OnItsWayIs ==
  ASSUME AskShape, UpTyped, NEW w, NEW d, OnItsWay(w, d)
  PROVE  InAccord(w, d)
<1>. DEFINE client == ask.client
<1>. DEFINE shape == ask.shape
<1>. DEFINE said == up.said
<1>. DEFINE why == up.why
<1>. DEFINE now == NowHeard
<1>1. /\ client \in Clients /\ why \in {"none", "whole", "length", "error"}
      /\ Carries(client, shape, said, why, conv, brg, w)
      /\ Delivers(client, up.src, brg, w, d)
      /\ Whole(client, now) /\ Road(client, now, queue, d) /\ Copies(tee, w)
  BY DEF OnItsWay, AskShape, UpTyped
<1>. HIDE DEF client, shape, said, why, now
<1>2. Tells(client, shape, said, why, w)
  BY <1>1, CarriesReply
<1>3. Whole(WireOf(client), w) /\ Numbered(w.items)
  BY <1>2 DEF Tells
<1>4. /\ Whole(client, d) /\ Numbered(d.items) /\ Content(d.items) = Content(w.items)
      /\ client # "responses" => d = w
  <2>. DEFINE src == up.src
  <2>1. Delivers(client, src, brg, w, d)
    BY <1>1
  <2>. HIDE DEF src
  <2>. QED
    BY <1>1, <1>3, <2>1, DeliversReply
<1>5. BeginningOf(now.items, d.items) /\ (now.why # "none" => d.why = now.why)
  <2>. DEFINE q == queue
  <2>1. Road(client, now, q, d)
    BY <1>1
  <2>. HIDE DEF q
  <2>. QED
    BY <1>1, <2>1, RoadKeeps
<1>6. queue = <<>> => now = d
  <2>. SUFFICES ASSUME queue = <<>> PROVE now = d
    OBVIOUS
  <2>1. Road(client, now, <<>>, d)
    BY <1>1
  <2>. QED
    BY <2>1, RoadEmpty
<1>. QED
  BY <1>1, <1>2, <1>4, <1>5, <1>6 DEF InAccord, client, shape, said, why, now

LEMMA StreamingIs ==
  ASSUME Talking, phase \in {"replying", "ended"}, ask.streamed
  PROVE  Streaming /\ \E w, d : InAccord(w, d)
BY OnItsWayIs DEF Talking, Streaming

-----------------------------------------------------------------------------
LEMMA HeardNow == NowHeard.items = heard.items /\ NowHeard.why = heard.why
BY DEF NowHeard, Heard

LEMMA NothingNow == heard = NothingHeard => heard.items = <<>> /\ heard.why = "none" /\ heard.body = "open"
BY DEF NothingHeard

LEMMA TalkingTyped == Talking => TypeOK
<1>. SUFFICES ASSUME Talking PROVE TypeOK
  OBVIOUS
<1>1. /\ phase \in {"asking", "sent", "replying", "ended"} /\ ask.client \in Clients /\ ask.shape \in Shapes
      /\ up.src \in {"open", "ended", "broken"}
  BY DEF Talking, AskShape, UpTyped
<1>2. up.pieces <= MaxPieces
  BY ExchangeBounds DEF Talking, UpTyped
<1>3. CASE phase \in {"asking", "sent"}
  <2>1. tee.kept <= MaxCapture
    BY <1>3, ExchangeBounds DEF Talking, Fresh, TeeBare
  <2>2. heard.items = <<>>
    BY <1>3, NothingNow DEF Talking, Fresh
  <2>3. \A i \in DOMAIN heard.items : heard.items[i].kind \in {"text", "call"}
    BY <2>2
  <2>. QED
    BY <1>1, <1>2, <2>1, <2>3 DEF TypeOK
<1>4. CASE phase \in {"replying", "ended"} /\ ask.streamed
  <2>1. PICK w, d : InAccord(w, d)
    BY <1>4, StreamingIs
  <2>2. tee.kept <= MaxCapture
    BY <2>1, ExchangeBounds DEF InAccord, Copies
  <2>3. heard.items \in Seq(Items)
    BY <2>1, HeardNow DEF InAccord, Whole, Good
  <2>4. \A i \in DOMAIN heard.items : heard.items[i].kind \in {"text", "call"}
    <3>1. \A i \in DOMAIN heard.items : heard.items[i] \in Items
      BY <2>3
    <3>. QED
      BY <3>1, ItemParts
  <2>. QED
    BY <1>1, <1>2, <2>2, <2>4 DEF TypeOK
<1>5. CASE phase \in {"replying", "ended"} /\ ~ask.streamed
  <2>1. Collecting
    BY <1>5 DEF Talking
  <2>2. tee.kept <= MaxCapture
    BY <2>1, ExchangeBounds DEF Collecting, TeeBare
  <2>3. \A i \in DOMAIN heard.items : heard.items[i].kind \in {"text", "call"}
    <3>1. CASE phase = "replying" \/ heard.body # "clean"
      <4>1. heard.items = <<>>
        BY <1>5, <2>1, <3>1, NothingNow DEF Collecting
      <4>. QED
        BY <4>1
    <3>2. CASE phase = "ended" /\ heard.body = "clean"
      BY <2>1, <3>2 DEF Collecting
    <3>. QED
      BY <1>5, <2>1, <3>1, <3>2 DEF Collecting
  <2>. QED
    BY <1>1, <1>2, <2>2, <2>3 DEF TypeOK
<1>. QED
  BY <1>1, <1>3, <1>4, <1>5

(* The types, and that only what was asked is answered, in any exchange:   *)
(* an upstream says no more than was allowed for, the dataset copy keeps   *)
(* no more than MAX_CAPTURE (tee), and a client never hears an event of an *)
(* item it has not been told of.                                           *)
THEOREM Typed == Spec => []TypeOK
<1>. QED
  BY Conversation, TalkingTyped, PTL

LEMMA TalkingReason == Talking => ReasonIsTrue
<1>. SUFFICES ASSUME Talking, ask.client # "responses" \/ ~ask.streamed
              PROVE  /\ heard.why # "none" => up.why # "none"
                     /\ Finished /\ up.why = "whole" => heard.why \in EndedWell
                     /\ Finished /\ up.why = "length" /\ ask.shape # "codex"
                          /\ ~(ClaudeShaped /\ Calls # <<>>) => heard.why \in EndedShort
  BY DEF ReasonIsTrue
<1>1. phase \in {"asking", "sent", "replying", "ended"}
  BY DEF Talking
<1>2. CASE phase \in {"asking", "sent"}
  BY <1>2, NothingNow DEF Talking, Fresh, Finished
<1>3. CASE phase \in {"replying", "ended"} /\ ask.streamed
  <2>1. PICK w, d : InAccord(w, d)
    BY <1>3, StreamingIs
  <2>2. /\ Tells(ask.client, ask.shape, up.said, up.why, w) /\ d = w
        /\ heard.why # "none" => w.why = heard.why
        /\ queue = <<>> => heard.why = w.why
    BY <1>3, <2>1, HeardNow DEF InAccord
  <2>3. Finished => queue = <<>>
    BY <1>3, StreamingIs DEF Streaming, Finished
  <2>4. up.why = "none" => w.why = "none"
    BY <2>2 DEF Tells
  <2>5. up.why = "whole" => w.why \in EndedWell
    BY <2>2 DEF Tells, EndedWell
  <2>6. up.why = "length" /\ ask.shape # "codex" /\ ~(ClaudeShaped /\ Calls # <<>>) => w.why \in EndedShort
    <3>1. CallCount(up.said) # 0 => Calls # <<>>
      BY DEF CallCount, Calls
    <3>. QED
      BY <2>2, <3>1 DEF Tells, EndedShort, ClaudeShaped
  <2>. QED
    BY <2>2, <2>3, <2>4, <2>5, <2>6
<1>4. CASE phase \in {"replying", "ended"} /\ ~ask.streamed
  <2>1. Collecting
    BY <1>4 DEF Talking
  <2>2. CASE phase = "replying" \/ heard.body # "clean"
    BY <1>4, <2>1, <2>2, NothingNow DEF Collecting, Finished
  <2>3. CASE phase = "ended" /\ heard.body = "clean"
    BY <2>1, <2>3 DEF Collecting
  <2>. QED
    BY <1>4, <2>1, <2>2, <2>3 DEF Collecting
<1>. QED
  BY <1>1, <1>2, <1>3, <1>4

(* The reason a client is given is the upstream's, whatever the dialects   *)
(* on the way and however much of the reply it has taken                   *)
(* (finish_to_stop_reason, stop_reason_to_finish, StreamState::finish).    *)
THEOREM Reasons == Spec => []ReasonIsTrue
<1>. QED
  BY Conversation, TalkingReason, PTL

(* Replies of the same content are the same reply to a client. *)
LEMMA SameHeard ==
  ASSUME NEW a, NEW b, Numbered(a), Numbered(b), a \in Seq(Items), b \in Seq(Items), Content(a) = Content(b)
  PROVE  Spoken(a) = Spoken(b) /\ CallsHeard(a) = CallsHeard(b)
<1>1. Spoken(a) = Spoken(b)
  BY DEF Content
<1>2. /\ Len(CallsOf(a)) \in Nat /\ Len(CallsOf(b)) \in Nat
      /\ DOMAIN CallsOf(a) = 1..Len(CallsOf(a)) /\ DOMAIN CallsOf(b) = 1..Len(CallsOf(b))
  BY SaidTyped
<1>. DEFINE x == [r \in 1..Len(CallsOf(a)) |-> CallsOf(a)[r].parts]
<1>. DEFINE y == [r \in 1..Len(CallsOf(b)) |-> CallsOf(b)[r].parts]
<1>3. x = y
  BY DEF Content
<1>4. DOMAIN x = 1..Len(CallsOf(a)) /\ DOMAIN y = 1..Len(CallsOf(b))
  OBVIOUS
<1>5. /\ \A r \in 1..Len(CallsOf(a)) : x[r] = CallsOf(a)[r].parts
      /\ \A r \in 1..Len(CallsOf(b)) : y[r] = CallsOf(b)[r].parts
  OBVIOUS
<1>. HIDE DEF x, y
<1>6. 1..Len(CallsOf(a)) = 1..Len(CallsOf(b))
  BY <1>3, <1>4
<1>7. \A r \in 1..Len(CallsOf(a)) : /\ CallsOf(a)[r].id = CallsOf(b)[r].id
                                    /\ CallsOf(a)[r].parts = CallsOf(b)[r].parts
  BY <1>3, <1>5, <1>6 DEF Numbered
<1>8. CallsHeard(a) = CallsHeard(b)
  BY <1>2, <1>6, <1>7 DEF CallsHeard
<1>. QED
  BY <1>1, <1>8

(* The meter and the bill, at any moment. *)
LEMMA TalkingMeter ==
  ASSUME Talking
  PROVE  /\ ask.streamed /\ Raw => tap.best = UsageOf(up.usage)
         /\ Finished /\ up.bill = "whole" => tap.best = UsageOf(up.usage)
         /\ NoMore(tap.best, UsageOf(up.usage))
<1>. DEFINE best == MeterNow(ask.client, ask.shape, up.started, up.bill)
<1>1. /\ phase \in {"asking", "sent", "replying", "ended"} /\ ask.client \in Clients
      /\ BillTyped(ask.shape, up.why, up.started, up.bill, up.usage)
  BY DEF Talking, UpTyped, AskShape
<1>2. /\ NoMore(best, UsageOf(up.usage)) /\ NoMore(NoBill, UsageOf(up.usage))
      /\ Direct(ask.client, ask.shape) \/ up.bill = "whole" => best = UsageOf(up.usage)
  BY <1>1, MeterTyped
<1>3. Raw => Direct(ask.client, ask.shape)
  BY DEF Raw, Direct, InOwnEvents
<1>4. CASE phase \in {"asking", "sent"}
  <2>1. tap.best = NoBill /\ up.usage = NoUsage
    BY <1>4 DEF Talking, Fresh, SilentUp
  <2>. QED
    BY <1>2, <1>4, <2>1 DEF Finished, NoBill
<1>5. CASE phase \in {"replying", "ended"} /\ ask.streamed
  <2>1. tap.best = best
    BY <1>5 DEF Talking, Streaming
  <2>. HIDE DEF best
  <2>. QED
    BY <1>2, <1>3, <2>1
<1>6. CASE phase \in {"replying", "ended"} /\ ~ask.streamed
  <2>1. Collecting
    BY <1>6 DEF Talking
  <2>2. CASE phase = "replying" \/ heard.body # "clean"
    <3>1. tap.best = NoBill
      BY <1>6, <2>1, <2>2 DEF Collecting
    <3>. QED
      BY <1>2, <1>6, <2>2, <3>1 DEF Finished
  <2>3. CASE phase = "ended" /\ heard.body = "clean"
    <3>1. tap.best = IF ask.shape = "codex" /\ up.bill = "apart" THEN NoBill ELSE UsageOf(up.usage)
      BY <2>1, <2>3 DEF Collecting
    <3>2. NoMore(UsageOf(up.usage), UsageOf(up.usage))
      <4>1. up.usage \in Usage
        BY <1>1, MeterTyped
      <4>. QED
        BY <4>1, UsageCounts DEF NoMore, Counts, Usage
    <3>. QED
      BY <1>2, <1>6, <3>1, <3>2
  <2>. QED
    BY <1>6, <2>2, <2>3
<1>. QED
  BY <1>1, <1>4, <1>5, <1>6

LEMMA TalkingReport == ExchangeIInv /\ Talking => ReportIsTrue
<1>. SUFFICES ASSUME ExchangeIInv, Talking
              PROVE  tee.complete /\ phase = "ended" /\ ask.streamed /\ heard.body = "clean" =>
                       /\ Spoken(tee.items) = Spoken(heard.items)
                       /\ CallsHeard(tee.items) = CallsHeard(heard.items)
  BY TalkingMeter DEF ReportIsTrue
<1>1. CASE phase # "ended"
  BY <1>1, TalkingMeter
<1>2. CASE phase = "ended" /\ ask.streamed
  <2>1. Streaming
    BY <1>2 DEF Talking
  <2>3. PICK w, d : InAccord(w, d)
    BY <1>2, StreamingIs
  <2>. SUFFICES ASSUME tee.complete, heard.body = "clean"
                PROVE  Spoken(tee.items) = Spoken(heard.items) /\ CallsHeard(tee.items) = CallsHeard(heard.items)
    BY <1>2, TalkingMeter
  <2>4. heard.items = d.items
    BY <2>1, <2>3, HeardNow DEF Streaming, InAccord
  <2>5. tee.items = w.items
    BY <2>1, <2>3 DEF Streaming, InAccord, Copies
  <2>6. /\ Numbered(d.items) /\ Numbered(w.items) /\ Content(d.items) = Content(w.items)
        /\ d.items \in Seq(Items) /\ w.items \in Seq(Items)
    BY <2>3 DEF InAccord, Tells, Whole, Good
  <2>7. Spoken(d.items) = Spoken(w.items) /\ CallsHeard(d.items) = CallsHeard(w.items)
    <3>. DEFINE a == d.items
    <3>. DEFINE b == w.items
    <3>1. Numbered(a) /\ Numbered(b) /\ a \in Seq(Items) /\ b \in Seq(Items) /\ Content(a) = Content(b)
      BY <2>6
    <3>. HIDE DEF a, b
    <3>2. Spoken(a) = Spoken(b) /\ CallsHeard(a) = CallsHeard(b)
      BY <3>1, SameHeard
    <3>. QED
      BY <3>2 DEF a, b
  <2>. QED
    BY <2>4, <2>5, <2>7
<1>3. CASE phase = "ended" /\ ~ask.streamed
  BY <1>3, TalkingMeter
<1>. QED
  BY <1>1, <1>2, <1>3

(* What is reported of a reply is true: the meter (Scanner, Guard) has all *)
(* that was billed of a stream in the upstream's own frames at any moment, *)
(* and of a translated reply when its bill comes with the reason, however  *)
(* often it is converted; it never has more than was billed; and a copy    *)
(* that calls itself complete (tee) has the text and calls the client was  *)
(* sent.                                                                   *)
THEOREM Reports == Spec => []ReportIsTrue
<1>. QED
  BY Conversation, TalkingReport, PTL

-----------------------------------------------------------------------------
(* What the client hears and what the upstream says. *)
Echoes(a, b) ==
  /\ IsPrefix(Spoken(a), Spoken(b))
  /\ Len(CallsHeard(a)) <= Len(CallsHeard(b))
  /\ \A i \in DOMAIN CallsHeard(a) :
       CallsHeard(a)[i][1] = CallsHeard(b)[i][1] /\ IsPrefix(CallsHeard(a)[i][2], CallsHeard(b)[i][2])

LEMMA CallsHeardIs ==
  ASSUME NEW a \in Seq(Items)
  PROVE  /\ Len(CallsHeard(a)) = Len(CallsOf(a)) /\ Len(CallsOf(a)) \in Nat
         /\ DOMAIN CallsHeard(a) = 1..Len(CallsOf(a))
         /\ \A i \in 1..Len(CallsOf(a)) : /\ CallsHeard(a)[i][1] = CallsOf(a)[i].id
                                          /\ CallsHeard(a)[i][2] = CallsOf(a)[i].parts
<1>1. CallsOf(a) \in Seq(Items)
  BY SaidTyped
<1>. QED
  BY <1>1 DEF CallsHeard

LEMMA BeginningEchoes ==
  ASSUME NEW a \in Seq(Items), NEW b \in Seq(Items), BeginningOf(a, b)
  PROVE  Echoes(a, b)
<1>1. /\ Len(CallsHeard(a)) = Len(CallsOf(a)) /\ Len(CallsHeard(b)) = Len(CallsOf(b))
      /\ Len(CallsOf(a)) \in Nat /\ Len(CallsOf(b)) \in Nat
      /\ DOMAIN CallsHeard(a) = 1..Len(CallsOf(a))
  BY CallsHeardIs
<1>2. ASSUME NEW i \in 1..Len(CallsOf(a))
      PROVE  /\ CallsHeard(a)[i][1] = CallsHeard(b)[i][1]
             /\ IsPrefix(CallsHeard(a)[i][2], CallsHeard(b)[i][2])
  <2>1. i \in 1..Len(CallsOf(b))
    BY <1>1 DEF BeginningOf
  <2>2. /\ CallsHeard(a)[i][1] = CallsOf(a)[i].id /\ CallsHeard(a)[i][2] = CallsOf(a)[i].parts
        /\ CallsHeard(b)[i][1] = CallsOf(b)[i].id /\ CallsHeard(b)[i][2] = CallsOf(b)[i].parts
    BY <2>1, CallsHeardIs
  <2>. QED
    BY <2>2 DEF BeginningOf
<1>. QED
  BY <1>1, <1>2 DEF Echoes, BeginningOf

LEMMA NothingBegins ==
  ASSUME NEW b \in Seq(Items)
  PROVE  BeginningOf(<<>>, b)
<1>1. Spoken(<<>>) = <<>> /\ CallsOf(<<>>) = <<>>
  BY NothingSaid
<1>2. Spoken(b) \in Seq(Nat) /\ Len(CallsOf(b)) \in Nat
  BY SaidTyped
<1>3. IsPrefix(<<>>, Spoken(b))
  <2>. DEFINE s == Spoken(b)
  <2>1. s \in Seq(Nat)
    BY <1>2
  <2>. HIDE DEF s
  <2>2. <<>> \o s = s /\ <<>> \in Seq(Nat)
    BY <2>1
  <2>3. IsPrefix(<<>>, <<>> \o s)
    BY <2>1, <2>2, PrefixOf
  <2>. QED
    BY <2>2, <2>3 DEF s
<1>. QED
  BY <1>1, <1>2, <1>3 DEF BeginningOf

(* Numbered replies of the same content have the same calls. *)
LEMMA SameAlike ==
  ASSUME NEW a \in Seq(Items), NEW b \in Seq(Items), Numbered(a), Numbered(b), Content(a) = Content(b)
  PROVE  BeginningOf(a, b)
<1>1. Spoken(a) = Spoken(b) /\ CallsHeard(a) = CallsHeard(b)
  BY SameHeard
<1>2. /\ Len(CallsHeard(a)) = Len(CallsOf(a)) /\ Len(CallsHeard(b)) = Len(CallsOf(b))
      /\ \A i \in 1..Len(CallsOf(a)) : /\ CallsHeard(a)[i][1] = CallsOf(a)[i].id
                                       /\ CallsHeard(a)[i][2] = CallsOf(a)[i].parts
      /\ \A i \in 1..Len(CallsOf(b)) : /\ CallsHeard(b)[i][1] = CallsOf(b)[i].id
                                       /\ CallsHeard(b)[i][2] = CallsOf(b)[i].parts
  BY CallsHeardIs
<1>3. Len(CallsOf(a)) = Len(CallsOf(b))
  BY <1>1, <1>2
<1>4. CallsAlike(a, b)
  BY <1>1, <1>2, <1>3 DEF CallsAlike
<1>. QED
  BY <1>1, <1>4, BeginningAlike

LEMMA TalkingHeard == Talking /\ Faithful(ask.shape) => HeardIsSaid
<1>. SUFFICES ASSUME Talking, Faithful(ask.shape) PROVE HeardIsSaid
  OBVIOUS
<1>. SUFFICES /\ Echoes(heard.items, up.said)
              /\ Finished => /\ Spoken(heard.items) = Spoken(up.said)
                             /\ ~TextOnly => CallsHeard(heard.items) = CallsHeard(up.said)
  BY DEF HeardIsSaid, Echoes
<1>1. up.said \in Seq(Items) /\ Numbered(up.said) /\ phase \in {"asking", "sent", "replying", "ended"}
  BY DEF Talking, UpTyped, SaidIn
<1>. DEFINE said == up.said
<1>2. ASSUME heard.items = <<>> PROVE Echoes(heard.items, up.said)
  <2>1. BeginningOf(<<>>, said) /\ <<>> \in Seq(Items)
    BY <1>1, NothingBegins
  <2>. QED
    BY <1>1, <1>2, <2>1, BeginningEchoes
<1>3. CASE phase \in {"asking", "sent"}
  <2>1. heard.items = <<>>
    BY <1>3, NothingNow DEF Talking, Fresh
  <2>. QED
    BY <1>2, <1>3, <2>1 DEF Finished
<1>4. CASE phase \in {"replying", "ended"} /\ ask.streamed
  <2>1. PICK w, d : InAccord(w, d)
    BY <1>4, StreamingIs
  <2>. DEFINE now == heard.items
  <2>. DEFINE has == d.items
  <2>2. /\ now \in Seq(Items) /\ has \in Seq(Items) /\ Numbered(has)
        /\ BeginningOf(now, has) /\ Content(has) = Content(said)
    BY <2>1, HeardNow DEF InAccord, Tells, Whole, Good
  <2>3. Finished => now = has
    BY <1>4, <2>1, StreamingIs, HeardNow DEF InAccord, Streaming, Finished
  <2>4. said \in Seq(Items) /\ Numbered(said)
    BY <1>1
  <2>. HIDE DEF now, has, said
  <2>5. BeginningOf(has, said) /\ Spoken(has) = Spoken(said) /\ CallsHeard(has) = CallsHeard(said)
    BY <2>2, <2>4, SameAlike, SameHeard
  <2>6. BeginningOf(now, said)
    BY <2>2, <2>4, <2>5, BeginningTransitive
  <2>7. Echoes(now, said)
    BY <2>2, <2>4, <2>6, BeginningEchoes
  <2>. QED
    BY <2>3, <2>5, <2>7 DEF now, said
<1>5. CASE phase \in {"replying", "ended"} /\ ~ask.streamed
  <2>1. Collecting
    BY <1>5 DEF Talking
  <2>2. CASE phase = "replying" \/ heard.body # "clean"
    <3>1. heard.items = <<>> /\ ~Finished
      BY <1>5, <2>1, <2>2, NothingNow DEF Collecting, Finished
    <3>. QED
      BY <1>2, <3>1
  <2>3. CASE phase = "ended" /\ heard.body = "clean"
    <3>1. /\ Spoken(heard.items) = Spoken(said)
          /\ CallsHeard(heard.items) = IF TextOnly THEN <<>> ELSE CallsHeard(said)
      BY <2>1, <2>3 DEF Collecting
    <3>2. said \in Seq(Items)
      BY <1>1
    <3>. HIDE DEF said
    <3>3. Spoken(said) \in Seq(Nat) /\ CallsOf(said) \in Seq(Items)
      BY <3>2, SaidTyped
    <3>4. IsPrefix(Spoken(said), Spoken(said))
      BY <3>3, PrefixOf
    <3>5. /\ Len(CallsHeard(said)) \in Nat /\ DOMAIN CallsHeard(said) = 1..Len(CallsOf(said))
          /\ \A i \in 1..Len(CallsOf(said)) : CallsHeard(said)[i][2] \in Seq(Nat)
      BY <3>2, CallsHeardIs, SaidTyped
    <3>6. \A i \in 1..Len(CallsOf(said)) : IsPrefix(CallsHeard(said)[i][2], CallsHeard(said)[i][2])
      BY <3>5, PrefixOf
    <3>7. Echoes(heard.items, said)
      <4>1. CASE TextOnly
        <5>1. CallsHeard(heard.items) = <<>>
          BY <3>1, <4>1
        <5>2. Len(<<>>) = 0 /\ DOMAIN <<>> = {}
          OBVIOUS
        <5>. QED
          BY <3>1, <3>4, <3>5, <5>1, <5>2 DEF Echoes
      <4>2. CASE ~TextOnly
        BY <3>1, <3>4, <3>5, <3>6, <4>2 DEF Echoes
      <4>. QED
        BY <4>1, <4>2
    <3>. QED
      BY <3>1, <3>7 DEF said
  <2>. QED
    BY <1>5, <2>1, <2>2, <2>3 DEF Collecting
<1>. QED
  BY <1>1, <1>3, <1>4, <1>5

(* Whatever the dialects of the client and the upstream, the client hears  *)
(* what the upstream says (transform_response, translate_stream): a        *)
(* beginning of it at any moment and all of it at the end; except for a    *)
(* generate reply with several calls, where it is assumed, as              *)
(* ParallelLines says, that there are none.                                *)
THEOREM Heeded == ASSUME ~ParallelLines PROVE Spec => []HeardIsSaid
<1>1. Talking => HeardIsSaid
  BY TalkingHeard DEF Faithful
<1>. QED
  BY <1>1, Conversation, PTL

(* And without that assumption for every upstream but the generate         *)
(* transport (convert_ndjson_stream).                                      *)
THEOREM HeededElsewhere == Spec => [](ask.shape # "cc_generate" => HeardIsSaid)
<1>1. Talking => (ask.shape # "cc_generate" => HeardIsSaid)
  BY TalkingHeard DEF Faithful
<1>. QED
  BY <1>1, Conversation, PTL

-----------------------------------------------------------------------------
(* A streamed reply is a reply.                                            *)
StreamedItems == IF ask.streamed THEN heard.items ELSE <<>>
StreamedWhy == IF ask.streamed THEN heard.why ELSE "none"

(* What a turn of a client's reply is in the abstract reply. *)
Replied(a, v, b, w) ==
  \/ /\ v = "none" /\ Len(b) = Len(a) + 1 /\ IsPrefix(a, b)
     /\ Last(b).kind \in {"text", "call"} /\ Last(b).open /\ w = v
  \/ \E i \in DOMAIN a : /\ v = "none" /\ a[i].open
                         /\ b = [a EXCEPT ![i].parts = b[i].parts]
                         /\ IsPrefix(a[i].parts, b[i].parts) /\ w = v
  \/ \E i \in DOMAIN a : v = "none" /\ a[i].open /\ b = [a EXCEPT ![i].open = FALSE] /\ w = v
  \/ v = "none" /\ w # "none" /\ b = [i \in DOMAIN a |-> [a[i] EXCEPT !.open = FALSE]]
  \/ a = b /\ v = w

LEMMA AddsReplied ==
  ASSUME NEW client, NEW a \in Seq(Items), NEW b, Adds(client, a, b)
  PROVE  Replied(a, "none", b, "none")
<1>1. PICK x \in Items : b = Append(a, x) /\ x.open
  BY DEF Adds
<1>2. Len(b) = Len(a) + 1 /\ b[Len(a) + 1] = x /\ b \in Seq(Items) /\ Len(a) \in Nat
  BY <1>1
<1>3. \A i \in 1..Len(a) : b[i] = a[i]
  BY <1>1
<1>4. IsPrefix(a, b)
  <2>1. Len(a) <= Len(b)
    BY <1>2
  <2>2. SubSeq(a, 1, Len(a)) = SubSeq(b, 1, Len(a))
    BY <1>2, <1>3
  <2>. QED
    BY <2>1, <2>2 DEF IsPrefix
<1>5. Last(b) = x
  BY <1>2 DEF Last
<1>6. x.kind \in {"text", "call"}
  BY ItemParts
<1>. QED
  BY <1>1, <1>2, <1>4, <1>5, <1>6 DEF Replied

LEMMA LengthensReplied ==
  ASSUME NEW a \in Seq(Items), NEW b, Lengthens(a, b)
  PROVE  Replied(a, "none", b, "none")
<1>1. PICK k \in 1..Len(a), args \in Seq(Nat) : b = Extend(a, k, args) /\ a[k].open
  BY DEF Lengthens
<1>2. Longer(a, k, args, b)
  BY <1>1, ExtendIs
<1>3. IsPrefix(a[k].parts, b[k].parts)
  BY <1>1, <1>2, LongerParts
<1>4. b = [a EXCEPT ![k].parts = b[k].parts]
  <2>1. b = [a EXCEPT ![k].parts = a[k].parts \o args]
    BY <1>1 DEF Extend
  <2>2. b[k].parts = a[k].parts \o args
    BY <1>2 DEF Longer
  <2>. QED
    BY <2>1, <2>2
<1>5. k \in DOMAIN a
  OBVIOUS
<1>. QED
  BY <1>1, <1>3, <1>4, <1>5 DEF Replied

LEMMA TurnReplied ==
  ASSUME NEW client, NEW a \in Seq(Items), NEW v, NEW b, NEW w, Turn(client, a, v, b, w)
  PROVE  Replied(a, v, b, w)
<1>1. CASE a = b /\ v = w
  BY <1>1 DEF Replied
<1>2. CASE v = "none" /\ w = "none" /\ Adds(client, a, b)
  BY <1>2, AddsReplied
<1>3. CASE v = "none" /\ w = "none" /\ Lengthens(a, b)
  BY <1>3, LengthensReplied
<1>4. CASE v = "none" /\ w = "none" /\ Shuts(a, b)
  <2>1. PICK k \in 1..Len(a) : b = Shut(a, k) /\ a[k].open
    BY <1>4 DEF Shuts
  <2>2. b = [a EXCEPT ![k].open = FALSE] /\ k \in DOMAIN a
    BY <2>1 DEF Shut
  <2>. QED
    BY <1>4, <2>1, <2>2 DEF Replied
<1>5. CASE v = "none" /\ w # "none" /\ b = AllShut(a)
  <2>1. b = [i \in DOMAIN a |-> [a[i] EXCEPT !.open = FALSE]]
    BY <1>5 DEF AllShut
  <2>. QED
    BY <1>5, <2>1 DEF Replied
<1>6. CASE v = "none" /\ w # "none" /\ b = a /\ \A i \in 1..Len(a) : ~a[i].open
  <2>1. ASSUME NEW i \in 1..Len(a) PROVE [a[i] EXCEPT !.open = FALSE] = a[i]
    <3>1. a[i] \in Items
      OBVIOUS
    <3>2. a[i].open = FALSE
      BY <1>6, <3>1, ItemParts
    <3>3. a[i] = [at |-> a[i].at, kind |-> a[i].kind, id |-> a[i].id, parts |-> a[i].parts, open |-> a[i].open]
      BY <3>1, ItemParts
    <3>. DEFINE y == [a[i] EXCEPT !.open = FALSE]
    <3>4. y = [at |-> a[i].at, kind |-> a[i].kind, id |-> a[i].id, parts |-> a[i].parts, open |-> FALSE]
      BY <3>1, ItemShut
    <3>. QED
      BY <3>2, <3>3, <3>4
  <2>2. a = [i \in 1..Len(a) |-> a[i]]
    OBVIOUS
  <2>3. b = [i \in DOMAIN a |-> [a[i] EXCEPT !.open = FALSE]]
    BY <1>6, <2>1, <2>2
  <2>. QED
    BY <1>6, <2>3 DEF Replied
<1>. QED
  BY <1>1, <1>2, <1>3, <1>4, <1>5, <1>6 DEF Turn

LEMMA RepliedStep ==
  Replied(StreamedItems, StreamedWhy, StreamedItems', StreamedWhy') =>
    [Streamed!Next]_(Streamed!vars)
BY DEF Replied, StreamedItems, StreamedWhy, Streamed!Next, Streamed!vars, Streamed!Begin, Streamed!Kinds,
       Streamed!Grow, Streamed!Close, Streamed!Conclude, Streamed!IsPrefix, Streamed!Last, IsPrefix, Last

-----------------------------------------------------------------------------
LEMMA RepliedAlike ==
  ASSUME UNCHANGED <<StreamedItems, StreamedWhy>>
  PROVE  [Streamed!Next]_(Streamed!vars)
BY DEF StreamedItems, StreamedWhy, Streamed!vars

\* The reason is given only where every item is closed, but for the Chat dialect.
ClosesFirst ==
  ask.streamed /\ ask.client # "chat" /\ heard'.why # heard.why => Streamed!ConcludeClosed

LEMMA TakesReplied ==
  ASSUME ExchangeIInv, Talking, Takes
  PROVE  [Streamed!Next]_(Streamed!vars) /\ ClosesFirst
<1>. DEFINE h == Hear(ask.client, NowHeard, Head(queue))
<1>1. phase = "replying" /\ queue # <<>> /\ UNCHANGED ask
  BY DEF Takes
<1>2. heard' = [heard EXCEPT !.items = h.items, !.why = h.why]
  BY DEF Takes, NowHeard, Heard
<1>3. ask.streamed
  BY <1>1 DEF Talking, Collecting, AskShape
<1>4. PICK w, d : OnItsWay(w, d)
  BY <1>1, <1>3 DEF Talking, Streaming
<1>5. /\ Whole(ask.client, NowHeard) /\ Road(ask.client, NowHeard, queue, d)
  BY <1>4 DEF OnItsWay
<1>6. Fits(ask.client, NowHeard.items, NowHeard.why, Head(queue))
  BY <1>1, <1>5, RoadTakes
<1>7. Turn(ask.client, NowHeard.items, NowHeard.why, h.items, h.why)
  BY <1>5, <1>6, HearKeeps
<1>. HIDE DEF h
<1>8. heard'.items = h.items /\ heard'.why = h.why
  <2>. DEFINE a == h.items
  <2>. DEFINE b == h.why
  <2>1. heard' = [heard EXCEPT !.items = a, !.why = b] /\ HeardShape
    BY <1>2 DEF ExchangeIInv, Shaped
  <2>. HIDE DEF a, b
  <2>2. heard'.items = a /\ heard'.why = b
    BY <2>1 DEF HeardShape
  <2>. QED
    BY <2>2 DEF a, b
<1>9. Turn(ask.client, heard.items, heard.why, heard'.items, heard'.why) /\ heard.items \in Seq(Items)
  BY <1>5, <1>7, <1>8, HeardNow DEF Whole, Good
<1>10. Replied(heard.items, heard.why, heard'.items, heard'.why)
  <2>. DEFINE client == ask.client
  <2>. DEFINE a == heard.items
  <2>. DEFINE v == heard.why
  <2>. DEFINE b == heard'.items
  <2>. DEFINE x == heard'.why
  <2>1. Turn(client, a, v, b, x) /\ a \in Seq(Items)
    BY <1>9
  <2>. HIDE DEF client, a, v, b, x
  <2>2. Replied(a, v, b, x)
    BY <2>1, TurnReplied
  <2>. QED
    BY <2>2 DEF a, v, b, x
<1>11. [Streamed!Next]_(Streamed!vars)
  <2>1. /\ StreamedItems = heard.items /\ StreamedItems' = heard'.items
        /\ StreamedWhy = heard.why /\ StreamedWhy' = heard'.why
    BY <1>1, <1>3 DEF StreamedItems, StreamedWhy
  <2>2. Replied(StreamedItems, StreamedWhy, StreamedItems', StreamedWhy')
    BY <1>10, <2>1
  <2>. QED
    BY <2>2, RepliedStep
<1>12. ASSUME ask.client # "chat", heard'.why # heard.why PROVE Streamed!ConcludeClosed
  <2>1. /\ heard.why = "none" /\ heard'.why # "none" /\ heard'.items = heard.items
        /\ \A i \in 1..Len(heard.items) : ~heard.items[i].open
    BY <1>9, <1>12 DEF Turn
  <2>. DEFINE a == heard.items
  <2>2. a = [i \in DOMAIN a |-> [a[i] EXCEPT !.open = FALSE]] /\ DOMAIN a = 1..Len(a)
    <3>1. a \in Seq(Items) /\ \A i \in 1..Len(a) : ~a[i].open
      BY <1>9, <2>1
    <3>. HIDE DEF a
    <3>2. ASSUME NEW i \in 1..Len(a) PROVE [a[i] EXCEPT !.open = FALSE] = a[i]
      <4>1. a[i] \in Items
        BY <3>1
      <4>2. a[i].open = FALSE
        BY <3>1, <4>1, ItemParts
      <4>3. a[i] = [at |-> a[i].at, kind |-> a[i].kind, id |-> a[i].id, parts |-> a[i].parts, open |-> a[i].open]
        BY <4>1, ItemParts
      <4>. DEFINE y == [a[i] EXCEPT !.open = FALSE]
      <4>4. y = [at |-> a[i].at, kind |-> a[i].kind, id |-> a[i].id, parts |-> a[i].parts, open |-> FALSE]
        BY <4>1, ItemShut
      <4>. QED
        BY <4>2, <4>3, <4>4
    <3>3. a = [i \in 1..Len(a) |-> a[i]] /\ DOMAIN a = 1..Len(a)
      BY <3>1
    <3>. QED
      BY <3>2, <3>3
  <2>3. heard'.items = [i \in DOMAIN a |-> [a[i] EXCEPT !.open = FALSE]]
    BY <2>1, <2>2
  <2>. QED
    BY <1>1, <1>3, <2>1, <2>2, <2>3 DEF Streamed!ConcludeClosed, Streamed!Conclude
<1>. QED
  BY <1>11, <1>12 DEF ClosesFirst

LEMMA NextReplied ==
  ASSUME ExchangeIInv, Talking, [Next]_vars
  PROVE  [Streamed!Next]_(Streamed!vars) /\ ClosesFirst
<1>1. CASE Send
  BY <1>1, RepliedAlike DEF Send, StreamedItems, StreamedWhy, ClosesFirst
<1>2. CASE Answer
  <2>1. heard.items = <<>> /\ heard.why = "none" /\ UNCHANGED heard
    BY <1>2, NothingNow DEF Talking, Fresh, Answer
  <2>. QED
    BY <2>1, RepliedAlike DEF StreamedItems, StreamedWhy, ClosesFirst
<1>3. CASE Begins \/ SaysText \/ SaysError \/ OpensBlock \/ ClosesBlock \/ SaysCall
             \/ SaysArguments \/ ArgumentsDone \/ Finishes \/ SaysUsage \/ Stops
  <2>1. UNCHANGED <<ask, heard>>
    BY <1>3 DEF Begins, SaysText, SaysError, OpensBlock, ClosesBlock, SaysCall, SaysArguments,
                ArgumentsDone, Finishes, SaysUsage, Stops
  <2>. QED
    BY <2>1, RepliedAlike DEF StreamedItems, StreamedWhy, ClosesFirst
<1>4. CASE Takes
  BY <1>4, TakesReplied
<1>5. CASE BodyEnds \/ Leaves
  <2>1. UNCHANGED ask /\ \E body : heard' = [heard EXCEPT !.body = body]
    BY <1>5 DEF BodyEnds, Leaves
  <2>2. heard'.items = heard.items /\ heard'.why = heard.why
    BY <2>1 DEF ExchangeIInv, Shaped, HeardShape
  <2>. QED
    BY <2>1, <2>2, RepliedAlike DEF StreamedItems, StreamedWhy, ClosesFirst
<1>6. CASE Buffered \/ NoReply
  <2>1. ~ask.streamed /\ UNCHANGED ask
    BY <1>6 DEF Buffered, NoReply
  <2>. QED
    BY <2>1, RepliedAlike DEF StreamedItems, StreamedWhy, ClosesFirst
<1>7. CASE Rests \/ UNCHANGED vars
  <2>1. UNCHANGED <<ask, heard>>
    BY <1>7 DEF Rests, vars
  <2>. QED
    BY <2>1, RepliedAlike DEF StreamedItems, StreamedWhy, ClosesFirst
<1>. QED
  BY <1>1, <1>2, <1>3, <1>4, <1>5, <1>6, <1>7 DEF Next

(* Whatever is translated (openai_chunk_to_claude_events,                  *)
(* StreamState::feed), a streamed reply is a reply to its client: items    *)
(* begin, grow and are closed in order, and one reason ends them.          *)
THEOREM Replies == Spec => IsReply
<1>1. Init => Streamed!Init
  <2>. SUFFICES ASSUME Init PROVE Streamed!Init
    OBVIOUS
  <2>1. heard.items = <<>> /\ heard.why = "none"
    BY NothingNow DEF Init
  <2>. QED
    BY <2>1 DEF Streamed!Init
<1>2. ExchangeIInv /\ Talking /\ [Next]_vars => [Streamed!Next]_(Streamed!vars)
  BY NextReplied
<1>3. ExchangeIInv /\ Talking /\ [Next]_vars =>
        [ask.streamed /\ ask.client # "chat" /\ heard'.why # heard.why => Streamed!ConcludeClosed]_vars
  BY NextReplied DEF ClosesFirst
<1>. QED
  BY <1>1, <1>2, <1>3, Conversation, PTL DEF Spec, IsReply, ClosedFirst, Streamed!Spec
=============================================================================
