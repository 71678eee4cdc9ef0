------------------------------ MODULE Providers ------------------------------
(***************************************************************************)
(* Calls to language models: how a request is written for the provider,    *)
(* what is sent again without a feature the provider refuses, how its      *)
(* events become chunks, and which model of the chain answers.             *)
(***************************************************************************)
EXTENDS Integers, SequencesExt

CONSTANTS
  Model, NoModel,         \* models of the configuration, and no fallback
  Config,                 \* of each: [provider, api, name, server, fallback]
  FakeOnly                \* during load tests no real provider may be called

ASSUME ConfigAssumption ==
  NoModel \notin Model /\ DOMAIN Config = Model /\ FakeOnly \in BOOLEAN
-----------------------------------------------------------------------------
(* Errors.  An SDK error is [class, status, about].                        *)

ByStatus(status) ==
  CASE status = 429 -> "rate limit"
    [] status \in {500, 502} -> "server"
    [] status = 503 -> "unavailable"
    [] OTHER -> "error"

BadRequest(about) ==
  CASE about = "encrypted content" -> "replay"
    [] about = "summary" -> "feature"
    [] about = "length" -> "context length"
    [] about = "policy" -> "content filter"
    [] OTHER -> "invalid request"

OpenaiKind ==
  [RateLimitError |-> "rate limit", AuthenticationError |-> "authentication",
   PermissionDeniedError |-> "permission", NotFoundError |-> "not found",
   APITimeoutError |-> "timeout", APIConnectionError |-> "connection"]

MapOpenaiError(e) ==
  CASE e.class = "BadRequestError" -> BadRequest(e.about)
    [] e.class = "InternalServerError" ->
         IF e.status = 503 THEN "unavailable" ELSE "server"
    [] e.class = "APIStatusError" -> ByStatus(e.status)
    [] e.class \in DOMAIN OpenaiKind -> OpenaiKind[e.class]
    [] OTHER -> "error"

\* Of an error in the body of an answer there is only a code.
MapResponseError(code) ==
  CASE code = "rate_limit_exceeded" -> "rate limit"
    [] code = "invalid_prompt" -> "invalid request"
    [] OTHER -> "server"

GoogleKind ==
  [ResourceExhausted |-> "rate limit", Unauthenticated |-> "authentication",
   PermissionDenied |-> "permission", NotFound |-> "not found",
   DeadlineExceeded |-> "timeout", ServiceUnavailable |-> "unavailable",
   InternalServerError |-> "server"]

MapGoogleError(e) ==
  CASE e.class = "InvalidArgument" ->
         IF e.about = "length" THEN "context length" ELSE "invalid request"
    [] e.class \in DOMAIN GoogleKind -> GoogleKind[e.class]
    [] OTHER -> "error"
-----------------------------------------------------------------------------
(* The Responses API.                                                      *)

\* The model's own items of a message stand for its calls, for that model only,
\* and only when a call is among them.
Replayable(m, model) ==
  LET own == SelectSeq(m.opaque, LAMBDA o : o.model = model)
  IN  IF \E o \in ToSet(own) : o.kind = "call" THEN own ELSE <<>>

SerializeInput(messages, model, replay) ==
  LET Items(m) ==
        CASE m.role = "assistant" /\ m.calls # <<>> ->
               LET own == IF replay THEN Replayable(m, model) ELSE <<>>
               IN  IF own # <<>> THEN [i \in DOMAIN own |-> [kind |-> own[i].kind, id |-> own[i].id]]
                   ELSE [i \in DOMAIN m.calls |-> [kind |-> "call", id |-> m.calls[i]]]
          [] m.role = "tool" -> <<[kind |-> "output", id |-> m.call]>>
          [] OTHER -> <<[kind |-> m.role, id |-> ""]>>
  IN  FlattenSeq([i \in DOMAIN messages |-> Items(messages[i])])

\* The requests sent, given the error each is answered with ("" for none).
\* That an account has no summaries is remembered by the process: off.
Create(off, asked, errors) ==
  LET Send(s, error) ==
        LET summary == asked /\ ~s.off
            refused == error = "feature" /\ summary
            rejected == error = "replay" /\ s.replay
        IN  IF s.over THEN s
            ELSE [off |-> s.off \/ refused, replay |-> s.replay /\ ~rejected,
                  sent |-> Append(s.sent, [summary |-> summary, replay |-> s.replay]),
                  over |-> ~(refused \/ rejected), error |-> error]
  IN  FoldLeft(Send, [off |-> off, replay |-> TRUE, sent |-> <<>>, over |-> FALSE, error |-> ""],
               errors)

\* A finished response: the calls kept are the finished ones, and what is
\* replayed later is exactly those, with the reasoning between them.
ParseResponse(resp, model) ==
  LET kept == SelectSeq(resp.items, LAMBDA i : i.kind = "reasoning" \/ (i.kind = "call" /\ i.done))
      calls == SelectSeq(kept, LAMBDA i : i.kind = "call")
      refused == \E i \in ToSet(resp.items) : i.kind = "refusal"
  IN  [raised |-> resp.status = "failed",
       opaque |-> [i \in DOMAIN kept |-> [model |-> model, kind |-> kept[i].kind, id |-> kept[i].id]],
       calls |-> [i \in DOMAIN calls |-> calls[i].id],
       finish |-> CASE resp.status = "incomplete" -> resp.reason
                    [] resp.status # "incomplete" /\ refused -> "refusal"
                    [] OTHER -> IF calls # <<>> THEN "tool_calls" ELSE "stop"]
-----------------------------------------------------------------------------
(* Streams.  A provider's events are [kind, text, reason]: "text", "stop"   *)
(* (the reason it stopped), "usage", "failed", "raise" (the connection).    *)
(* What becomes of them is [chunks, over, raised], a piece [text, reason].  *)

Piece(text, reason) == [text |-> text, reason |-> reason]
Opened == [chunks |-> <<>>, over |-> FALSE, raised |-> FALSE, reason |-> "", final |-> FALSE]
Yields(s, chunk) == [s EXCEPT !.chunks = Append(@, chunk)]
Raises(s) == [s EXCEPT !.over = TRUE, !.raised = TRUE]

\* Chat Completions: the reason comes before the usage, which some servers do
\* not send; a stream without a reason was cut.
ChatCompletions(events) ==
  LET Take(s, e) ==
        CASE s.over -> s
          [] ~s.over /\ e.kind = "text" -> Yields(s, Piece(e.text, ""))
          [] ~s.over /\ e.kind = "stop" -> [s EXCEPT !.reason = e.reason]
          [] ~s.over /\ e.kind = "usage" ->
               [Yields(s, Piece(<<>>, s.reason)) EXCEPT !.final = TRUE]
          [] OTHER -> Raises(s)
      s == FoldLeft(Take, Opened, events)
  IN  CASE s.over -> s
        [] ~s.over /\ s.reason = "" -> Raises(s)
        [] OTHER -> IF s.final THEN s ELSE Yields(s, Piece(<<>>, s.reason))

\* Responses: only a terminal event ends the answer.
Responses(events) ==
  LET Take(s, e) ==
        CASE s.over -> s
          [] ~s.over /\ e.kind = "text" -> Yields(s, Piece(e.text, ""))
          [] ~s.over /\ e.kind = "stop" ->
               [Yields(s, Piece(<<>>, e.reason)) EXCEPT !.over = TRUE]
          [] ~s.over /\ e.kind \in {"failed", "raise"} -> Raises(s)
          [] OTHER -> s
      s == FoldLeft(Take, Opened, events)
  IN  IF s.over THEN s ELSE Raises(s)

\* Gemini: the events just end; without a usage nothing marks the last chunk.
Gemini(events) ==
  LET Take(s, e) ==
        CASE s.over -> s
          [] ~s.over /\ e.kind = "text" -> Yields(s, Piece(e.text, ""))
          [] ~s.over /\ e.kind = "usage" -> [s EXCEPT !.final = TRUE]
          [] ~s.over /\ e.kind \in {"failed", "raise"} -> Raises(s)
          [] OTHER -> s
      s == FoldLeft(Take, Opened, events)
  IN  IF ~s.over /\ s.final THEN Yields(s, Piece(<<>>, "")) ELSE s

Adapted(api, events) ==
  CASE api = "chat" -> ChatCompletions(events)
    [] api = "responses" -> Responses(events)
    [] OTHER -> Gemini(events)
-----------------------------------------------------------------------------
(* The chain.                                                              *)

Buildable(cfg) ==
  /\ FakeOnly => cfg.provider = "fake"
  /\ cfg.provider \in {"openai", "google", "vllm", "fake"}
  /\ cfg.api = "responses" => cfg.provider = "openai"
  /\ cfg.provider # "fake" => cfg.name
  /\ cfg.provider = "vllm" => cfg.server

\* Which of the streams above an adapter speaks; the fake one has a script.
AdapterApi(cfg) ==
  CASE cfg.provider = "google" -> "gemini"
    [] cfg.provider = "fake" -> "fake"
    [] cfg.provider = "openai" /\ cfg.api = "responses" -> "responses"
    [] OTHER -> "chat"

\* The fallback is built with the model it stands in for.
GetWithFallback(model) ==
  LET chain == IF model \in Model /\ Config[model].fallback \in Model
               THEN <<model, Config[model].fallback>> ELSE <<model>>
  IN  [failed |-> \E m \in ToSet(chain) : m \notin Model \/ ~Buildable(Config[m]),
       chain |-> chain]

\* Mutant: the next model is asked even when the user has read part of an answer.
FallbackAnyTime(streams) ==
  LET Failed(i) == streams[i].raised /\ i < Len(streams)
      served == CHOOSE i \in DOMAIN streams : ~Failed(i) /\ \A k \in 1..i - 1 : Failed(k)
  IN  [served |-> served, raised |-> streams[served].raised,
       chunks |-> FlattenSeq([i \in 1..served |-> streams[i].chunks])]

\* The first model that says anything, or the last one, is the one that serves.
FallbackStream(streams) ==
  LET Failed(i) == streams[i].raised /\ streams[i].chunks = <<>> /\ i < Len(streams)
      served == CHOOSE i \in DOMAIN streams : ~Failed(i) /\ \A k \in 1..i - 1 : Failed(k)
  IN  [served |-> served, raised |-> streams[served].raised, chunks |-> streams[served].chunks]
=============================================================================
