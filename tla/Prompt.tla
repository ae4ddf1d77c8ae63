------------------------------- MODULE Prompt -------------------------------
(***************************************************************************)
(* providers/openai.go and providers/anthropic.go, the conversions: from   *)
(* the messages of an agent state to the request of a model service, from  *)
(* its reply to a message, and from a line of its event stream to token    *)
(* deltas.  A text that was concatenated is the sequence of its non-empty  *)
(* pieces, the arguments of a tool call are one value.                     *)
(***************************************************************************)
EXTENDS Naturals, Sequences, SequencesExt

\* core.Part: id is CallID, text is Text, Arguments or Result.
Text(t)          == [type |-> "Text", id |-> "", text |-> t]
ToolCall(id, a)  == [type |-> "ToolCall", id |-> id, text |-> a]
ToolResult(id, r) == [type |-> "ToolResult", id |-> id, text |-> r]

\* The elements of a sequence at some positions, in their order.
Among(s, positions) ==
    FlattenSeq([i \in DOMAIN s |-> IF i \in positions THEN <<s[i]>> ELSE <<>>])

OfType(parts, t) == Among(parts, {i \in DOMAIN parts : parts[i].type = t})

\* The pieces of text of some parts, without the empty ones.
Pieces(parts) ==
    Among([i \in DOMAIN parts |-> parts[i].text],
          {i \in DOMAIN parts : parts[i].type = "Text" /\ parts[i].text # ""})

\* The parts a message of each role may have.
Validate(m) ==
    \A p \in ToSet(m.parts) :
        /\ m.role = "Tool" => p.type = "ToolResult"
        /\ m.role = "Assistant" => p.type # "ToolResult"
        /\ m.role = "System" => p.type = "Text"
        /\ m.role = "User" => p.type \notin {"ToolCall", "ToolResult"}

RoleNames == [User |-> "user", Assistant |-> "assistant",
              System |-> "system", Tool |-> "tool"]

mapRole(r) == IF r \in DOMAIN RoleNames THEN RoleNames[r] ELSE "unknown"

\* Arguments the model sent garbled become nil, which is sent back as "null".
ParseArgs(a) == IF a = "garbled" THEN "null" ELSE a
-----------------------------------------------------------------------------
(* OpenAI *)

\* One request message.  Of several tool results only the last one is kept, and
\* its text, unless empty, takes the place of the message's own.
mapMessage(m) ==
    LET results == OfType(m.parts, "ToolResult")
        last    == IF results = <<>> THEN ToolResult("", "") ELSE Last(results)
    IN [role       |-> mapRole(m.role),
        toolCalls  |-> OfType(m.parts, "ToolCall"),
        toolCallID |-> last.id,
        content    |-> IF last.text # "" THEN <<last.text>>
                       ELSE Pieces(m.parts)]

\* Mutant: messages without text are left out of the request.
mapMessagesNonEmpty(msgs, sysPrompt) ==
    LET mapped == [i \in DOMAIN msgs |-> mapMessage(msgs[i])]
    IN Among(mapped, {i \in DOMAIN msgs : /\ mapRole(msgs[i].role) # "unknown"
                                          /\ mapped[i].content # <<>>})

mapMessages(msgs, sysPrompt) ==
    LET system == [role |-> "system", toolCalls |-> <<>>, toolCallID |-> "",
                   content |-> <<sysPrompt>>]
    IN (IF sysPrompt = "" THEN <<>> ELSE <<system>>)
         \o Among([i \in DOMAIN msgs |-> mapMessage(msgs[i])],
                  {i \in DOMAIN msgs : mapRole(msgs[i].role) # "unknown"})

\* buildRequestInfo.  tools is the variable "tools"; typed says whether it is
\* still the []interfaces.Tool a node put there.  A state that was saved and
\* loaded holds decoded JSON instead, and the assertion fails silently.
OpenAIRequest(msgs, sysPrompt, tools, typed) ==
    [messages |-> mapMessages(msgs, sysPrompt),
     system   |-> "",
     tools    |-> IF typed THEN tools ELSE {}]

\* mapResponse: the text first, then the tool calls.
OpenAIResponse(choice) ==
    (IF choice.content = "" THEN <<>> ELSE <<Text(choice.content)>>)
      \o [i \in DOMAIN choice.toolCalls |->
            ToolCall(choice.toolCalls[i].id, ParseArgs(choice.toolCalls[i].text))]

\* The deltas of one line of the stream.  Only the first tool call of a chunk is
\* passed on, and of a call that carries its name only the header.
OpenAIDeltas(line) ==
    LET call == Head(line.calls)
    IN CASE line.event = "[DONE]" -> <<[type |-> "Done", content |-> <<>>]>>
         [] line.event = "chunk"  ->
              (IF line.text = "" THEN <<>>
               ELSE <<[type |-> "Text", content |-> <<line.text>>]>>)
              \o (IF line.calls = <<>> THEN <<>>
                  ELSE <<[type |-> "ToolCall",
                          content |-> IF call.name # "" THEN <<"header", call.name>>
                                      ELSE <<call.args>>]>>)
         [] OTHER -> <<>>    \* no "data: " prefix, no JSON, no choices
-----------------------------------------------------------------------------
(* Anthropic *)

\* One request message; tool messages become user messages.
AnthropicMessage(m) ==
    [role    |-> IF m.role = "Tool" THEN "user" ELSE mapRole(m.role),
     content |-> Among(m.parts, {i \in DOMAIN m.parts :
                                    m.parts[i].type \in {"Text", "ToolCall", "ToolResult"}})]

\* System messages go to the field of their own, which only the variable
\* "system_prompt" fills; messages none of whose parts is known are left out.
AnthropicMessages(msgs) ==
    LET mapped == [i \in DOMAIN msgs |-> AnthropicMessage(msgs[i])]
    IN Among(mapped, {i \in DOMAIN msgs : /\ mapRole(msgs[i].role) \notin {"unknown", "system"}
                                          /\ mapped[i].content # <<>>})

AnthropicRequest(msgs, sysPrompt, tools, typed) ==
    [messages |-> AnthropicMessages(msgs),
     system   |-> sysPrompt,
     tools    |-> IF typed THEN tools ELSE {}]

\* Blocks in the order of the reply; blocks of another type are skipped.
AnthropicResponse(blocks) ==
    Among([i \in DOMAIN blocks |->
             IF blocks[i].type = "Text" THEN blocks[i]
             ELSE ToolCall(blocks[i].id, ParseArgs(blocks[i].text))],
          {i \in DOMAIN blocks : blocks[i].type \in {"Text", "ToolCall"}})

AnthropicDeltas(line) ==
    CASE line.event = "text_delta"       -> <<[type |-> "Text", content |-> <<line.text>>]>>
      [] line.event = "input_json_delta" -> <<[type |-> "ToolCall", content |-> <<line.text>>]>>
      [] line.event = "content_block_start" /\ line.text # "" ->
            <<[type |-> "ToolCall", content |-> <<"header", line.text>>]>>
      [] line.event = "message_stop"     -> <<[type |-> "Done", content |-> <<>>]>>
      [] OTHER -> <<>>
=============================================================================
