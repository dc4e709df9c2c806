----------------------------- MODULE ToolCalls ------------------------------
(***************************************************************************)
(* The tool calls that services/protocol/tool_calls.py reads from the text  *)
(* of an answer.  A text is a sequence of atoms:                            *)
(*   word, space, think     text, white space, reasoning                    *)
(*   half, mark             the two halves of an opening tag: <tool _call>  *)
(*   fits, misfits, unknown a call and its closing tag: of a tool of the    *)
(*                          request with arguments that meet its schema or  *)
(*                          do not, or of none of its tools                 *)
(*   glob                   a call of Glob where Bash is a tool             *)
(*   garbled                something that no parser reads, and a closing tag*)
(*   unclosed, torn         a call that fits or garbage, the tag stays open *)
(*   json                   a call written as JSON or as name(arguments)    *)
(***************************************************************************)
EXTENDS Selections, FiniteSetsExt, SequencesExt

Bodies  == {"fits", "misfits", "unknown", "glob", "garbled"}
Tails   == {"unclosed", "torn"}
Offered == {"fits", "unclosed", "misfits", "json"}  \* calls of tools of the request

\* Where a tag is opened, and what a tag that is closed again covers.
Opens(t) == {i \in 1 .. Len(t) - 1 : t[i] = "half" /\ t[i + 1] = "mark"}
Marked(t) == UNION {i .. i + 2 : i \in {o \in Opens(t) : o + 2 <= Len(t) /\ t[o + 2] \in Bodies}}

\* What the next atom of an answer can be after t.
Following(t) ==
    LET last == IF t = <<>> THEN "word" ELSE t[Len(t)]
    IN  IF last = "half" THEN {"mark", "word"}
        ELSE IF last = "mark" THEN Bodies \cup Tails
        ELSE IF last \in Tails THEN {}
        ELSE {"word", "space", "half", "json"}

\* parse_tool_calls looks for tags, or what may be one, JSON and name(.
SawToolSyntax(t) == \E i \in DOMAIN t : t[i] \in {"half", "json"}

\* The strict parsers read the calls of any name in closed tags, then in JSON;
\* the loose ones those of tools of the request, in tags that stay open too.
ReadXml(t) ==
    Selected(t, {i \in DOMAIN t : i \in Marked(t) /\ t[i] \in Bodies \ {"garbled"}})
ReadJson(t) == Selected(t, {i \in DOMAIN t : t[i] = "json"})
ReadLoose(t) == Selected(t, {i \in DOMAIN t : t[i] \in Offered})

\* The first parser that reads any call is the one that counts, also when none
\* of its calls is of a tool of the request; without tools nothing is filtered.
ReadCalls(t) ==
    IF ReadXml(t) # <<>> THEN ReadXml(t)
    ELSE IF ReadJson(t) # <<>> THEN ReadJson(t)
    ELSE ReadLoose(t)

\* _parse_glob_as_bash: find instead of Glob, when no other call is left.
GlobAsBash(t) == IF \E i \in DOMAIN t : t[i] = "glob" THEN <<"fits">> ELSE <<>>

OfferedCalls(calls) == Selected(calls, {i \in DOMAIN calls : calls[i] \in Offered})

ParseToolCalls(t) ==
    IF ~SawToolSyntax(t) THEN <<>>
    ELSE LET calls == OfferedCalls(ReadCalls(t))
         IN  IF calls = <<>> THEN GlobAsBash(t) ELSE calls

ParseAnyCalls(t) ==
    IF ~SawToolSyntax(t) THEN <<>>
    ELSE IF ReadXml(t) # <<>> THEN ReadXml(t) ELSE ReadJson(t)

\* Mutant: calls whose arguments do not meet the schema are kept.
RepairNothing(calls) == calls

\* repair_tool_calls: what does not meet the schema of its tool is dropped.
RepairToolCalls(calls) == Selected(calls, {i \in DOMAIN calls : calls[i] # "misfits"})

ParseToolCallsForTools(t) == RepairToolCalls(ParseToolCalls(t))

\* parse_gemini_openai_tool_response: JSON first, nothing when tool_choice is
\* none, and no repair.
ParseGeminiCalls(t, choice) ==
    IF choice = "none" THEN <<>>
    ELSE IF ReadJson(t) # <<>> THEN ReadJson(t)
    ELSE ParseToolCalls(t)

\* strip_tool_markup: closed tags go, with what they hold, and white space at
\* both ends.
Trimmed(t) ==
    LET solid == {i \in DOMAIN t : t[i] # "space"}
    IN  IF solid = {} THEN <<>> ELSE SubSeq(t, Min(solid), Max(solid))

StripToolMarkup(t) == Trimmed(Selected(t, {i \in DOMAIN t : i \notin Marked(t)}))

Plain(t) == IF SawToolSyntax(t) THEN StripToolMarkup(t) ELSE t

\* _streamable_tool_text: the text before the first tag, without a tail that may
\* become one.
Streamable(t) ==
    IF Opens(t) # {} THEN SubSeq(t, 1, Min(Opens(t)) - 1)
    ELSE IF t # <<>> /\ t[Len(t)] = "half" THEN Front(t)
    ELSE t
=============================================================================
