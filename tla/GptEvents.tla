----------------------------- MODULE GptEvents ------------------------------
(***************************************************************************)
(* The events of a ChatGPT conversation stream and what is remembered of    *)
(* them (services/providers/gpt/runtime.py, ConversationState).  A text is  *)
(* a sequence of words, an image id is [kind, of]: a file or a sediment.    *)
(***************************************************************************)
EXTENDS Naturals, Sequences, SequencesExt

\* A payload: the text it carries, the ids that are written in it, and the set of
\* what else it says of the turn.
Payload(kind, words, ids, says) == [kind |-> kind, words |-> words, ids |-> ids, says |-> says]

Remembered(text, ids, blocked, tool, useCase) ==
    [text |-> text, ids |-> ids, blocked |-> blocked, tool |-> tool, useCase |-> useCase]
ConversationState == Remembered(<<>>, {}, FALSE, FALSE, FALSE)
WithText(state, text) == Remembered(text, state.ids, state.blocked, state.tool, state.useCase)

\* strip_history: a text may begin with all that the assistant said before, more
\* than once; every copy at its beginning goes.
HistoryText(history) == FlattenSeq(history)
Copies(words, said) ==
    {k \in 0 .. Len(words) :
        \A j \in 0 .. k - 1 : IsPrefix(said, SubSeq(words, j * Len(said) + 1, Len(words)))}
Stripped(words, said) ==
    IF said = <<>> THEN words
    ELSE SubSeq(words, Max(Copies(words, said)) * Len(said) + 1, Len(words))

\* assistant_text: a message replaces the text, a patch appends to it.
NextText(state, p, history) ==
    IF p.kind = "message" /\ p.words # <<>> THEN Stripped(p.words, HistoryText(history))
    ELSE IF p.kind = "append" THEN state.text \o p.words ELSE state.text

\* event_assistant_text equals the message of the history that is due.
Replays(p, history, replayed) ==
    /\ p.kind = "message" /\ replayed < Len(history)
    /\ Stripped(p.words, HistoryText(history)) = history[replayed + 1]

Delta(state, next) ==
    IF IsPrefix(state.text, next) THEN SubSeq(next, Len(state.text) + 1, Len(next)) ELSE next

\* Mutant: every id is taken for an image, wherever it is written.
ImageContextAny(state, p) == TRUE

\* The ids of a payload count when a tool writes them, or a patch of its message,
\* or when the turn is known to have invoked a tool.
ImageContext(state, p) == p.kind \in {"tool", "patch"} \/ state.tool

UpdateConversationState(state, p) ==
    Remembered(state.text,
          state.ids \cup (IF ImageContext(state, p) THEN p.ids ELSE {}),
          state.blocked \/ (p.kind = "moderation" /\ "blocked" \in p.says),
          IF p.kind = "metadata" THEN "tool" \in p.says ELSE state.tool,
          IF p.kind = "metadata" THEN "image_gen" \in p.says ELSE state.useCase)
=============================================================================
