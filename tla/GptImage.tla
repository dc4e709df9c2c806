------------------------------ MODULE GptImage -------------------------------
(***************************************************************************)
(* One image of one account (services/openai_backend_api.py, stream_image_  *)
(* outputs of services/providers/gpt/runtime.py): the references are        *)
(* uploaded, the conversation is streamed under a time limit, and the ids   *)
(* that it or the polled document shows are resolved and downloaded.  The   *)
(* upstream draws while this goes on, and it echoes the references before   *)
(* it tells what it does with them.                                         *)
(***************************************************************************)
EXTENDS GptEvents, FiniteSets

CONSTANTS References, \* ids that uploads are given
          Drawable    \* ids of the images that the upstream may draw

VARIABLES place,    \* where the generation is
          wanted,   \* references of the request
          uploaded, \* references uploaded so far
          turn,     \* what the upstream does: "asked", "echoed", "draws" or "speaks"
          drawn,    \* what it has drawn
          view,     \* the ConversationState, and whether the conversation is known
          sought,   \* ids to resolve
          located,  \* ids with an address, whose images are downloaded
          dead,     \* ids without an address, or with nothing at it
          outcome   \* what the client is told at the end

imageVars == <<place, wanted, uploaded, turn, drawn, view, sought, located, dead, outcome>>

Nothing     == [kind |-> "none", images |-> {}]
Placeholder == [kind |-> "file", of |-> "file_upload"]

\* What is uploaded or drawn is given an id of its own.
ASSUME DrawableAssumption == Placeholder \notin Drawable

Calls == <<"bootstrap", "requirements", "prepare", "start", "streams">>

ImageInit ==
    /\ place = "begins" /\ wanted = {} /\ uploaded = {}
    /\ turn = "asked" /\ drawn = {}
    /\ view = [state |-> ConversationState, conversation |-> FALSE]
    /\ sought = {} /\ located = {} /\ dead = {} /\ outcome = Nothing

Upstream == <<turn, drawn>>
Resolved == <<sought, located, dead>>

Ends(kind, images) == place' = "over" /\ outcome' = [kind |-> kind, images |-> images]

BeginImage ==
    /\ place = "begins"
    /\ wanted' \in SUBSET References /\ place' = "uploads"
    /\ UNCHANGED <<uploaded, Upstream, view, Resolved, outcome>>

\* _upload_image: three calls for every reference, none of which is tried again.
UploadReference(r) ==
    /\ place = "uploads" /\ r \in wanted \ uploaded
    /\ uploaded' = uploaded \cup {r}
    /\ UNCHANGED <<place, wanted, Upstream, view, Resolved, outcome>>

\* The calls that lead to the stream; the upstream sees the request with the last.
Call ==
    \/ /\ place = "uploads" /\ uploaded = wanted /\ place' = Calls[1]
       /\ UNCHANGED <<wanted, uploaded, Upstream, view, Resolved, outcome>>
    \/ \E i \in 1..4 :
          /\ place = Calls[i] /\ place' = Calls[i + 1]
          /\ UNCHANGED <<wanted, uploaded, Upstream, view, Resolved, outcome>>

CallRaises ==
    /\ place \in {"uploads", "bootstrap", "requirements", "prepare", "start"}
    /\ Ends("error", {})
    /\ UNCHANGED <<wanted, uploaded, Upstream, view, Resolved>>

\* A payload of the stream; most of them name the conversation.
Shows(p) ==
    LET state == UpdateConversationState(view.state, p)
    IN  /\ place = "streams"
        /\ \E named \in {view.conversation, TRUE} :
              view' = [state        |-> WithText(state, NextText(state, p, <<>>)),
                       conversation |-> named]
        /\ UNCHANGED <<place, wanted, uploaded, drawn, Resolved, outcome>>

ShowRequest ==
    /\ turn = "asked" /\ turn' = "echoed"
    /\ Shows(Payload("user", <<>>, uploaded, {}))

\* The metadata say what the turn is for, or nothing does.
ShowTurn ==
    \/ /\ turn = "echoed" /\ turn' = "draws"
       /\ \E says \in SUBSET {"tool", "image_gen"} : Shows(Payload("metadata", <<>>, {}, says))
    \/ /\ turn = "echoed" /\ turn' = "speaks"
       /\ \/ Shows(Payload("metadata", <<>>, {}, {}))
          \/ Shows(Payload("moderation", <<>>, {}, {"blocked"}))

Draws(x) ==
    /\ place \in {"streams", "polls"} /\ turn = "draws" /\ x \notin drawn
    /\ drawn' = drawn \cup {x}
    /\ UNCHANGED <<place, wanted, uploaded, turn, view, Resolved, outcome>>

ShowImages ==
    /\ turn = "draws" /\ UNCHANGED turn
    /\ \E kind \in {"tool", "patch"}, ids \in SUBSET (drawn \cup {Placeholder}) :
          ids \ view.state.ids # {} /\ Shows(Payload(kind, <<>>, ids, {}))

ShowText ==
    /\ turn # "asked" /\ UNCHANGED turn /\ view.state.text = <<>>
    /\ Shows(Payload("message", <<"words">>, {}, {}))

\* The stream ends, or the watchdog closes it in a way that looks like an end.
StreamStops ==
    /\ place = "streams" /\ place' = "settles"
    /\ UNCHANGED <<wanted, uploaded, Upstream, view, Resolved, outcome>>

\* It breaks, is closed, or goes on past the limit.
StreamRaises ==
    /\ place = "streams"
    /\ Ends("error", {})
    /\ UNCHANGED <<wanted, uploaded, Upstream, view, Resolved>>

\* stream_image_outputs: text alone is the answer if the turn was blocked, or was
\* neither an edit nor said to be for an image; without an id the conversation is polled.
Images   == view.state.ids \ {Placeholder}
TextOnly ==
    /\ view.state.text # <<>> /\ view.state.ids = {}
    /\ view.state.blocked \/ (wanted = {} /\ ~view.state.useCase)
SettleImage ==
    /\ place = "settles"
    /\ IF TextOnly THEN Ends("message", {}) /\ UNCHANGED sought
       ELSE /\ UNCHANGED outcome
            /\ IF view.conversation /\ Images = {} THEN place' = "polls" /\ UNCHANGED sought
               ELSE place' = "resolves" /\ sought' = Images
    /\ UNCHANGED <<wanted, uploaded, Upstream, view, located, dead>>

\* The document shows what the tool had drawn when it was written, or nothing yet; a
\* poll that fails for now is tried again until the time is up.
Polled ==
    /\ place = "polls"
    /\ \E shown \in SUBSET drawn \ {{}} : sought' = shown
    /\ place' = "resolves"
    /\ UNCHANGED <<wanted, uploaded, Upstream, view, located, dead, outcome>>
PollRaises ==
    /\ place = "polls"
    /\ \E kind \in {"timeout", "error"} : Ends(kind, {})
    /\ UNCHANGED <<wanted, uploaded, Upstream, view, Resolved>>

Files == {x \in sought : x.kind = "file"}

\* _resolve_image_urls: attachments are asked for if no file has an address.
Addresses(none) ==
    IF Files \ none # {} \/ ~view.conversation THEN Files \ none ELSE sought \ none

Resolve ==
    /\ place = "resolves"
    /\ \E none \in SUBSET sought :
          /\ dead' = none /\ located' = Addresses(none)
          /\ IF located' # {} THEN place' = "downloads" /\ UNCHANGED outcome
             ELSE Ends(IF view.state.text # <<>> THEN "message" ELSE "nothing", {})
    /\ UNCHANGED <<wanted, uploaded, Upstream, view, sought>>

\* download_image_bytes and format_image_result: an error, or the images but those
\* whose bytes are empty; if all are, nothing is told, not even the text.
Download ==
    /\ place = "downloads"
    /\ \/ Ends("error", {}) /\ UNCHANGED dead
       \/ \E full \in SUBSET located :
             /\ dead' = dead \cup (located \ full)
             /\ Ends(IF full # {} THEN "result" ELSE "nothing", full)
    /\ UNCHANGED <<wanted, uploaded, Upstream, view, sought, located>>

ImageNext ==
    \/ BeginImage \/ \E r \in References : UploadReference(r)
    \/ Call \/ CallRaises
    \/ ShowRequest \/ ShowTurn \/ ShowImages \/ ShowText \/ \E x \in Drawable : Draws(x)
    \/ StreamStops \/ StreamRaises \/ SettleImage \/ Polled \/ PollRaises \/ Resolve \/ Download

ImageSpec == ImageInit /\ [][ImageNext]_imageVars

-----------------------------------------------------------------------------
\* The attachments that are not asked for because a file has an address.
PassedOver == IF located \cap Files # {} THEN sought \ Files ELSE {}

\* A result holds images that the upstream drew and never a reference of the
\* request.  A client that is told of no image had none to be told of: every image
\* that the stream or the document showed has no address or nothing at it, but for
\* attachments that were passed over for a file (_resolve_image_urls).
ImagesTold ==
    /\ outcome.kind = "result" => outcome.images # {} /\ outcome.images \subseteq drawn
    /\ outcome.kind \in {"message", "nothing"} /\ view.conversation =>
          (view.state.ids \cup sought) \cap drawn \subseteq dead \cup PassedOver
=============================================================================
