----------------------------- MODULE MCServices -----------------------------
(***************************************************************************)
(* The services that share no state with one another, in one model: the     *)
(* initial state chooses the one that moves, so TLC explores the sum of     *)
(* their behaviours and not the product.                                    *)
(***************************************************************************)
EXTENDS AuthKeys, Backup, RemoteSync, GrokConsole, GrokAppChat, LoginFlow,
        CatPawTokens, CatPawConversation, CallLog, GptText, GptImage,
        AnthropicStream, ResponseStream, ImageStorage, TLC

VARIABLE active

messagesVars == <<streamVars, messageVars>>
vars == <<active, authVars, backupVars, syncVars, grokVars,
          chatVars, loginVars, messagesVars, responseVars, tokenVars, conversationVars, logVars,
          textVars, imageVars, storageVars>>

\* Two sessions with the same first question; one goes on in two ways.
Said(who, what) == [role |-> who, text |-> what]
SomeDialogues ==
    {[about |-> "session 1", messages |-> <<Said("user", "question")>> \o more] :
        more \in {<<>>, <<Said("assistant", "")>>, <<Said("assistant", "answer")>>}}
    \cup {[about |-> "session 2",
           messages |-> <<Said("user", "question"), Said("assistant", "answer")>>]}

\* What was said before and what is answered now; an uploaded reference, and three
\* ids of two images.
SaidBefore   == <<<<"x">>, <<"y">>>>
AnsweredNow  == <<"p", "q">>
UploadedIds  == {[kind |-> "file", of |-> "reference"]}
DrawnIds     == {[kind |-> "file", of |-> "image 1"], [kind |-> "sediment", of |-> "image 1"],
                 [kind |-> "file", of |-> "image 2"]}

\* Stored images may be exchanged.
Symmetry == Permutations(Paths)

Services == {"keys", "backups", "remote", "console", "chat", "logins",
             "messages", "responses", "pairs", "dialogues", "calls",
             "texts", "images", "storage"}

Init ==
    /\ active \in Services
    /\ AuthInit /\ BackupInit
    /\ SyncInit /\ GrokInit /\ ChatInit /\ LoginInit
    /\ MessageInit /\ ResponseInit
    /\ TokenInit /\ ConversationInit /\ LogInit
    /\ TextInit /\ ImageInit /\ StorageInit
    /\ active # "storage" => mode = "local"

Others(c) ==
    /\ c # "keys"     => UNCHANGED authVars
    /\ c # "backups"  => UNCHANGED backupVars
    /\ c # "remote"   => UNCHANGED syncVars
    /\ c # "console"  => UNCHANGED grokVars
    /\ c # "chat"     => UNCHANGED chatVars
    /\ c # "logins"   => UNCHANGED loginVars
    /\ c # "messages"  => UNCHANGED messagesVars
    /\ c # "responses" => UNCHANGED responseVars
    /\ c # "pairs"     => UNCHANGED tokenVars
    /\ c # "dialogues" => UNCHANGED conversationVars
    /\ c # "calls"     => UNCHANGED logVars
    /\ c # "texts"     => UNCHANGED textVars
    /\ c # "images"    => UNCHANGED imageVars
    /\ c # "storage"   => UNCHANGED storageVars

Only(c, A) == active = c /\ A /\ Others(c) /\ UNCHANGED active

KeysStep     == Only("keys", AuthNext)
BackupsStep  == Only("backups", BackupNext)
RemoteStep   == Only("remote", SyncNext)
ConsoleStep  == Only("console", GrokNext)
ChatStep     == Only("chat", ChatNext)
LoginsStep   == Only("logins", LoginNext)
MessagesStep  == Only("messages", MessageNext)
ResponsesStep == Only("responses", ResponseNext)
PairsStep     == Only("pairs", TokenNext)
DialoguesStep == Only("dialogues", ConversationNext)
CallsStep     == Only("calls", LogNext)
TextsStep     == Only("texts", TextNext)
ImagesStep    == Only("images", ImageNext)
StorageStep   == Only("storage", StorageNext)

Next == KeysStep \/ BackupsStep
            \/ RemoteStep \/ ConsoleStep \/ ChatStep \/ LoginsStep
            \/ MessagesStep \/ ResponsesStep \/ PairsStep \/ DialoguesStep \/ CallsStep
            \/ TextsStep \/ ImagesStep \/ StorageStep

Spec == Init /\ [][Next]_vars
=============================================================================
