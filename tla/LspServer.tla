----------------------------- MODULE LspServer ------------------------------
(***************************************************************************)
(* konform server: the main loop of lsp/handler.rs against an editor.       *)
(*                                                                          *)
(* The loop is one thread.  A handler touches only the session and the      *)
(* outgoing channel, so one step of the model is one handler; what          *)
(* interleaves with it is the editor, the two channels and the              *)
(* configuration file.  `clock` numbers what the user does: it is the text  *)
(* an edit writes and the id of a request.                                  *)
(***************************************************************************)
EXTENDS LspSession

CONSTANTS
    Editors,    \* the settings a user may give the editor
    Users,      \* what users do: see User
    MaxClock,   \* bound on what a user does
    Closed      \* in place of the text of a closed buffer

ASSUME ServerBounds ==
    /\ Editors \subseteq EditorSettings
    /\ MaxClock \in Nat \ {0}
    \* the kinds of things the user does, to which documents and configuration
    \* files, how many in all
    /\ Users \subseteq [does : SUBSET STRING, docs : SUBSET Docs, files : SUBSET Config,
                       steps : 0..MaxClock]
    /\ Closed \notin Texts

VARIABLES
    user,      \* what the user does in this run
    text,      \* the editor's buffers
    shown,     \* the diagnostics the editor displays
    file,      \* the configuration file
    editor,    \* the editor's settings for konform
    clock,
    watching,  \* the editor watches the configuration file for the server
    unseen,    \* the configuration file changed, the editor has not said so yet
    asks,      \* workspace/configuration requests the editor has to answer
    leaving,   \* the id of the shutdown request, or 0
    replies,   \* request id -> responses received
    connected, \* the editor's end of the channel is open
    inbox, outbox,
    session, stale, pending, nextId,
    mode,      \* "starting", "serving", "closing" or "ended"
    closing    \* the id of the shutdown request being handled

client == <<user, text, shown, file, editor, clock, watching, unseen, asks, leaving, replies, connected>>
server == <<session, stale, pending, nextId, mode, closing>>
vars == <<client, inbox, outbox, server>>

Requests == {"diagnostic", "codeAction", "formatting", "unknown"}
Ids == 1..MaxClock

Init ==
    /\ user \in Users
    /\ text = [d \in Docs |-> Closed] /\ shown = [d \in Docs |-> None]
    /\ file \in user.files /\ editor = << >> /\ clock = 0
    /\ watching = FALSE /\ unseen = FALSE /\ asks = << >>
    /\ replies = [i \in Ids |-> 0] /\ connected = TRUE /\ leaving = 0
    /\ inbox = << >> /\ outbox = << >>
    /\ session = Start(file) /\ stale = << >> /\ pending = {} /\ nextId = 1
    /\ mode = "starting" /\ closing = 0

-----------------------------------------------------------------------------
(* The editor. *)

Does(use) ==
    /\ use \in user.does /\ connected /\ clock < user.steps
    /\ clock' = clock + 1
Tells(m) == inbox' = Append(inbox, m)

(* After its shutdown request a client sends exit and nothing else, in time, *)
(* unless it is one that interrupts.                                         *)
Interrupts == "interrupt" \in user.does
Left == ~Interrupts /\ leaving # 0

DidOpen(d) ==
    /\ Does("open") /\ ~Left /\ text[d] = Closed
    /\ text' = [text EXCEPT ![d] = clock']
    /\ Tells([kind |-> "didOpen", doc |-> d, text |-> clock'])
    /\ UNCHANGED <<user, shown, file, editor, watching, unseen, asks, leaving, replies, connected, outbox, server>>

(* An edit is sent as the whole text, as a patch, or as two patches at once. *)
DidChange(d) ==
    /\ Does("change") /\ ~Left /\ text[d] # Closed
    /\ text' = [text EXCEPT ![d] = clock']
    /\ \E changes \in {<<Whole(clock')>>, <<Patch(text[d], clock')>>,
                       <<Patch(text[d], 0), Patch(0, clock')>>} :
           Tells([kind |-> "didChange", doc |-> d, changes |-> changes])
    /\ UNCHANGED <<user, shown, file, editor, watching, unseen, asks, leaving, replies, connected, outbox, server>>

DidClose(d) ==
    /\ Does("close") /\ ~Left /\ text[d] # Closed
    /\ text' = [text EXCEPT ![d] = Closed]
    /\ Tells([kind |-> "didClose", doc |-> d])
    /\ UNCHANGED <<user, shown, file, editor, watching, unseen, asks, leaving, replies, connected, outbox, server>>

DidSave(d) ==
    /\ Does("save") /\ ~Left /\ text[d] # Closed
    /\ Tells([kind |-> "didSave", doc |-> d])
    /\ UNCHANGED <<user, text, shown, file, editor, watching, unseen, asks, leaving, replies, connected, outbox, server>>

Ask(d) ==
    /\ ~Left
    /\ \E r \in Requests :
         /\ Does(r)
         /\ Tells([kind |-> "request", method |-> r, id |-> clock', doc |-> d])
    /\ UNCHANGED <<user, text, shown, file, editor, watching, unseen, asks, leaving, replies, connected, outbox, server>>

EditConfig ==
    /\ Does("file") /\ ~Left /\ (watching \/ "early" \in user.does)
    /\ file' \in user.files \ {file}
    /\ unseen' = watching
    /\ UNCHANGED <<user, text, shown, editor, watching, asks, leaving, replies, connected, inbox, outbox, server>>

DidChangeWatchedFiles ==
    /\ unseen /\ connected /\ ~Left
    /\ unseen' = FALSE
    /\ Tells([kind |-> "didChangeWatchedFiles"])
    /\ UNCHANGED <<user, text, shown, file, editor, clock, watching, asks, leaving, replies, connected, outbox, server>>

DidChangeConfiguration ==
    /\ Does("settings") /\ ~Left /\ watching
    /\ editor' \in Editors \ {editor}
    /\ Tells([kind |-> "didChangeConfiguration"])
    /\ UNCHANGED <<user, text, shown, file, watching, unseen, asks, leaving, replies, connected, outbox, server>>

(* The editor answers in order, with its settings of the moment, or with     *)
(* null when it has none.                                                    *)
AnswerSettings ==
    /\ asks # << >> /\ connected /\ ~Left
    /\ asks' = Tail(asks)
    /\ \E object \in {TRUE, editor # << >>} :
         Tells([kind |-> "settings", id |-> Head(asks), object |-> object, settings |-> editor])
    /\ UNCHANGED <<user, text, shown, file, editor, clock, watching, unseen, leaving, replies, connected, outbox, server>>

Shutdown ==
    /\ Does("shutdown") /\ leaving = 0
    /\ leaving' = clock'
    /\ Tells([kind |-> "shutdown", id |-> clock'])
    /\ UNCHANGED <<user, text, shown, file, editor, watching, unseen, asks, replies, connected, outbox, server>>

(* The reader thread of the server ends with the exit notification. *)
Exit ==
    /\ connected /\ leaving # 0
    /\ replies[leaving] > 0
    /\ connected' = FALSE
    /\ Tells([kind |-> "exit"])
    /\ UNCHANGED <<user, text, shown, file, editor, clock, watching, unseen, asks, leaving, replies, outbox, server>>

HangUp ==
    /\ "hangup" \in user.does /\ connected
    /\ connected' = FALSE
    /\ UNCHANGED <<user, text, shown, file, editor, clock, watching, unseen, asks, leaving, replies, inbox, outbox, server>>

Receive ==
    /\ connected /\ outbox # << >>
    /\ outbox' = Tail(outbox)
    /\ LET m == Head(outbox) IN
         /\ shown' = IF m.kind = "publish" THEN [shown EXCEPT ![m.doc] = m.diagnostics] ELSE shown
         /\ replies' = IF m.kind = "reply" THEN [replies EXCEPT ![m.id] = @ + 1] ELSE replies
         /\ asks' = IF m.kind = "configuration" THEN Append(asks, m.id) ELSE asks
         /\ watching' = (watching \/ m.kind = "register")
    /\ UNCHANGED <<user, text, file, editor, clock, unseen, leaving, connected, inbox, server>>

User ==
    \/ \E d \in user.docs : DidOpen(d) \/ DidChange(d) \/ DidClose(d) \/ DidSave(d) \/ Ask(d)
    \/ EditConfig \/ DidChangeConfiguration \/ Shutdown \/ Exit \/ HangUp

Editor == DidChangeWatchedFiles \/ AnswerSettings \/ Receive

-----------------------------------------------------------------------------
(* The server. *)

Publish(d, diagnostics) == [kind |-> "publish", doc |-> d, diagnostics |-> diagnostics]
Reply(id, answer) == [kind |-> "reply", id |-> id, answer |-> answer]
Sends(ms) == outbox' = outbox \o ms

(* push_diagnostics for the documents of ds in turn: computed in session s,  *)
(* cached in it and published.                                               *)
Published(s, ds) == [i \in DOMAIN ds |-> Publish(ds[i], RunDiagnostics(s, ds[i]))]

(* The documents of a hash map come in any order. *)
PushAll(s) ==
    /\ session' = Relinted(s, Opened(s))
    /\ \E order \in SetToSeqs(Opened(s)) : Sends(Published(s, order))

(* main_loop starts: the watchers are registered for the configuration that  *)
(* Session::start has read.                                                  *)
RegisterWatchers ==
    /\ mode = "starting" /\ mode' = "serving"
    /\ Sends(<<[kind |-> "register"]>>)
    /\ UNCHANGED <<client, inbox, session, stale, pending, nextId, closing>>

(* A slip: edited documents are published while another message is queued.   *)
FlushWhileBusy ==
    /\ mode = "serving" /\ inbox # << >> /\ stale # << >>
    /\ stale' = << >>
    /\ session' = Relinted(session, Range(stale))
    /\ Sends(Published(session, stale))
    /\ UNCHANGED <<client, inbox, pending, nextId, mode, closing>>

(* The queue is drained: publish what was edited, then wait. *)
Flush ==
    /\ mode = "serving" /\ inbox = << >> /\ stale # << >>
    /\ stale' = << >>
    /\ session' = Relinted(session, Range(stale))
    /\ Sends(Published(session, stale))
    /\ UNCHANGED <<client, inbox, pending, nextId, mode, closing>>

Takes(kind) ==
    /\ mode = "serving" /\ inbox # << >> /\ Head(inbox).kind = kind
    /\ inbox' = Tail(inbox)
msg == Head(inbox)

HandleOpen ==
    /\ Takes("didOpen")
    /\ LET s == OpenDoc(session, msg.doc, msg.text) IN
         /\ session' = Relinted(s, {msg.doc})
         /\ Sends(Published(s, <<msg.doc>>))
    /\ UNCHANGED <<client, stale, pending, nextId, mode, closing>>

HandleChange ==
    /\ Takes("didChange")
    /\ session' = Update(session, msg.doc, msg.changes)
    /\ stale' = IF msg.doc \in Range(stale) THEN stale ELSE Append(stale, msg.doc)
    /\ UNCHANGED <<client, outbox, pending, nextId, mode, closing>>

(* A slip: the editor is not told to clear the closed document.              *)
HandleCloseQuietly ==
    /\ Takes("didClose")
    /\ stale' = RemoveFirst(stale, msg.doc)
    /\ session' = CloseDoc(session, msg.doc)
    /\ UNCHANGED <<client, outbox, pending, nextId, mode, closing>>

(* stale names a document once: that is all there is to take out.            *)
HandleClose ==
    /\ Takes("didClose")
    /\ stale' = RemoveFirst(stale, msg.doc)
    /\ session' = CloseDoc(session, msg.doc)
    /\ Sends(<<Publish(msg.doc, None)>>)
    /\ UNCHANGED <<client, pending, nextId, mode, closing>>

HandleSave ==
    /\ Takes("didSave")
    /\ session' = Relinted(session, {msg.doc})
    /\ Sends(Published(session, <<msg.doc>>))
    /\ UNCHANGED <<client, stale, pending, nextId, mode, closing>>

HandleWatchedFiles ==
    /\ Takes("didChangeWatchedFiles")
    /\ PushAll(ApplyReload(session, file))
    /\ UNCHANGED <<client, stale, pending, nextId, mode, closing>>

(* A slip: the request is registered under the next id.                      *)
HandleConfigurationLate ==
    /\ Takes("didChangeConfiguration")
    /\ Sends(<<[kind |-> "configuration", id |-> nextId]>>)
    /\ nextId' = nextId + 1 /\ pending' = pending \cup {nextId'}
    /\ UNCHANGED <<client, session, stale, mode, closing>>

HandleConfiguration ==
    /\ Takes("didChangeConfiguration")
    /\ Sends(<<[kind |-> "configuration", id |-> nextId]>>)
    /\ pending' = pending \cup {nextId} /\ nextId' = nextId + 1
    /\ UNCHANGED <<client, session, stale, mode, closing>>

HandleSettings ==
    /\ Takes("settings")
    /\ pending' = pending \ {msg.id}
    /\ IF msg.id \in pending /\ msg.object
       THEN PushAll(ApplyEditorSettings(session, msg.settings))
       ELSE UNCHANGED <<session, outbox>>
    /\ UNCHANGED <<client, stale, nextId, mode, closing>>

(* The rest of the messages: exit and notifications nobody handles. *)
HandleIgnored ==
    /\ Takes("exit")
    /\ UNCHANGED <<client, outbox, server>>

Answer(s, m) ==
    CASE m.method = "codeAction" -> CodeActions(s, m.doc)
      [] m.method = "formatting" -> Formatting(s, m.doc)
      [] m.method = "diagnostic" -> RunDiagnostics(s, m.doc)
      [] OTHER -> None

(* A slip: requests do not bring the diagnostics up to date.                 *)
HandleRequestStale ==
    /\ Takes("request")
    /\ Sends(<<Reply(msg.id, Answer(session, msg))>>)
    /\ session' = IF msg.method = "diagnostic" THEN Relinted(session, {msg.doc}) ELSE session
    /\ UNCHANGED <<client, stale, pending, nextId, mode, closing>>

(* A slip: methods the server does not know get no response.                 *)
HandleRequestKnown ==
    /\ Takes("request")
    /\ IF msg.method = "unknown" THEN outbox' = outbox
       ELSE Sends(<<Reply(msg.id, Answer(session, msg))>>)
    /\ UNCHANGED <<client, session, stale, pending, nextId, mode, closing>>

(* A request reads what the edits before it left: they are published first. *)
HandleRequest ==
    /\ Takes("request")
    /\ stale' = << >>
    /\ LET s == Relinted(session, Range(stale)) IN
         /\ Sends(Append(Published(session, stale), Reply(msg.id, Answer(s, msg))))
         /\ session' = IF msg.method = "diagnostic" THEN Relinted(s, {msg.doc}) ELSE s
    /\ UNCHANGED <<client, pending, nextId, mode, closing>>

(* handle_shutdown answers and waits for exit. *)
HandleShutdown ==
    /\ Takes("shutdown")
    /\ stale' = << >>
    /\ session' = Relinted(session, Range(stale))
    /\ Sends(Append(Published(session, stale), Reply(msg.id, None)))
    /\ mode' = "closing" /\ closing' = msg.id
    /\ UNCHANGED <<client, pending, nextId>>

TakeExit ==
    /\ mode = "closing" /\ inbox # << >> /\ msg.kind = "exit"
    /\ inbox' = Tail(inbox)
    /\ mode' = "ended"
    /\ UNCHANGED <<client, outbox, session, stale, pending, nextId, closing>>

(* Another message, or none for 30 seconds: handle_shutdown fails, which is  *)
(* taken for a request that was not shutdown.                                *)
ShutdownFails ==
    /\ mode = "closing"
    /\ IF inbox = << >> THEN (Interrupts \/ ~connected) /\ inbox' = inbox
       ELSE msg.kind # "exit" /\ inbox' = Tail(inbox)
    /\ Sends(<<Reply(closing, None)>>)
    /\ mode' = "serving"
    /\ UNCHANGED <<client, session, stale, pending, nextId, closing>>

(* A slip: only a client that has shut down lets the loop end.               *)
StopAfterShutdown ==
    /\ mode = "serving" /\ inbox = << >> /\ stale = << >> /\ ~connected /\ closing # 0
    /\ mode' = "ended"
    /\ UNCHANGED <<client, inbox, outbox, session, stale, pending, nextId, closing>>

Stop ==
    /\ mode = "serving" /\ inbox = << >> /\ stale = << >> /\ ~connected
    /\ mode' = "ended"
    /\ UNCHANGED <<client, inbox, outbox, session, stale, pending, nextId, closing>>

Handler ==
    \/ HandleOpen \/ HandleChange \/ HandleClose \/ HandleSave
    \/ HandleWatchedFiles \/ HandleConfiguration \/ HandleSettings
    \/ HandleIgnored \/ HandleRequest \/ HandleShutdown

MainLoop == RegisterWatchers \/ Flush \/ Handler \/ TakeExit \/ ShutdownFails \/ Stop

Next == User \/ Editor \/ MainLoop

(* The server's thread runs, and the editor keeps up its side of the         *)
(* protocol; the user is free to do nothing.                                 *)
Spec ==
    /\ Init /\ [][Next]_vars
    /\ WF_vars(MainLoop) /\ WF_vars(Receive)
    /\ WF_vars(DidChangeWatchedFiles) /\ WF_vars(AnswerSettings) /\ WF_vars(Exit)

-----------------------------------------------------------------------------
(* The editor's and the server's state are of the declared shapes, and the   *)
(* server's text of a document was never patched on another text while no    *)
(* message was lost to a shutdown.                                           *)
TypeOK ==
    /\ text \in [Docs -> Nat \cup {Closed}] /\ shown \in [Docs -> Diagnostics]
    /\ file \in Config /\ editor \in EditorSettings /\ clock \in 0..MaxClock
    /\ leaving \in 0..MaxClock /\ closing \in 0..MaxClock
    /\ session \in Session /\ Range(stale) \subseteq Docs
    /\ closing = 0 => \A d \in Opened(session) : session.documents[d].source # Garbled
    /\ pending \subseteq 1..nextId /\ nextId \in Nat
    /\ mode \in {"starting", "serving", "closing", "ended"}

(* Nothing is under way between the editor and the server. *)
Settled ==
    /\ mode = "serving" /\ connected /\ leaving = 0
    /\ inbox = << >> /\ outbox = << >> /\ stale = << >> /\ asks = << >> /\ ~unseen

(* main_loop publishes edits only when its queue is drained, a reload and    *)
(* new settings re-lint every open document, and closing clears: whatever    *)
(* the order of these, once nothing is under way the editor shows the        *)
(* diagnostics of every buffer as it is, under the server's configuration,   *)
(* and quick fixes are offered for exactly those.                            *)
SettledShowsCurrent ==
    Settled => \A d \in Docs :
        IF text[d] = Closed THEN d \notin Opened(session) /\ shown[d] = None
        ELSE LET diagnostics == IF d \in session.config.exclude THEN None
                                ELSE Lint(text[d], session.config)
             IN  shown[d] = diagnostics
                 /\ session.documents[d] = [source |-> text[d], diagnostics |-> diagnostics]

(* Once nothing is under way the server excludes what the configuration file *)
(* does, however its reloads met further edits of the file.  (Its `lint`      *)
(* settings may be the editor's, which lie over the file's.)                 *)
SettledFollowsFile == Settled /\ "early" \notin user.does => session.config.exclude = file.exclude

(* Editor settings reach the session: with the last answer of the editor the *)
(* session has each of its settings, unless the configuration file is edited *)
(* too: its reload drops them.                                               *)
SettledFollowsEditor ==
    Settled /\ "file" \notin user.does => \A f \in DOMAIN editor : session.config.lint[f] = editor[f]

(* "Requests (code actions among them) read the published diagnostics, so    *)
(* bring those up to date first": every code action answer was made from     *)
(* violations of the very text and configuration its fixes are computed on.  *)
CodeActionsMatchText ==
    \A i \in DOMAIN outbox :
        (outbox[i].kind = "reply" /\ outbox[i].answer # None
            /\ "quick" \in DOMAIN outbox[i].answer)
        => LET a == outbox[i].answer IN
           a.quick = IF a.doc \in a.config.exclude THEN None ELSE Lint(a.source, a.config)

(* Once the user pauses for good the server catches up: edits that were       *)
(* coalesced, reloads and answers do not keep each other going.  (main_loop   *)
(* publishes edits when its queue is drained or a request arrives: under      *)
(* notifications that never let the queue run dry it need not catch up.)      *)
UserPauses == <>[][clock' = clock]_vars
SettlesOrEnds == UserPauses => []<>(Settled \/ ~connected)

(* Every request of a client that sends only exit after shutdown is answered, *)
(* unless it hangs up.                                                       *)
EveryRequestAnswered ==
    ~Interrupts => \A i \in Ids :
        (\E k \in DOMAIN inbox : inbox[k].kind \in {"request", "shutdown"} /\ inbox[k].id = i)
            ~> (replies[i] > 0 \/ ~connected)

(* The process ends when the client has gone, with shutdown or without.      *)
EndsWithClient == ~connected ~> mode = "ended"

=============================================================================
