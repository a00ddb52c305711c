----------------------------- MODULE LspSession -----------------------------
(***************************************************************************)
(* The session of the language server: the open documents with their       *)
(* cached diagnostics, and the configuration, as operators on one record.   *)
(*                                                                          *)
(* A text is the number of the edit that wrote it.  An incremental change   *)
(* names the text it was computed on: applied to any other text it leaves   *)
(* a text nobody wrote.  Diagnostics keep the text and the lint settings    *)
(* they were computed from, so that two of them are equal only when the     *)
(* linter was given the same input.                                         *)
(***************************************************************************)
EXTENDS Naturals, Sequences, FiniteSets, SequencesExt

CONSTANTS
    Docs,      \* the URIs a client may open
    Fields,    \* the settings an editor can override
    Values,    \* the values of a setting
    Garbled,   \* what a change leaves that was computed on another text
    NoDoc,     \* in place of a document that is not open
    None       \* no diagnostics, no answer

ASSUME DocsFinite == IsFiniteSet(Docs) /\ Docs # {}

Texts == Nat \cup {Garbled}
Settings == [Fields -> Values]
Config == [lint : Settings, exclude : SUBSET Docs]
Diagnostics == [text : Texts, lint : Settings] \cup {None}
DocumentState == [source : Texts, diagnostics : Diagnostics]

ASSUME PlaceholdersDiffer == Garbled \notin Nat /\ NoDoc \notin DocumentState
Session == [documents : [Docs -> DocumentState \cup {NoDoc}], config : Config]

(* What an editor sends for its "konform" section: any part of the fields. *)
EditorSettings == UNION {[S -> Values] : S \in SUBSET Fields}

Start(config) == [documents |-> [d \in Docs |-> NoDoc], config |-> config]

Opened(s) == {d \in Docs : s.documents[d] # NoDoc}
IsExcluded(s, d) == d \in s.config.exclude

OpenDoc(s, d, text) ==
    [s EXCEPT !.documents[d] = [source |-> text, diagnostics |-> None]]

(* A change without a range replaces the document; one with a range is a patch. *)
Whole(text) == [base |-> Garbled, text |-> text]
Patch(base, text) == [base |-> base, text |-> text]
Patched(source, change) ==
    IF change.base \in {Garbled, source} THEN change.text ELSE Garbled

(* The changes of one notification, each applied to what the last one left.  *)
Updated(source, changes) ==
    LET after[i \in 0..Len(changes)] ==
            IF i = 0 THEN source ELSE Patched(after[i - 1], changes[i])
    IN  after[Len(changes)]

Update(s, d, changes) ==
    IF d \notin Opened(s) THEN s
    ELSE [s EXCEPT !.documents[d] = [source |-> Updated(@.source, changes), diagnostics |-> None]]

CloseDoc(s, d) == [s EXCEPT !.documents[d] = NoDoc]

(* run_diagnostics: what the linter finds in the text the server holds. *)
Lint(text, config) == [text |-> text, lint |-> config.lint]
RunDiagnostics(s, d) ==
    IF d \notin Opened(s) \/ IsExcluded(s, d) THEN None
    ELSE Lint(s.documents[d].source, s.config)

(* set_diagnostics for every document of ds. *)
Relinted(s, ds) ==
    [s EXCEPT !.documents = [d \in Docs |->
        IF d \in ds \cap Opened(s)
        THEN [s.documents[d] EXCEPT !.diagnostics = RunDiagnostics(s, d)]
        ELSE s.documents[d]]]

(* A slip: the compiled exclude globs are not rebuilt.                       *)
ApplyReloadLint(s, file) == [s EXCEPT !.config.lint = file.lint]

(* A reload takes the file as it is now, without what the editor had set. *)
ApplyReload(s, file) == [s EXCEPT !.config = file]

(* The editor's fields replace the session's, the others stay as they are. *)
ApplyEditorSettings(s, settings) ==
    [s EXCEPT !.config.lint = [f \in Fields |->
        IF f \in DOMAIN settings THEN settings[f] ELSE s.config.lint[f]]]

(* What a code action request is answered from: the violations cached for   *)
(* the quick fixes, and the text that the document-wide fix is computed on.  *)
CodeActions(s, d) ==
    IF d \notin Opened(s) THEN None
    ELSE [doc |-> d, quick |-> s.documents[d].diagnostics,
          source |-> s.documents[d].source, config |-> s.config]

Formatting(s, d) ==
    IF d \notin Opened(s) \/ IsExcluded(s, d) THEN None
    ELSE Lint(s.documents[d].source, s.config)

=============================================================================
