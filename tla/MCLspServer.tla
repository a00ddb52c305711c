---------------------------- MODULE MCLspServer -----------------------------
(***************************************************************************)
(* The language server for TLC: users who differ in what they do, one of    *)
(* them with two documents.                                                *)
(***************************************************************************)
EXTENDS LspServer, TLC

CONSTANTS d1, d2, v1, v2

Same(v) == [f \in Fields |-> v]
Plain == [lint |-> Same(v1), exclude |-> {}]
Several == {Plain, [lint |-> Same(v2), exclude |-> {}], [lint |-> Same(v1), exclude |-> {d1}]}
MCEditors == {[f \in {"select"} |-> v1], [f \in {"select"} |-> v2], << >>}

(* Only a user who edits the configuration file needs several of them.       *)
MCUser(docs, steps, does) ==
    [does |-> does, docs |-> docs, steps |-> steps,
     files |-> IF "file" \in does THEN Several ELSE {Plain}]

MCUsers == {
    MCUser({d1, d2}, 4, {"open", "change", "close", "save", "codeAction", "diagnostic"}),
    MCUser({d1}, 4, {"open", "change", "file", "codeAction", "formatting"}),
    MCUser({d1}, 4, {"open", "change", "close", "save", "file", "diagnostic"}),
    MCUser({d1}, 4, {"open", "file", "early", "codeAction"}),
    MCUser({d1}, 4, {"open", "change", "settings", "codeAction"}),
    MCUser({d1}, 4, {"open", "change", "settings", "unknown", "shutdown", "hangup"}),
    MCUser({d1}, 4, {"open", "change", "settings", "shutdown", "interrupt"})}
=============================================================================
