----------------------------- MODULE MCSession ------------------------------
(***************************************************************************)
(* Situations of Session for TLC, one concern each.                        *)
(***************************************************************************)
EXTENDS Session

Plain == [mode |-> "rich", mud |-> FALSE, kinds |-> {}, flush |-> FALSE,
          slow |-> FALSE, overlap |-> FALSE, faults |-> FALSE, crash |-> FALSE,
          sessions |-> 1, messages |-> 0, lines |-> 0]

\* Texts and a boot, around the startup.
Texts == [Plain EXCEPT !.kinds = {"text", "disconnect"}, !.messages = 3]

\* Editor, pager and prompt requests, from commands and from other tasks.
Requests == [Plain EXCEPT !.kinds = {"editor", "paginator", "input"},
                          !.messages = 2, !.lines = 1]

\* Window mode.
Windows == [Plain EXCEPT !.kinds = {"text", "window_open", "window_close", "input"},
                         !.messages = 2, !.lines = 1]

\* A MUD client in raw mode that takes edits over GMCP.
Raw == [Plain EXCEPT !.mode = "raw", !.mud = TRUE, !.messages = 2, !.lines = 1,
                     !.kinds = {"text", "editor", "paginator"}]

\* .flush, late startups, calls that raise.
Rough == [Plain EXCEPT !.kinds = {"text", "disconnect", "editor"}, !.flush = TRUE, !.slow = TRUE,
                       !.faults = TRUE, !.messages = 2, !.lines = 1]

\* Two connections, one after the other or together, and a server that dies.
Again == [Plain EXCEPT !.kinds = {"setting"}, !.messages = 1, !.sessions = 2,
                       !.slow = TRUE, !.crash = TRUE]

Twice == [Plain EXCEPT !.sessions = 2, !.overlap = TRUE]

AllSetups == {Texts, Requests, Windows, Raw, Rough, Again, Twice}

MudSetups == {Raw}

=============================================================================
