----------------------------- MODULE RemoteFiles -----------------------------
(***************************************************************************)
(* Changes that tools make to a host over SSH: write_file with its backup, *)
(* sync_file, and the additions to and removals from a crontab.  Each is a *)
(* sequence of remote commands; the tools of one response of the model run *)
(* concurrently, and a command may fail part of the way.                   *)
(***************************************************************************)
EXTENDS Naturals

CONSTANTS Tools,          \* concurrent calls of tools
          Entries,        \* lines of a crontab
          MaxCommands,    \* bound: calls made in an execution
          Contents,       \* of text files
          Binary, Mangled,   \* a file that is not UTF-8, and what decoding leaves of it
          Torn, None

VARIABLES file,      \* the content at the path, Torn after a write cut short
          bak,       \* the content of path.bak
          last,      \* history: the last content written whole
          stamped,   \* the contents of the timestamped backups
          source,    \* what sync_file copies
          crontab, tool, calls,
          exposed,   \* history: why the content may be lost
          missed,    \* history: why entries of the crontab may be lost
          wanted     \* history: entries that nothing has removed

filesVars == <<file, bak, last, stamped, source, crontab, tool, calls, exposed, missed, wanted>>

NoCall == [pc |-> "idle", content |-> None, backup |-> FALSE, entry |-> None, read |-> {}]

(* _get_file_info decodes with errors="replace".                           *)
Decoded(c) == IF c = Binary THEN Mangled ELSE c

Busy(pcs, but) == \E t \in Tools \ {but} : tool[t].pc \in pcs
Goto(t, pc) == tool' = [tool EXCEPT ![t].pc = pc]
Return(t) == tool' = [tool EXCEPT ![t] = NoCall]

FilesInit ==
    /\ file \in Contents \union {None} /\ last = file /\ bak = None /\ stamped = {}
    /\ source \in Contents \union {Binary}
    /\ crontab = Entries /\ wanted = Entries
    /\ tool = [t \in Tools |-> NoCall] /\ calls = 0
    /\ exposed = {} /\ missed = {}

-----------------------------------------------------------------------------
(* write_file *)
WriteFile(t, c, backup) ==
    /\ tool[t].pc = "idle" /\ calls < MaxCommands /\ calls' = calls + 1
    /\ tool' = [tool EXCEPT ![t] = [NoCall EXCEPT !.pc = IF backup THEN "backup" ELSE "truncate",
                                                  !.content = c, !.backup = backup]]
    /\ exposed' = IF backup THEN exposed ELSE exposed \union {"no backup"}
    /\ UNCHANGED <<file, bak, last, stamped, source, crontab, missed, wanted>>

M_Backup(t, ok) ==
    /\ tool[t].pc = "backup"
    /\ Goto(t, "truncate")
    /\ UNCHANGED <<file, bak, last, stamped, source, crontab, calls, exposed, missed, wanted>>

(* [ -f path ] && cp path path.bak: status 1 when there is no file, and    *)
(* when cp fails, a full disk leaving part of a copy; both go on.          *)
Backup(t, ok) ==
    /\ tool[t].pc = "backup"
    /\ bak' = IF file = None THEN bak ELSE IF ok THEN file ELSE Torn
    /\ exposed' = exposed \union (IF file # None /\ ~ok THEN {"cp failed"} ELSE {})
                          \union (IF file = Torn THEN {"torn when copied"} ELSE {})
                          \union (IF Busy({"backup", "truncate", "write"}, t) THEN {"overlap"} ELSE {})
    /\ Goto(t, "truncate")
    /\ UNCHANGED <<file, last, stamped, source, crontab, calls, missed, wanted>>

(* The connection fails before a command: the call returns an error.       *)
Unreachable(t) ==
    /\ tool[t].pc \in {"backup", "truncate", "chmod", "stamp", "source", "list", "install",
                      "find", "remove"}
    /\ Return(t)
    /\ UNCHANGED <<file, bak, last, stamped, source, crontab, calls, exposed, missed, wanted>>

(* echo ... | base64 -d > path: the shell empties the file first.          *)
Truncate(t) ==
    /\ tool[t].pc = "truncate"
    /\ file' = Torn /\ Goto(t, "write")
    /\ UNCHANGED <<bak, last, stamped, source, crontab, calls, exposed, missed, wanted>>

Write(t, ok) ==
    /\ tool[t].pc = "write"
    /\ IF ok THEN file' = tool[t].content /\ last' = file' /\ Goto(t, "chmod")
             ELSE UNCHANGED <<file, last>> /\ Return(t)
    /\ UNCHANGED <<bak, stamped, source, crontab, calls, exposed, missed, wanted>>

(* A chmod that fails is logged.                                           *)
Chmod(t) ==
    /\ tool[t].pc = "chmod" /\ Return(t)
    /\ UNCHANGED <<file, bak, last, stamped, source, crontab, calls, exposed, missed, wanted>>

-----------------------------------------------------------------------------
(* sync_file reads both files, and skips when their hashes are equal.      *)
SyncFile(t) ==
    /\ tool[t].pc = "idle" /\ calls < MaxCommands /\ calls' = calls + 1
    /\ tool' = [tool EXCEPT ![t] = [NoCall EXCEPT !.pc = "source", !.backup = TRUE]]
    /\ UNCHANGED <<file, bak, last, stamped, source, crontab, exposed, missed, wanted>>

Compare(t) ==
    /\ tool[t].pc = "source"
    /\ tool' = [tool EXCEPT ![t] =
                  IF source = file THEN NoCall
                  ELSE [@ EXCEPT !.content = Decoded(source),
                                 !.pc = IF file = None THEN "backup" ELSE "stamp"]]
    /\ UNCHANGED <<file, bak, last, stamped, source, crontab, calls, exposed, missed, wanted>>

(* cp path path.bak.<date>: its result is not looked at.                   *)
Stamp(t, ok) ==
    /\ tool[t].pc = "stamp"
    /\ stamped' = IF ok /\ file # None THEN stamped \union {file} ELSE stamped
    /\ Goto(t, "backup")
    /\ UNCHANGED <<file, bak, last, source, crontab, calls, exposed, missed, wanted>>

-----------------------------------------------------------------------------
(* add_cron reads the crontab and writes all of it; a listing that fails   *)
(* counts as an empty crontab.                                             *)
AddCron(t, e) ==
    /\ tool[t].pc = "idle" /\ calls < MaxCommands /\ calls' = calls + 1
    /\ tool' = [tool EXCEPT ![t] = [NoCall EXCEPT !.pc = "list", !.entry = e]]
    /\ UNCHANGED <<file, bak, last, stamped, source, crontab, exposed, missed, wanted>>

M_List(t, ok) == tool[t].pc = "list" /\ Goto(t, "install")
                 /\ UNCHANGED <<file, bak, last, stamped, source, crontab, calls, exposed, missed, wanted>>

List(t, ok) ==
    /\ tool[t].pc = "list"
    /\ tool' = [tool EXCEPT ![t].pc = "install", ![t].read = IF ok THEN crontab ELSE {}]
    /\ missed' = missed \union (IF ok THEN {} ELSE {"unread"})
                        \union (IF Busy({"install", "remove"}, t) THEN {"overlap"} ELSE {})
    /\ UNCHANGED <<file, bak, last, stamped, source, crontab, calls, exposed, wanted>>

Install(t, ok) ==
    /\ tool[t].pc = "install"
    /\ IF ok THEN /\ crontab' = tool[t].read \union {tool[t].entry}
                  /\ wanted' = wanted \union {tool[t].entry}
             ELSE UNCHANGED <<crontab, wanted>>
    /\ Return(t)
    /\ UNCHANGED <<file, bak, last, stamped, source, calls, exposed, missed>>

(* remove_cron finds the matching lines; not a dry run, it pipes the       *)
(* crontab without them into `crontab -`, and what fails in the pipe before*)
(* that is not seen.                                                       *)
RemoveCron(t, e) ==
    /\ tool[t].pc = "idle" /\ calls < MaxCommands /\ calls' = calls + 1
    /\ tool' = [tool EXCEPT ![t] = [NoCall EXCEPT !.pc = "find", !.entry = e]]
    /\ UNCHANGED <<file, bak, last, stamped, source, crontab, exposed, missed, wanted>>

Find(t, dry) ==
    /\ tool[t].pc = "find"
    /\ IF dry \/ tool[t].entry \notin crontab THEN Return(t) ELSE Goto(t, "remove")
    /\ missed' = IF Busy({"install"}, t) /\ tool'[t].pc = "remove" THEN missed \union {"overlap"} ELSE missed
    /\ UNCHANGED <<file, bak, last, stamped, source, crontab, calls, exposed, wanted>>

Remove(t, listed) ==
    /\ tool[t].pc = "remove"
    /\ crontab' = IF listed THEN crontab \ {tool[t].entry} ELSE {}
    /\ wanted' = wanted \ {tool[t].entry}
    /\ missed' = IF listed THEN missed ELSE missed \union {"unread"}
    /\ Return(t)
    /\ UNCHANGED <<file, bak, last, stamped, source, calls, exposed>>

ToolStep(t) ==
    \/ \E ok \in BOOLEAN : Backup(t, ok) \/ Write(t, ok) \/ Stamp(t, ok)
                          \/ List(t, ok) \/ Install(t, ok) \/ Find(t, ok) \/ Remove(t, ok)
    \/ Unreachable(t) \/ Truncate(t) \/ Chmod(t) \/ Compare(t)

FilesNext ==
    \E t \in Tools : \/ ToolStep(t)
                     \/ \E c \in Contents, backup \in BOOLEAN : WriteFile(t, c, backup)
                     \/ SyncFile(t)
                     \/ \E e \in Entries : AddCron(t, e) \/ RemoveCron(t, e)

-----------------------------------------------------------------------------
(* A write cut short leaves the content it replaces in path.bak, unless    *)
(* the caller wanted no copy, the copying failed, was of a file that an    *)
(* earlier attempt had torn, or two writes overlapped (write_file and      *)
(* sync_file, failures of each of their commands).                         *)
CopyRemains == file = Torn /\ exposed = {} => bak = last

(* Changes of a crontab that do not overlap and can read it keep the       *)
(* entries that none of them removes.                                      *)
EntriesKept == missed = {} => wanted \subseteq crontab

(* "backup: Create backup before writing" (docs/tools.md): when the file   *)
(* is emptied, path.bak has the content that goes.                         *)
BackedUp == \A t \in Tools : tool[t].pc = "write" /\ tool[t].backup => bak = last
=============================================================================
