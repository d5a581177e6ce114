------------------------------ MODULE Session ------------------------------
(***************************************************************************)
(* The session manager (merlya/session/manager.py) on the database         *)
(* connection that the whole process shares (merlya/persistence).          *)
(*                                                                         *)
(* start_session and add_message hold the manager's lock; load_session and *)
(* end_session do not.  A step runs from one await that suspends to the    *)
(* next: summarising and predicting the tier do not suspend, statements    *)
(* and the lock do.  The connection runs statements in the order issued.   *)
(*                                                                         *)
(* The limit of 1000 messages in memory has no action: summarising starts  *)
(* at 70 messages or fewer.                                                *)
(***************************************************************************)
EXTENDS Naturals, Sequences, FiniteSets

CONSTANTS Tasks, Ids, None,
          Threshold,     \* messages above which the tier's limits summarise
          Keep,          \* messages a summarisation keeps
          Bounds         \* Bounds[d]: the sessions and the number of messages
                         \* there are when the disturbances d happen

ASSUME SessionAssumption ==
    /\ None \notin Tasks \cup Ids \cup {"append", "return", "load", "end"}
    /\ Threshold \in Nat /\ Keep \in Nat \ {0}
    /\ DOMAIN Bounds \subseteq SUBSET {"overlap", "cancel", "others"}
    /\ \A d \in DOMAIN Bounds : Bounds[d] \in [ids : SUBSET Ids, messages : Nat]

VARIABLES allowed,  \* the disturbances of this behaviour: calls that overlap with
                    \* a load or an end, cancelled calls, others' transactions
          cur,      \* the id of _session, or None
          msgs,     \* its messages, numbered in the order they are added
          summary,  \* the messages its summary was made from
          count,    \* its message_count
          told,     \* history: what it was told, or loaded with
          unread,   \* history: it was once loaded without its messages
          clock,    \* the number of messages added so far
          live,     \* the rows the connection sees, per session id
          disk,     \* the rows that are committed
          lock,     \* the task holding _lock, or None
          pc,       \* per task: where it waits
          then,     \* per task: what follows the saving it is at
          row       \* per task: the row or messages load_session has read

session == <<allowed, cur, msgs, summary, count, told, unread>>
vars == <<session, clock, live, disk, lock, pc, then, row>>

NoRow == [there |-> FALSE, summary |-> {}, count |-> 0, msgs |-> <<>>,
          told |-> {}, unread |-> FALSE, final |-> FALSE]

(* The await of the statement or lock each task is at.                     *)
Saving == {"upsert", "delete", "insert", "commit", "rollback"}
PC == {"idle", "wantAdd", "wantStart", "selectMessages"} \cup Saving

(* A task at the SELECT of a session's row is at the session's id.         *)
ASSUME IdAssumption == Ids \cap PC = {}

SetOf(s) == {s[i] : i \in DOMAIN s}

Init == /\ allowed \in DOMAIN Bounds
        /\ cur = None /\ msgs = <<>> /\ summary = {} /\ count = 0 /\ told = {} /\ unread = FALSE
        /\ clock = 0
        /\ live = [i \in Ids |-> NoRow] /\ disk = live
        /\ lock = None
        /\ pc = [t \in Tasks |-> "idle"]
        /\ then = [t \in Tasks |-> None]
        /\ row = [t \in Tasks |-> NoRow]

Goto(t, where) == pc' = [pc EXCEPT ![t] = where]

(* The call ends, returning or raising.                                    *)
Return(t) == /\ Goto(t, "idle")
             /\ then' = [then EXCEPT ![t] = None]
             /\ row' = [row EXCEPT ![t] = NoRow]
             /\ lock' = IF lock = t THEN None ELSE lock

(* asyncio.Lock: taken at once when free and nobody waits.                 *)
Free(t) == lock = None /\ \A u \in Tasks \ {t} : pc[u] \notin {"wantAdd", "wantStart"}

(* Unless calls overlap, load_session and end_session run alone.           *)
Alone(t) == \A u \in Tasks \ {t} : pc[u] = "idle"
NoneAlone == \A u \in Tasks : then[u] \notin {"load", "end"}

-----------------------------------------------------------------------------
(* Mutant: the statements are committed one by one.                        *)
M_SaveRow(t, id, s, n, known, final) ==
    /\ live' = [live EXCEPT ![id] = [there |-> TRUE, summary |-> s, count |-> n, msgs |-> <<>>,
                                     told |-> known, unread |-> unread', final |-> final]]
    /\ Goto(t, "upsert")
    /\ disk' = live'

(* _persist_session.  Its first statement, with the summary s and the      *)
(* count n of session id: INSERT OR REPLACE deletes the old row and, by    *)
(* the foreign key, its messages.  told, unread and final are history.     *)
SaveRow(t, id, s, n, known, final) ==
    /\ live' = [live EXCEPT ![id] = [there |-> TRUE, summary |-> s, count |-> n, msgs |-> <<>>,
                                     told |-> known, unread |-> unread', final |-> final]]
    /\ Goto(t, "upsert")
    /\ UNCHANGED disk

(* The transaction() context manager: an exception rolls back.             *)
Undo(t) == live' = disk /\ Goto(t, "rollback") /\ UNCHANGED disk

SaveDelete(t) ==
    /\ pc[t] = "upsert"
    /\ IF cur = None THEN Undo(t)
       ELSE /\ live' = [live EXCEPT ![cur].msgs = <<>>]
            /\ Goto(t, "delete") /\ UNCHANGED disk
    /\ UNCHANGED <<session, clock, lock, then, row>>

(* The messages need their session's row, and free sequence numbers.       *)
SaveMessages(t) ==
    /\ pc[t] = "delete"
    /\ IF cur = None \/ (msgs # <<>> /\ (~live[cur].there \/ live[cur].msgs # <<>>))
       THEN Undo(t)
       ELSE /\ live' = [live EXCEPT ![cur].msgs = IF msgs = <<>> THEN @ ELSE msgs]
            /\ Goto(t, "insert") /\ UNCHANGED disk
    /\ UNCHANGED <<session, clock, lock, then, row>>

SaveCommit(t) ==
    /\ pc[t] = "insert"
    /\ disk' = live
    /\ Goto(t, "commit")
    /\ UNCHANGED <<session, clock, live, lock, then, row>>

SaveFails(t) ==
    /\ pc[t] \in {"upsert", "delete", "insert"}
    /\ Undo(t)
    /\ UNCHANGED <<session, clock, lock, then, row>>

-----------------------------------------------------------------------------
(* Mutant: a summarisation replaces the summary there was.                 *)
M_Summarize(t, all) ==
    LET older == SubSeq(all, 1, Len(all) - Keep)
        kept  == SubSeq(all, Len(all) - Keep + 1, Len(all))
    IN /\ msgs' = kept
       /\ summary' = SetOf(older)
       /\ count' = Keep
       /\ SaveRow(t, cur, summary', Keep, told', FALSE)
       /\ then' = [then EXCEPT ![t] = "return"]

(* _trigger_summarization: the messages but the last Keep join the summary *)
(* and the result is saved.                                                *)
Summarize(t, all) ==
    LET older == SubSeq(all, 1, Len(all) - Keep)
        kept  == SubSeq(all, Len(all) - Keep + 1, Len(all))
    IN /\ msgs' = kept
       /\ summary' = summary \cup SetOf(older)
       /\ count' = Keep
       /\ SaveRow(t, cur, summary', Keep, told', FALSE)
       /\ then' = [then EXCEPT ![t] = "return"]

(* _start_session_unlocked.  A session needs an id not in use; when the    *)
(* bound of Ids is reached the call gives up.                              *)
Unused == {id \in Bounds[allowed].ids \ {cur} : ~live[id].there /\ ~disk[id].there}

StartSession(t, next) ==
    \/ \E id \in Unused :
         /\ cur' = id /\ msgs' = <<>> /\ summary' = {} /\ count' = 0 /\ told' = {} /\ unread' = FALSE
         /\ SaveRow(t, id, {}, 0, {}, FALSE)
         /\ then' = [then EXCEPT ![t] = next]
         /\ lock' = t
         /\ UNCHANGED <<allowed, clock, row>>
    \/ Unused = {} /\ Return(t) /\ UNCHANGED <<session, clock, live, disk>>

(* The rest of add_message once there is a session.  Too many messages are *)
(* summarised, and so are fewer with too many tokens.                      *)
AppendMessage(t) ==
    LET all == Append(msgs, clock + 1) IN
    /\ clock' = clock + 1
    /\ told' = told \cup {clock + 1}
    /\ UNCHANGED <<allowed, cur, unread>>
    /\ \/ Len(all) > Keep /\ Summarize(t, all) /\ lock' = t /\ UNCHANGED row
       \/ /\ count + 1 <= Threshold \/ Len(all) <= Keep
          /\ msgs' = all /\ count' = count + 1
          /\ Return(t)
          /\ UNCHANGED <<summary, live, disk>>

(* Mutant: a missing session is started with start_session.                *)
M_AddUnderLock(t) ==
    IF cur = None
    THEN Goto(t, "wantStart") /\ lock' = t /\ UNCHANGED <<session, clock, live, disk, then, row>>
    ELSE AppendMessage(t)

AddUnderLock(t) == IF cur = None THEN StartSession(t, "append") ELSE AppendMessage(t)

AddMessage(t) ==
    /\ pc[t] = "idle" /\ clock < Bounds[allowed].messages
    /\ NoneAlone \/ "overlap" \in allowed
    /\ IF Free(t) THEN AddUnderLock(t)
       ELSE Goto(t, "wantAdd") /\ UNCHANGED <<session, clock, live, disk, lock, then, row>>

(* start_session, and get_context_window when there is no session.         *)
Start(t) ==
    /\ pc[t] = "idle" /\ Unused # {}
    /\ NoneAlone \/ "overlap" \in allowed
    /\ IF Free(t) THEN StartSession(t, "return")
       ELSE Goto(t, "wantStart") /\ UNCHANGED <<session, clock, live, disk, lock, then, row>>

TakeLock(t) ==
    /\ lock = None
    /\ \/ pc[t] = "wantAdd" /\ AddUnderLock(t)
       \/ pc[t] = "wantStart" /\ StartSession(t, "return")

(* _persist_session returns, whether it was committed or rolled back.      *)
Saved(t) ==
    /\ pc[t] \in {"commit", "rollback"}
    /\ CASE then[t] = "append" /\ cur # None -> AppendMessage(t)
         [] then[t] = "end" -> /\ cur' = None /\ msgs' = <<>> /\ summary' = {} /\ count' = 0
                               /\ told' = {} /\ unread' = FALSE
                               /\ Return(t) /\ UNCHANGED <<allowed, clock, live, disk>>
         [] OTHER -> Return(t) /\ UNCHANGED <<session, clock, live, disk>>

-----------------------------------------------------------------------------
(* load_session of a stored session, up to its SELECT.                     *)
Load(t) ==
    /\ pc[t] = "idle"
    /\ Alone(t) \/ "overlap" \in allowed
    /\ \E id \in Ids : /\ live[id].there
                      /\ row' = [row EXCEPT ![t] = live[id]]
                      /\ then' = [then EXCEPT ![t] = "load"]
                      /\ Goto(t, id)
    /\ UNCHANGED <<session, clock, live, disk, lock>>

(* The row becomes the current session, still without messages, and their  *)
(* SELECT is issued.  One that fails is only logged: it finds no messages. *)
LoadRow(t) ==
    /\ pc[t] \in Ids
    /\ cur' = pc[t] /\ msgs' = <<>> /\ summary' = row[t].summary /\ count' = row[t].count
    /\ told' = row[t].summary
    /\ \E found \in {live[pc[t]].msgs, <<>>} :
          /\ row' = [row EXCEPT ![t] = [NoRow EXCEPT !.msgs = found]]
          /\ unread' = (row[t].unread \/ found # live[pc[t]].msgs)
    /\ Goto(t, "selectMessages")
    /\ UNCHANGED <<allowed, clock, live, disk, lock, then>>

(* Mutant: the messages are put behind those the session has by then.      *)
M_LoadMessages(t) ==
    /\ pc[t] = "selectMessages"
    /\ msgs' = msgs \o row[t].msgs
    /\ told' = told \cup SetOf(row[t].msgs)
    /\ Return(t)
    /\ UNCHANGED <<allowed, cur, summary, count, unread, clock, live, disk>>

(* They become the messages of the session that is current by now.         *)
LoadMessages(t) ==
    /\ pc[t] = "selectMessages"
    /\ IF cur # None
       THEN msgs' = row[t].msgs /\ told' = told \cup SetOf(row[t].msgs)
       ELSE UNCHANGED <<msgs, told>>
    /\ Return(t)
    /\ UNCHANGED <<allowed, cur, summary, count, unread, clock, live, disk>>

(* end_session: the summary of the messages there are is saved with them.  *)
End(t) ==
    /\ pc[t] = "idle" /\ cur # None
    /\ Alone(t) \/ "overlap" \in allowed
    /\ \/ /\ msgs # <<>>
          /\ UNCHANGED <<cur, msgs, count, told, unread>>
          /\ summary' = SetOf(msgs)
          /\ SaveRow(t, cur, summary', count, told, TRUE)
          /\ then' = [then EXCEPT ![t] = "end"]
       \/ /\ msgs = <<>>
          /\ cur' = None /\ summary' = {} /\ count' = 0 /\ told' = {} /\ unread' = FALSE
          /\ UNCHANGED <<msgs, live, disk, pc, then>>
    /\ UNCHANGED <<allowed, clock, lock, row>>

(* CancelledError is no Exception: transaction() does not roll back.       *)
Cancel(t) ==
    /\ "cancel" \in allowed /\ pc[t] # "idle"
    /\ Return(t)
    /\ UNCHANGED <<session, clock, live, disk>>

(* Another component ends a transaction of its own on the connection.      *)
OtherEnds ==
    /\ "others" \in allowed /\ live # disk
    /\ \/ disk' = live /\ UNCHANGED live
       \/ live' = disk /\ UNCHANGED disk
    /\ UNCHANGED <<session, clock, lock, pc, then, row>>

(* The process dies and starts again.                                      *)
Crash ==
    /\ cur' = None /\ msgs' = <<>> /\ summary' = {} /\ count' = 0 /\ told' = {} /\ unread' = FALSE
    /\ live' = disk
    /\ lock' = None
    /\ pc' = [t \in Tasks |-> "idle"]
    /\ then' = [t \in Tasks |-> None]
    /\ row' = [t \in Tasks |-> NoRow]
    /\ UNCHANGED <<allowed, clock, disk>>

Goes(t) == \/ TakeLock(t) \/ SaveDelete(t) \/ SaveMessages(t) \/ SaveCommit(t) \/ Saved(t)
           \/ LoadRow(t) \/ LoadMessages(t)

Next == \/ \E t \in Tasks : \/ Goes(t) \/ AddMessage(t) \/ Start(t) \/ Load(t) \/ End(t)
                            \/ SaveFails(t) \/ Cancel(t)
        \/ OtherEnds \/ Crash

Spec == Init /\ [][Next]_vars

(* The database answers, and the lock serves its waiters in turn.          *)
FairSpec == Spec /\ \A t \in Tasks : SF_vars(Goes(t))

-----------------------------------------------------------------------------
Rows == [there : BOOLEAN, summary : SUBSET Nat, count : Nat, msgs : Seq(Nat),
         told : SUBSET Nat, unread : BOOLEAN, final : BOOLEAN]

TypeOK == /\ allowed \in DOMAIN Bounds
          /\ cur \in Ids \cup {None}
          /\ msgs \in Seq(1..clock) /\ summary \subseteq 1..clock /\ told \subseteq 1..clock
          /\ count \in 0..clock /\ unread \in BOOLEAN
          /\ clock \in 0..Bounds[allowed].messages + Cardinality(Tasks)
          /\ \A i \in Ids : live[i] \in Rows /\ disk[i] \in Rows
          /\ lock \in Tasks \cup {None}
          /\ \A t \in Tasks : /\ pc[t] \in PC \cup Ids
                             /\ then[t] \in {None, "append", "return", "load", "end"}
                             /\ row[t] \in Rows
                             /\ then[t] \in {"append", "return"} => lock = t

Covers(r) == r.told = r.summary \cup SetOf(r.msgs)

(* Left to run alone, load_session and end_session keep the session whole: *)
(* it knows every message it was told, or was loaded with, in full or in   *)
(* its summary, however often it was summarised, saved and loaded (until   *)
(* it ends).                                                               *)
NothingForgotten ==
    allowed = {} /\ cur # None /\ NoneAlone => told = summary \cup SetOf(msgs)

(* Not so: a current session knows what is stored of it ("Load a session   *)
(* from database, including message history", load_session).  Where the    *)
(* SELECT of the messages fails it does not, and its next save deletes     *)
(* them.                                                                   *)
HistoryLoaded ==
    allowed = {} /\ cur # None /\ NoneAlone =>
       disk[cur].summary \cup SetOf(disk[cur].msgs) \subseteq summary \cup SetOf(msgs)

(* What the session knows, with the messages that a load has read and not  *)
(* yet given to it; what is known of the stored ones.                      *)
Reading == {t \in Tasks : pc[t] = "selectMessages"}
Knows == summary \cup SetOf(msgs) \cup UNION {SetOf(row[t].msgs) : t \in Reading}
Ending == \E t \in Tasks : then[t] = "end"
Stored == [id \in {i \in Ids : disk[i].there} |-> disk[id].summary \cup SetOf(disk[id].msgs)]

Story == INSTANCE Transcript WITH current <- cur, known <- Knows, ending <- Ending, saved <- Stored

(* Where calls do not overlap with a load or an end and are not cancelled, *)
(* the manager behaves as if every session were saved in one step, and     *)
(* loaded as far as it can be read, although each takes several            *)
(* statements, which may fail or be cut off by a crash: summarising        *)
(* forgets nothing, a save is of the current session and all it knows, a   *)
(* load takes nothing but what was saved of that session, and other        *)
(* sessions stay as they are (_persist_session, load_session,              *)
(* _trigger_summarization).                                                *)
ImplementsTranscript ==
    /\ Story!Init
    /\ [][allowed = {} => Story!Next]_(Story!vars)

(* What is committed is a session as it was at one moment: its row and     *)
(* its messages belong together ("Persist session and messages", under a   *)
(* "Lock for concurrent access"), the row's count being of the messages,   *)
(* unless it counts some that a load could not read.                       *)
SavedTogether == \A i \in Ids : ~disk[i].unread => disk[i].count = Len(disk[i].msgs)

(* With failing statements and crashes, but without calls that overlap,    *)
(* are cancelled or commit for each other, that is so, and what is saved   *)
(* covers everything the session had been told by then, with what it was   *)
(* loaded with (_persist_session).  Excepted is end_session's own save:    *)
(* its summary is of the messages in memory only.                          *)
SavedWhole ==
    allowed = {} => SavedTogether /\ \A i \in Ids : ~disk[i].final => Covers(disk[i])

(* Messages stay in the order they were told, in memory and as saved,      *)
(* whatever overlaps, is cancelled or commits in between.                  *)
Increasing(s) == \A i, j \in DOMAIN s : i < j => s[i] < s[j]
OrderKept == Increasing(msgs) /\ \A i \in Ids : Increasing(live[i].msgs) /\ Increasing(disk[i].msgs)

(* Every call ends.                                                        *)
CallsEnd == \A t \in Tasks : pc[t] # "idle" ~> pc[t] = "idle"
=============================================================================
