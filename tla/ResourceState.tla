---------------------------- MODULE ResourceState ----------------------------
(***************************************************************************)
(* The state of cloud resources that provisioning keeps in a database of   *)
(* its own: a row per resource, which the tracker reads, changes in memory *)
(* and writes back whole; snapshots, which store the ids of the resources; *)
(* the drift of a resource from what was expected.  Every operation opens a*)
(* connection of its own, so calls interleave between their statements.    *)
(***************************************************************************)
EXTENDS Naturals

CONSTANTS Clients,     \* concurrent callers of the tracker
          Resources, Configs,
          MaxRequests, \* bound: calls in an execution
          None

VARIABLES table,      \* resource -> row, or None
          snapshot,   \* the ids it stores, or None
          taken,      \* history: the rows there were
          request,    \* per client: the call under way
          requests,
          good,       \* history: the configuration an update under way replaces
          contested   \* history: resources with two calls at the same time

stateVars == <<table, snapshot, taken, request, requests, good, contested>>

NoRequest == [op |-> None, pc |-> "idle", on |-> {}, arg |-> None, rows |-> [r \in Resources |-> None]]

Tracked(c) == [status |-> "pending", expected |-> c, actual |-> None, previous |-> None, error |-> FALSE]

(* What each call makes of the row it has read: update_status, which keeps *)
(* the configuration for rollback when an update begins; mark_failed, in   *)
(* two writes; check_drift.                                                *)
M_Applied(op, arg, row) ==
    CASE op = "updating" -> [row EXCEPT !.status = "updating", !.previous = row.expected]
      [] OTHER -> row

Applied(op, arg, row) ==
    CASE op = "updating" -> [row EXCEPT !.status = "updating", !.previous = row.actual]
      [] op = "active"   -> [row EXCEPT !.status = "active", !.actual = arg]
      [] op = "deleted"  -> [row EXCEPT !.status = "deleted"]
      [] op = "failed"   -> [row EXCEPT !.status = "failed"]
      [] op = "error"    -> [row EXCEPT !.error = TRUE]
      [] op = "drift"    -> [row EXCEPT !.actual = arg]
      [] OTHER -> row
ReadFirst == {"updating", "active", "deleted", "failed", "drift"}

(* What is known of r's last good configuration after the call: whether an *)
(* update of it has begun, and whether a drift check saw another since.    *)
Unknown == [config |-> None, begun |-> FALSE, probed |-> FALSE]
Known(op, arg, known) ==
    CASE op = "updating" -> [known EXCEPT !.begun = TRUE]
      [] op = "active" -> [Unknown EXCEPT !.config = arg]
      [] op = "drift" -> [known EXCEPT !.probed = TRUE]
      [] OTHER -> known

StateInit ==
    /\ table = [r \in Resources |-> None] /\ taken = table
    /\ good = [r \in Resources |-> Unknown]
    /\ snapshot = None /\ contested = {} /\ requests = 0
    /\ request = [c \in Clients |-> NoRequest]

Others(c) == UNION {request[d].on : d \in Clients \ {c}}
Call(c, op, on, arg) ==
    /\ request[c].pc = "idle" /\ requests < MaxRequests
    /\ requests' = requests + 1
    /\ contested' = contested \union (on \intersect Others(c))

Return(c) == request' = [request EXCEPT ![c] = NoRequest]

-----------------------------------------------------------------------------
(* track_resource: INSERT OR REPLACE, whatever row there was.              *)
Track(c, r, config) ==
    /\ Call(c, "track", {r}, config)
    /\ table' = [table EXCEPT ![r] = Tracked(config)]
    /\ good' = [good EXCEPT ![r] = Unknown]
    /\ UNCHANGED <<snapshot, taken, request>>

(* untrack_resource *)
Untrack(c, r) ==
    /\ Call(c, "untrack", {r}, None)
    /\ table' = [table EXCEPT ![r] = None] /\ good' = [good EXCEPT ![r] = Unknown]
    /\ UNCHANGED <<snapshot, taken, request>>

(* update_status, mark_created, mark_updated, mark_deleted, mark_failed and*)
(* check_drift read the row; without one they are done.                    *)
Ask(c, op, r, arg) ==
    /\ Call(c, op, {r}, arg)
    /\ request' = IF table[r] = None THEN request
                  ELSE [request EXCEPT ![c] = [op |-> op, pc |-> "save", on |-> {r}, arg |-> arg,
                                               rows |-> [NoRequest.rows EXCEPT ![r] = table[r]]]]
    /\ UNCHANGED <<table, snapshot, taken, good>>

(* save_resource *)
Save(c, r) ==
    /\ request[c].pc = "save" /\ r \in request[c].on
    /\ LET q == request[c]
           new == Applied(q.op, q.arg, q.rows[r]) IN
       /\ table' = [table EXCEPT ![r] = new]
       /\ good' = [good EXCEPT ![r] = Known(q.op, q.arg, @)]
       /\ request' = [request EXCEPT ![c] =
                        IF q.op = "failed" THEN [q EXCEPT !.op = "error", !.rows[r] = new]
                        ELSE IF q.on = {r} THEN NoRequest
                        ELSE [q EXCEPT !.on = @ \ {r}]]
    /\ UNCHANGED <<snapshot, taken, requests, contested>>

(* create_snapshot lists the rows, then saves their ids.                   *)
TakeSnapshot(c) ==
    /\ Call(c, "snapshot", {}, None)
    /\ request' = [request EXCEPT ![c] = [NoRequest EXCEPT !.op = "snapshot", !.pc = "store", !.rows = table]]
    /\ UNCHANGED <<table, snapshot, taken, good>>

StoreSnapshot(c) ==
    /\ request[c].pc = "store"
    /\ snapshot' = {r \in Resources : request[c].rows[r] # None}
    /\ taken' = request[c].rows
    /\ Return(c)
    /\ UNCHANGED <<table, requests, good, contested>>

(* restore_snapshot: get_snapshot reads the ids, then the row that each of *)
(* them has now, and raises when one has none; the rows are saved again.   *)
Restore(c) ==
    /\ snapshot \notin {None, {}} /\ Call(c, "restore", snapshot, None)
    /\ request' = [request EXCEPT ![c] = [NoRequest EXCEPT !.op = "restore", !.pc = "read", !.on = snapshot]]
    /\ UNCHANGED <<table, snapshot, taken, good>>

ReadRow(c, r) ==
    /\ request[c].pc = "read" /\ r \in request[c].on /\ request[c].rows[r] = None
    /\ LET q == [request[c] EXCEPT !.rows[r] = table[r]] IN
       IF table[r] = None THEN Return(c)
       ELSE request' = [request EXCEPT ![c] =
                          [q EXCEPT !.pc = IF \E s \in q.on : q.rows[s] = None THEN "read" ELSE "save"]]
    /\ UNCHANGED <<table, snapshot, taken, requests, good, contested>>

(* clear_all *)
ClearAll(c) ==
    /\ Call(c, "clear", Resources, None)
    /\ table' = [r \in Resources |-> None] /\ snapshot' = None
    /\ good' = [r \in Resources |-> Unknown]
    /\ UNCHANGED <<taken, request>>

(* The call fails or is cancelled, or the process dies with all of them.   *)
Abandon(c) ==
    /\ request[c].pc # "idle" /\ Return(c)
    /\ UNCHANGED <<table, snapshot, taken, requests, good, contested>>

StateNext ==
    \E c \in Clients :
       \/ \E r \in Resources :
             \/ \E g \in Configs : Track(c, r, g) \/ Ask(c, "active", r, g) \/ Ask(c, "drift", r, g)
             \/ \E op \in ReadFirst \ {"active", "drift"} : Ask(c, op, r, None)
             \/ Untrack(c, r) \/ Save(c, r) \/ ReadRow(c, r)
       \/ TakeSnapshot(c) \/ StoreSnapshot(c) \/ Restore(c) \/ ClearAll(c) \/ Abandon(c)

-----------------------------------------------------------------------------
(* From the beginning of an update until it has succeeded, through failures*)
(* and further attempts, the configuration for a rollback is the last one  *)
(* that was active; unless a drift check has looked meanwhile, or two calls*)
(* have worked on the resource at the same time (update_status,            *)
(* save_for_rollback, mark_failed, restore_snapshot).                      *)
RollbackIsLastGood ==
    \A r \in Resources \ contested :
        table[r] # None /\ good[r].begun /\ ~good[r].probed => table[r].previous = good[r].config

(* "Snapshots enable point-in-time recovery" (docs/architecture.md): a     *)
(* restored resource has the configuration it had in the snapshot.         *)
RestoreRecovers ==
    \A c \in Clients, r \in Resources :
        request[c].op = "restore" /\ request[c].pc = "save" /\ contested = {} =>
            request[c].rows[r] = IF r \in snapshot THEN taken[r] ELSE None
=============================================================================
