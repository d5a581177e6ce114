--------------------------- MODULE SessionProofs ---------------------------
(***************************************************************************)
(* Theorems about Session: the order of messages for all calls, however    *)
(* they overlap, and the completeness of what is kept and saved for calls  *)
(* that do not, for every number of tasks, sessions and messages.          *)
(***************************************************************************)
EXTENDS Session, TLAPS

(* Messages that are among the first n, in order.                          *)
Ordered(s, n) == s \in Seq(1..n) /\ Increasing(s)
Orderly(f, S, n) == f \in [S -> Rows] /\ \A x \in S : Ordered(f[x].msgs, n)

(* Wherever messages are held, they are in order, and the next one is new. *)
OrderInv ==
    /\ allowed \in DOMAIN Bounds /\ clock \in Nat
    /\ cur \in Ids \cup {None} /\ count \in Nat
    /\ summary \subseteq Nat /\ told \subseteq Nat /\ unread \in BOOLEAN
    /\ Ordered(msgs, clock)
    /\ Orderly(live, Ids, clock) /\ Orderly(disk, Ids, clock) /\ Orderly(row, Tasks, clock)
    /\ pc \in [Tasks -> PC \cup Ids]
    /\ then \in [Tasks -> {None, "append", "return", "load", "end"}]
    /\ lock \in Tasks \cup {None}

(* Who saves holds the lock, or is in an end_session that runs alone.      *)
Locks ==
    \A t \in Tasks :
       /\ lock = t <=> then[t] \in {"append", "return"}
       /\ then[t] \in {"append", "return", "end"} <=> pc[t] \in Saving
       /\ then[t] = "load" <=> pc[t] \in Ids \cup {"selectMessages"}
       /\ then[t] \in {"load", "end"} => \A u \in Tasks \ {t} : pc[u] = "idle"

(* How far the transaction of the one who saves has come.                  *)
Saves(t, m) ==
    /\ \A i \in Ids \ {cur} : live[i] = disk[i]
    /\ live[cur].there /\ live[cur].msgs = m /\ live[cur].count = count
    /\ live[cur].summary = summary /\ live[cur].told = told /\ live[cur].unread = unread
    /\ then[t] = "end" => live[cur].final
Transaction(t) ==
    /\ pc[t] \in {"upsert", "delete", "insert"} => cur # None
    /\ pc[t] \in {"upsert", "delete"} => Saves(t, <<>>)
    /\ pc[t] = "insert" => Saves(t, msgs)
    /\ pc[t] \in {"commit", "rollback"} => live = disk

(* What a load has read is what is stored, or no messages if they could    *)
(* not be read; until it is over, the session has none.                    *)
Loading(t) ==
    /\ pc[t] \in Ids => row[t] = disk[pc[t]] /\ row[t].there
    /\ pc[t] = "selectMessages" => /\ msgs = <<>> /\ told = summary /\ cur # None
                                   /\ ~unread => count = Len(row[t].msgs)

(* The count of a session is of its messages.                              *)
Counts == ~unread => count = Len(msgs)

WholeInv ==
    /\ Locks
    /\ \A t \in Tasks : Transaction(t) /\ Loading(t)
    /\ (\A t \in Tasks : pc[t] \notin Saving) => live = disk
    /\ (\A t \in Tasks : pc[t] # "selectMessages") => Counts
    /\ (\A t \in Tasks : then[t] # "end") => told = summary \cup SetOf(msgs)
    /\ SavedTogether /\ \A i \in Ids : ~disk[i].final => Covers(disk[i])

IInv == OrderInv /\ (allowed = {} => WholeInv)
-----------------------------------------------------------------------------
(* Sequences of messages.                                                  *)
LEMMA EmptyOrdered == ASSUME NEW n \in Nat PROVE Ordered(<<>>, n)
BY DEF Ordered, Increasing

LEMMA OrderedLater ==
    ASSUME NEW m \in Nat, NEW n \in Nat, m <= n, NEW s, Ordered(s, m) PROVE Ordered(s, n)
<1>1. 1..m \subseteq 1..n
  OBVIOUS
<1> QED BY <1>1 DEF Ordered

LEMMA OrderedNat == ASSUME NEW n \in Nat, NEW s, Ordered(s, n) PROVE s \in Seq(Nat)
<1>1. 1..n \subseteq Nat
  OBVIOUS
<1> QED BY <1>1 DEF Ordered

LEMMA AppendOrdered ==
    ASSUME NEW n \in Nat, NEW s, Ordered(s, n) PROVE Ordered(Append(s, n + 1), n + 1)
<1> DEFINE a == Append(s, n + 1)
<1>1. s \in Seq(1..n) /\ 1..n \subseteq 1..n+1
  BY DEF Ordered
<1>2. a \in Seq(1..n+1) /\ Len(a) = Len(s) + 1
  BY <1>1
<1>3. \A i \in 1..Len(s) : a[i] = s[i] /\ s[i] \in 1..n
  BY <1>1
<1>4. a[Len(s) + 1] = n + 1
  BY <1>1
<1>5. ASSUME NEW i \in DOMAIN a, NEW j \in DOMAIN a, i < j PROVE a[i] < a[j]
  <2>1. i \in 1..Len(s) /\ j \in 1..Len(s)+1
    BY <1>1, <1>2, <1>5
  <2>2. CASE j \in 1..Len(s)
    BY <1>1, <1>3, <1>5, <2>1, <2>2 DEF Ordered, Increasing
  <2>3. CASE j = Len(s) + 1
    BY <1>3, <1>4, <2>1, <2>3
  <2> QED BY <2>1, <2>2, <2>3
<1> QED BY <1>2, <1>5 DEF Ordered, Increasing

(* The part of a session that is summarised, and the part that stays.      *)
LEMMA Splitting ==
    ASSUME NEW n \in Nat, NEW s, Ordered(s, n), NEW k \in Nat, Len(s) > k
    PROVE  LET older == SubSeq(s, 1, Len(s) - k)
               kept  == SubSeq(s, Len(s) - k + 1, Len(s))
           IN  /\ Ordered(kept, n) /\ Len(kept) = k
               /\ SetOf(older) \subseteq 1..n
               /\ SetOf(s) = SetOf(older) \cup SetOf(kept)
<1> DEFINE older == SubSeq(s, 1, Len(s) - k)
           kept == SubSeq(s, Len(s) - k + 1, Len(s))
<1>1. s \in Seq(1..n) /\ Len(s) \in Nat
  BY DEF Ordered
<1>2. /\ older \in Seq(1..n) /\ Len(older) = Len(s) - k
      /\ \A i \in 1..Len(s) - k : older[i] = s[i]
  BY <1>1
<1>3. /\ kept \in Seq(1..n) /\ Len(kept) = k
      /\ \A i \in 1..k : kept[i] = s[Len(s) - k + i]
  BY <1>1
<1>d. DOMAIN s = 1..Len(s) /\ DOMAIN older = 1..Len(s) - k /\ DOMAIN kept = 1..k
  BY <1>1, <1>2, <1>3
<1> HIDE DEF older, kept
<1>4. Ordered(kept, n)
  <2>1. ASSUME NEW i \in 1..k, NEW j \in 1..k, i < j PROVE kept[i] < kept[j]
    <3>1. /\ Len(s) - k + i \in 1..Len(s) /\ Len(s) - k + j \in 1..Len(s)
          /\ Len(s) - k + i < Len(s) - k + j
      BY <1>1, <2>1
    <3>2. s[Len(s) - k + i] < s[Len(s) - k + j]
      BY <1>d, <3>1 DEF Ordered, Increasing
    <3> QED BY <1>3, <3>2
  <2> QED BY <1>3, <1>d, <2>1 DEF Ordered, Increasing
<1>5. SetOf(older) \subseteq 1..n
  BY <1>2 DEF SetOf
<1>6. ASSUME NEW i \in 1..Len(s) PROVE s[i] \in SetOf(older) \cup SetOf(kept)
  <2>1. CASE i <= Len(s) - k
    <3>1. i \in 1..Len(s) - k
      BY <1>1, <2>1
    <3> QED BY <1>2, <1>d, <3>1 DEF SetOf
  <2>2. CASE i > Len(s) - k
    <3>1. PICK j \in 1..k : i = Len(s) - k + j
      <4>1. i - (Len(s) - k) \in 1..k /\ i = Len(s) - k + (i - (Len(s) - k))
        BY <1>1, <2>2
      <4> QED BY <4>1
    <3>2. kept[j] = s[i]
      BY <1>3, <3>1
    <3> QED BY <1>d, <3>1, <3>2 DEF SetOf
  <2> QED BY <1>1, <2>1, <2>2
<1>7. SetOf(older) \cup SetOf(kept) \subseteq SetOf(s)
  <2>1. \A i \in 1..Len(s) - k : i \in 1..Len(s)
    BY <1>1
  <2>2. \A i \in 1..k : Len(s) - k + i \in 1..Len(s)
    BY <1>1
  <2>3. SetOf(older) \subseteq SetOf(s)
    BY <1>2, <1>d, <2>1 DEF SetOf
  <2>4. SetOf(kept) \subseteq SetOf(s)
    BY <1>3, <1>d, <2>2 DEF SetOf
  <2> QED BY <2>3, <2>4
<1>8. SetOf(s) \subseteq SetOf(older) \cup SetOf(kept)
  BY <1>d, <1>6 DEF SetOf
<1> QED BY <1>3, <1>4, <1>5, <1>7, <1>8 DEF older, kept

LEMMA SetOfEmpty == SetOf(<<>>) = {}
BY DEF SetOf

LEMMA SetOfOrdered == ASSUME NEW n \in Nat, NEW s, Ordered(s, n) PROVE SetOf(s) \subseteq Nat
<1>1. s \in Seq(1..n) /\ 1..n \subseteq Nat
  BY DEF Ordered
<1>2. \A i \in 1..Len(s) : s[i] \in 1..n
  BY <1>1
<1>3. DOMAIN s = 1..Len(s)
  BY <1>1
<1> QED BY <1>1, <1>2, <1>3 DEF SetOf

LEMMA SetOfAppend == ASSUME NEW n \in Nat, NEW s \in Seq(Nat)
                     PROVE  SetOf(Append(s, n)) = SetOf(s) \cup {n}
<1> DEFINE a == Append(s, n)
<1>1. Len(a) = Len(s) + 1 /\ a[Len(s) + 1] = n /\ \A i \in 1..Len(s) : a[i] = s[i]
  OBVIOUS
<1>2. DOMAIN a = 1..Len(s)+1 /\ DOMAIN s = 1..Len(s) /\ Len(s) \in Nat
  BY <1>1
<1> HIDE DEF a
<1>3. SetOf(a) \subseteq SetOf(s) \cup {n}
  BY <1>1, <1>2 DEF SetOf
<1>4. SetOf(s) \cup {n} \subseteq SetOf(a)
  <2>1. \A i \in 1..Len(s) : i \in DOMAIN a
    BY <1>2
  <2>2. Len(s) + 1 \in DOMAIN a
    BY <1>2
  <2> QED BY <1>1, <1>2, <2>1, <2>2 DEF SetOf
<1> QED BY <1>3, <1>4 DEF a

(* Rows.                                                                   *)
LEMMA OrderlyLater ==
    ASSUME NEW m \in Nat, NEW n \in Nat, m <= n, NEW f, NEW S, Orderly(f, S, m)
    PROVE  Orderly(f, S, n)
BY OrderedLater DEF Orderly

LEMMA OrderlyPut ==
    ASSUME NEW n \in Nat, NEW f, NEW S, Orderly(f, S, n), NEW x \in S,
           NEW r \in Rows, Ordered(r.msgs, n)
    PROVE  Orderly([f EXCEPT ![x] = r], S, n)
BY DEF Orderly

LEMMA OrderlyMessages ==
    ASSUME NEW n \in Nat, NEW f, NEW S, Orderly(f, S, n), NEW x \in S, NEW m, Ordered(m, n)
    PROVE  Orderly([f EXCEPT ![x].msgs = m], S, n)
<1>1. m \in Seq(Nat)
  <2>1. 1..n \subseteq Nat
    OBVIOUS
  <2> QED BY <2>1 DEF Ordered
<1>2. f[x] \in Rows
  BY DEF Orderly
<1>3. [f[x] EXCEPT !.msgs = m] \in Rows /\ [f[x] EXCEPT !.msgs = m].msgs = m
  BY <1>1, <1>2 DEF Rows
<1>4. [f EXCEPT ![x].msgs = m] = [f EXCEPT ![x] = [f[x] EXCEPT !.msgs = m]]
  OBVIOUS
<1> QED BY <1>3, <1>4, OrderlyPut

LEMMA NoRowOrderly == ASSUME NEW n \in Nat PROVE NoRow \in Rows /\ Ordered(NoRow.msgs, n)
<1>1. NoRow.msgs = <<>>
  BY DEF NoRow
<1> QED BY <1>1, EmptyOrdered DEF NoRow, Rows
-----------------------------------------------------------------------------
(* The order of messages.                                                  *)
LEMMA OrderInit == Init => OrderInv
<1> SUFFICES ASSUME Init PROVE OrderInv
  OBVIOUS
<1>1. NoRow \in Rows /\ Ordered(NoRow.msgs, 0) /\ Ordered(<<>>, 0)
  BY NoRowOrderly, EmptyOrdered
<1>2. Orderly(live, Ids, 0) /\ Orderly(disk, Ids, 0) /\ Orderly(row, Tasks, 0)
  BY <1>1 DEF Init, Orderly
<1>3. pc \in [Tasks -> PC \cup Ids]
  BY DEF Init, PC
<1> QED BY <1>1, <1>2, <1>3 DEF Init, OrderInv

LEMMA Going ==
    ASSUME OrderInv, NEW t \in Tasks, NEW where \in PC \cup Ids, Goto(t, where)
    PROVE  pc' \in [Tasks -> PC \cup Ids] /\ pc'[t] = where /\ \A u \in Tasks \ {t} : pc'[u] = pc[u]
BY DEF OrderInv, Goto

LEMMA Follows ==
    ASSUME OrderInv, NEW t \in Tasks, NEW next \in {None, "append", "return", "load", "end"},
           then' = [then EXCEPT ![t] = next]
    PROVE  /\ then' \in [Tasks -> {None, "append", "return", "load", "end"}] /\ then'[t] = next
           /\ \A u \in Tasks \ {t} : then'[u] = then[u]
BY DEF OrderInv

LEMMA Returns ==
    ASSUME OrderInv, NEW t \in Tasks, Return(t)
    PROVE  /\ pc' \in [Tasks -> PC \cup Ids] /\ pc'[t] = "idle" /\ \A u \in Tasks \ {t} : pc'[u] = pc[u]
           /\ then' \in [Tasks -> {None, "append", "return", "load", "end"}] /\ then'[t] = None
           /\ \A u \in Tasks \ {t} : then'[u] = then[u]
           /\ Orderly(row', Tasks, clock) /\ \A u \in Tasks \ {t} : row'[u] = row[u]
           /\ lock' \in Tasks \cup {None} /\ lock' = IF lock = t THEN None ELSE lock
<1>1. "idle" \in PC \cup Ids
  BY DEF PC
<1>2. Orderly(row', Tasks, clock) /\ \A u \in Tasks \ {t} : row'[u] = row[u]
  <2>1. Orderly(row, Tasks, clock) /\ clock \in Nat
    BY DEF OrderInv
  <2>2. row' = [row EXCEPT ![t] = NoRow]
    BY DEF Return
  <2>3. row \in [Tasks -> Rows]
    BY <2>1 DEF Orderly
  <2> QED BY <2>1, <2>2, <2>3, NoRowOrderly, OrderlyPut
<1>3. lock' \in Tasks \cup {None} /\ lock' = IF lock = t THEN None ELSE lock
  BY DEF Return, OrderInv
<1>4. Goto(t, "idle") /\ then' = [then EXCEPT ![t] = None]
  BY DEF Return
<1> QED BY <1>1, <1>2, <1>3, <1>4, Going, Follows

LEMMA SavesRow ==
    ASSUME OrderInv, NEW t \in Tasks, NEW id \in Ids, NEW s \in SUBSET Nat, NEW n \in Nat,
           NEW known \in SUBSET Nat, NEW final \in BOOLEAN, SaveRow(t, id, s, n, known, final),
           unread' \in BOOLEAN
    PROVE  /\ Orderly(live', Ids, clock) /\ UNCHANGED disk
           /\ live' = [live EXCEPT ![id] = [there |-> TRUE, summary |-> s, count |-> n, msgs |-> <<>>,
                                            told |-> known, unread |-> unread', final |-> final]]
           /\ pc' \in [Tasks -> PC \cup Ids] /\ pc'[t] = "upsert" /\ \A u \in Tasks \ {t} : pc'[u] = pc[u]
<1> DEFINE r == [there |-> TRUE, summary |-> s, count |-> n, msgs |-> <<>>, told |-> known, unread |-> unread', final |-> final]
<1>1. r \in Rows /\ r.msgs = <<>>
  BY DEF Rows
<1>2. Orderly(live, Ids, clock) /\ clock \in Nat
  BY DEF OrderInv
<1>3. live' = [live EXCEPT ![id] = r] /\ UNCHANGED disk /\ Goto(t, "upsert")
  BY DEF SaveRow
<1>4. Ordered(r.msgs, clock)
  BY <1>1, <1>2, EmptyOrdered
<1> HIDE DEF r
<1>5. Orderly(live', Ids, clock)
  BY <1>1, <1>2, <1>3, <1>4, OrderlyPut
<1>6. "upsert" \in PC \cup Ids
  BY DEF PC, Saving
<1> QED BY <1>3, <1>5, <1>6, Going DEF r

(* A step of the statements of a transaction.                              *)
LEMMA OrderOfStatements ==
    ASSUME OrderInv, NEW t \in Tasks,
           SaveDelete(t) \/ SaveMessages(t) \/ SaveCommit(t) \/ SaveFails(t)
    PROVE  OrderInv'
<1>1. UNCHANGED <<allowed, cur, msgs, summary, count, told, unread, clock, lock, then, row>>
  BY DEF SaveDelete, SaveMessages, SaveCommit, SaveFails, session
<1>2. Orderly(live, Ids, clock) /\ Orderly(disk, Ids, clock) /\ clock \in Nat /\ cur \in Ids \cup {None}
      /\ Ordered(msgs, clock) /\ Ordered(<<>>, clock)
  BY EmptyOrdered DEF OrderInv
<1>3. PICK where \in {"rollback", "delete", "insert", "commit"} : Goto(t, where)
  BY DEF SaveDelete, SaveMessages, SaveCommit, SaveFails, Undo
<1>4. pc' \in [Tasks -> PC \cup Ids]
  BY <1>3, Going DEF PC, Saving
<1>5. Orderly(live', Ids, clock) /\ Orderly(disk', Ids, clock)
  <2>1. CASE SaveDelete(t)
    <3>1. CASE cur = None
      BY <1>2, <2>1, <3>1 DEF SaveDelete, Undo
    <3>2. CASE cur # None
      <4>1. live' = [live EXCEPT ![cur].msgs = <<>>] /\ disk' = disk /\ cur \in Ids
        BY <1>2, <2>1, <3>2 DEF SaveDelete
      <4> QED BY <1>2, <4>1, OrderlyMessages
    <3> QED BY <3>1, <3>2
  <2>2. CASE SaveMessages(t)
    <3>1. CASE Undo(t)
      BY <1>2, <3>1 DEF Undo
    <3>2. CASE /\ cur # None /\ disk' = disk
               /\ live' = [live EXCEPT ![cur].msgs = IF msgs = <<>> THEN @ ELSE msgs]
      <4>0. disk' = disk
        BY <3>2
      <4>1. cur \in Ids
        BY <1>2, <3>2
      <4>2. CASE msgs = <<>>
        <5>1. live' = [live EXCEPT ![cur].msgs = live[cur].msgs] /\ Ordered(live[cur].msgs, clock)
          BY <1>2, <3>2, <4>1, <4>2 DEF Orderly
        <5> QED BY <1>2, <4>0, <4>1, <5>1, OrderlyMessages
      <4>3. CASE msgs # <<>>
        <5>1. live' = [live EXCEPT ![cur].msgs = msgs]
          BY <3>2, <4>3
        <5> QED BY <1>2, <4>0, <4>1, <5>1, OrderlyMessages
      <4> QED BY <4>2, <4>3
    <3> QED BY <2>2, <3>1, <3>2 DEF SaveMessages
  <2>3. CASE SaveCommit(t) \/ SaveFails(t)
    BY <1>2, <2>3 DEF SaveCommit, SaveFails, Undo
  <2> QED BY <2>1, <2>2, <2>3
<1> QED BY <1>1, <1>4, <1>5 DEF OrderInv

LEMMA OrderOfStart ==
    ASSUME OrderInv, NEW t \in Tasks, NEW next \in {"append", "return"}, StartSession(t, next)
    PROVE  OrderInv'
<1>0. Orderly(disk, Ids, clock) /\ Orderly(live, Ids, clock) /\ Ordered(<<>>, clock) /\ clock \in Nat
  BY EmptyOrdered DEF OrderInv
<1>1. CASE Unused = {} /\ Return(t) /\ UNCHANGED <<session, clock, live, disk>>
  <2>1. UNCHANGED <<allowed, cur, msgs, summary, count, told, unread, clock, live, disk>>
    BY <1>1 DEF session
  <2> QED BY <1>1, <2>1, Returns DEF OrderInv
<1>2. ASSUME NEW id \in Unused,
             /\ cur' = id /\ msgs' = <<>> /\ summary' = {} /\ count' = 0 /\ told' = {}
             /\ unread' = FALSE /\ SaveRow(t, id, {}, 0, {}, FALSE)
             /\ then' = [then EXCEPT ![t] = next]
             /\ lock' = t
             /\ UNCHANGED <<allowed, clock, row>>
      PROVE  OrderInv'
  <2>1. id \in Ids
    BY SessionAssumption DEF Unused, OrderInv
  <2>2. /\ Orderly(live', Ids, clock) /\ UNCHANGED disk /\ pc' \in [Tasks -> PC \cup Ids]
    BY <1>2, <2>1, SavesRow
  <2>3. then' \in [Tasks -> {None, "append", "return", "load", "end"}]
    BY <1>2, Follows
  <2> QED BY <1>0, <1>2, <2>1, <2>2, <2>3 DEF OrderInv
<1> QED BY <1>1, <1>2 DEF StartSession

LEMMA OrderOfAppend ==
    ASSUME OrderInv, NEW t \in Tasks, cur # None, AppendMessage(t) PROVE OrderInv'
<1> DEFINE all == Append(msgs, clock + 1)
<1>0. /\ clock' = clock + 1 /\ told' = told \cup {clock + 1}
      /\ UNCHANGED <<allowed, cur, unread>>
  BY DEF AppendMessage
<1>1. clock \in Nat /\ clock' = clock + 1 /\ clock' \in Nat /\ cur \in Ids /\ UNCHANGED <<allowed, cur>>
      /\ told' = told \cup {clock + 1} /\ told' \subseteq Nat /\ unread' \in BOOLEAN
  BY <1>0 DEF OrderInv
<1>2. Ordered(all, clock') /\ Len(all) \in Nat
  <2>1. Ordered(all, clock + 1)
    BY <1>1, AppendOrdered DEF OrderInv
  <2> QED BY <1>1, <2>1 DEF Ordered
<1>3. Orderly(live, Ids, clock') /\ Orderly(disk, Ids, clock') /\ Orderly(row, Tasks, clock')
  BY <1>1, OrderlyLater DEF OrderInv
<1>4. count \in Nat /\ summary \subseteq Nat /\ told \subseteq Nat
  BY DEF OrderInv
<1> HIDE DEF all
<1>5. CASE Len(all) > Keep /\ Summarize(t, all) /\ lock' = t /\ UNCHANGED row
  <2> DEFINE older == SubSeq(all, 1, Len(all) - Keep)
             kept == SubSeq(all, Len(all) - Keep + 1, Len(all))
  <2>1. /\ msgs' = kept /\ summary' = summary \cup SetOf(older) /\ count' = Keep
        /\ SaveRow(t, cur, summary', Keep, told', FALSE) /\ then' = [then EXCEPT ![t] = "return"]
    BY <1>5 DEF Summarize
  <2>2. Ordered(kept, clock') /\ SetOf(older) \subseteq 1..clock'
    BY <1>1, <1>2, <1>5, Splitting, SessionAssumption
  <2> HIDE DEF older, kept
  <2>3. summary' \subseteq Nat
    <3>1. 1..clock' \subseteq Nat
      BY <1>1
    <3> QED BY <1>4, <2>1, <2>2, <3>1
  <2>4. Orderly(live', Ids, clock) /\ UNCHANGED disk /\ pc' \in [Tasks -> PC \cup Ids]
    BY <1>1, <2>1, <2>3, SavesRow, SessionAssumption
  <2>5. Orderly(live', Ids, clock')
    BY <1>1, <2>4, OrderlyLater
  <2>6. then' \in [Tasks -> {None, "append", "return", "load", "end"}]
    BY <2>1, Follows
  <2> QED BY <1>1, <1>3, <1>5, <2>1, <2>2, <2>3, <2>4, <2>5, <2>6, SessionAssumption DEF OrderInv
<1>6. CASE /\ msgs' = all /\ count' = count + 1
           /\ Return(t)
           /\ UNCHANGED <<summary, live, disk>>
  <2>1. Orderly(row', Tasks, clock')
    BY <1>1, <1>6, Returns, OrderlyLater
  <2> QED BY <1>1, <1>2, <1>3, <1>4, <1>6, <2>1, Returns DEF OrderInv
<1> QED BY <1>5, <1>6 DEF AppendMessage, all

LEMMA OrderOfAdd == ASSUME OrderInv, NEW t \in Tasks, AddUnderLock(t) PROVE OrderInv'
BY OrderOfStart, OrderOfAppend DEF AddUnderLock

LEMMA OrderOfOthers ==
    ASSUME OrderInv, NEW t \in Tasks,
           Load(t) \/ LoadRow(t) \/ LoadMessages(t) \/ End(t) \/ Cancel(t)
    PROVE  OrderInv'
<1>0. /\ clock \in Nat /\ Ordered(<<>>, clock) /\ Ordered(msgs, clock) /\ summary \subseteq Nat /\ told \subseteq Nat
      /\ Orderly(live, Ids, clock) /\ Orderly(disk, Ids, clock) /\ Orderly(row, Tasks, clock)
      /\ cur \in Ids \cup {None} /\ count \in Nat
  BY EmptyOrdered DEF OrderInv
<1>r. /\ \A i \in Ids : live[i] \in Rows /\ Ordered(live[i].msgs, clock)
      /\ row[t] \in Rows /\ Ordered(row[t].msgs, clock)
  BY <1>0 DEF Orderly
<1>s. ASSUME NEW s, Ordered(s, clock) PROVE SetOf(s) \subseteq Nat
  BY <1>0, <1>s, SetOfOrdered
<1>1. CASE Load(t)
  <2>1. PICK i \in Ids : /\ row' = [row EXCEPT ![t] = live[i]]
                         /\ then' = [then EXCEPT ![t] = "load"] /\ Goto(t, i)
    BY <1>1 DEF Load
  <2>2. UNCHANGED <<allowed, cur, msgs, summary, count, told, unread, clock, live, disk, lock>>
    BY <1>1 DEF Load, session
  <2>3. Orderly(row', Tasks, clock)
    BY <1>0, <1>r, <2>1, OrderlyPut
  <2> QED BY <2>1, <2>2, <2>3, Going, Follows DEF OrderInv
<1>2. CASE LoadRow(t)
  <2>1. PICK found \in {live[pc[t]].msgs, <<>>} :
           /\ pc[t] \in Ids /\ UNCHANGED <<allowed, clock, live, disk, lock, then>>
           /\ cur' = pc[t] /\ msgs' = <<>> /\ summary' = row[t].summary /\ count' = row[t].count
           /\ told' = row[t].summary
           /\ row' = [row EXCEPT ![t] = [NoRow EXCEPT !.msgs = found]]
           /\ unread' = (row[t].unread \/ found # live[pc[t]].msgs)
           /\ Goto(t, "selectMessages")
    BY <1>2 DEF LoadRow
  <2>f. Ordered(found, clock) /\ found \in Seq(Nat)
    BY <1>0, <1>r, <2>1, OrderedNat
  <2>2. [NoRow EXCEPT !.msgs = found] \in Rows
    BY <2>f DEF NoRow, Rows
  <2>3. [NoRow EXCEPT !.msgs = found].msgs = found
    BY DEF NoRow
  <2>4. Orderly(row', Tasks, clock)
    BY <1>0, <2>1, <2>f, <2>2, <2>3, OrderlyPut
  <2>5. summary' \subseteq Nat /\ count' \in Nat /\ unread' \in BOOLEAN
    BY <1>r, <2>1 DEF Rows
  <2>6. pc' \in [Tasks -> PC \cup Ids]
    BY <2>1, Going DEF PC
  <2> QED BY <1>0, <2>1, <2>4, <2>5, <2>6 DEF OrderInv
<1>3. CASE LoadMessages(t)
  <2>1. /\ UNCHANGED <<allowed, cur, summary, count, unread, clock, live, disk>> /\ Return(t)
        /\ msgs' \in {msgs, row[t].msgs} /\ told' \in {told, told \cup SetOf(row[t].msgs)}
    BY <1>3 DEF LoadMessages
  <2>2. told' \subseteq Nat /\ Ordered(msgs', clock)
    BY <1>0, <1>r, <1>s, <2>1
  <2> QED BY <1>0, <2>1, <2>2, Returns DEF OrderInv
<1>4. CASE End(t)
  <2>1. UNCHANGED <<allowed, clock, lock, row>> /\ cur # None
    BY <1>4 DEF End
  <2>2. CASE /\ msgs # <<>> /\ summary' = SetOf(msgs) /\ SaveRow(t, cur, summary', count, told, TRUE)
             /\ then' = [then EXCEPT ![t] = "end"] /\ UNCHANGED <<cur, msgs, count, told, unread>>
    <3>1. summary' \subseteq Nat /\ cur \in Ids
      BY <1>0, <1>s, <2>1, <2>2
    <3>u. unread' \in BOOLEAN
      BY <2>2 DEF OrderInv
    <3>2. Orderly(live', Ids, clock) /\ UNCHANGED disk /\ pc' \in [Tasks -> PC \cup Ids]
      BY <1>0, <2>2, <3>1, <3>u, SavesRow
    <3> QED BY <2>1, <2>2, <3>1, <3>2, Follows DEF OrderInv
  <2>3. CASE /\ cur' = None /\ summary' = {} /\ count' = 0 /\ told' = {} /\ unread' = FALSE
             /\ UNCHANGED <<msgs, live, disk, pc, then>>
    BY <2>1, <2>3 DEF OrderInv
  <2> QED BY <1>4, <2>2, <2>3 DEF End
<1>5. CASE Cancel(t)
  <2>1. UNCHANGED <<allowed, cur, msgs, summary, count, told, unread, clock, live, disk>> /\ Return(t)
    BY <1>5 DEF Cancel, session
  <2> QED BY <2>1, Returns DEF OrderInv
<1> QED BY <1>1, <1>2, <1>3, <1>4, <1>5

LEMMA OrderNext == OrderInv /\ [Next]_vars => OrderInv'
<1> SUFFICES ASSUME OrderInv, [Next]_vars PROVE OrderInv'
  OBVIOUS
<1>1. ASSUME NEW t \in Tasks, AddMessage(t) \/ Start(t) PROVE OrderInv'
  <2>1. CASE AddUnderLock(t)
    BY <2>1, OrderOfAdd
  <2>2. CASE StartSession(t, "return")
    BY <2>2, OrderOfStart
  <2>3. CASE /\ Goto(t, "wantAdd") \/ Goto(t, "wantStart")
             /\ UNCHANGED <<session, clock, live, disk, lock, then, row>>
    <3>1. UNCHANGED <<allowed, cur, msgs, summary, count, told, unread>>
      BY <2>3 DEF session
    <3>2. pc' \in [Tasks -> PC \cup Ids]
      BY <2>3, Going DEF PC
    <3> QED BY <2>3, <3>1, <3>2 DEF OrderInv
  <2> QED BY <1>1, <2>1, <2>2, <2>3 DEF AddMessage, Start
<1>2. ASSUME NEW t \in Tasks, TakeLock(t) PROVE OrderInv'
  BY <1>2, OrderOfAdd, OrderOfStart DEF TakeLock
<1>3. ASSUME NEW t \in Tasks, Saved(t) PROVE OrderInv'
  <2>1. CASE cur # None /\ AppendMessage(t)
    BY <2>1, OrderOfAppend
  <2>2. CASE /\ cur' = None /\ msgs' = <<>> /\ summary' = {} /\ count' = 0 /\ told' = {} /\ unread' = FALSE
             /\ Return(t) /\ UNCHANGED <<allowed, clock, live, disk>>
    BY <2>2, Returns, EmptyOrdered DEF OrderInv
  <2>3. CASE Return(t) /\ UNCHANGED <<session, clock, live, disk>>
    <3>1. UNCHANGED <<allowed, cur, msgs, summary, count, told, unread>>
      BY <2>3 DEF session
    <3> QED BY <2>3, <3>1, Returns DEF OrderInv
  <2> QED BY <1>3, <2>1, <2>2, <2>3 DEF Saved
<1>4. CASE OtherEnds
  BY <1>4 DEF OtherEnds, session, OrderInv
<1>5. CASE Crash
  <2>1. Orderly(row', Tasks, clock) /\ Ordered(<<>>, clock)
    BY <1>5, NoRowOrderly, EmptyOrdered DEF Crash, Orderly, OrderInv
  <2>2. pc' \in [Tasks -> PC \cup Ids]
    BY <1>5 DEF Crash, PC
  <2> QED BY <1>5, <2>1, <2>2 DEF Crash, OrderInv
<1>6. CASE UNCHANGED vars
  BY <1>6 DEF vars, session, OrderInv
<1>7. ASSUME NEW t \in Tasks, Goes(t) \/ SaveFails(t) PROVE OrderInv'
  BY <1>2, <1>3, <1>7, OrderOfStatements, OrderOfOthers DEF Goes
<1> QED BY <1>1, <1>4, <1>5, <1>6, <1>7, OrderOfOthers DEF Next

LEMMA OrderAlways == Spec => []OrderInv
<1> QED BY OrderInit, OrderNext, PTL DEF Spec

(* In memory, as written and as committed, messages stay in the order in   *)
(* which they were told: through summarising, saving, loading and ending   *)
(* that overlap in any way, are cancelled, fail or are cut by a crash.     *)
THEOREM OrderStays == Spec => []OrderKept
<1>1. OrderInv => OrderKept
  BY DEF OrderInv, OrderKept, Ordered, Orderly
<1> QED BY <1>1, OrderAlways, PTL
-----------------------------------------------------------------------------
(* What is kept and saved, where calls do not overlap with a load or an    *)
(* end, are not cancelled and nobody else commits.                         *)
Kept == SavedTogether /\ \A i \in Ids : ~disk[i].final => Covers(disk[i])
Alike == Counts /\ told = summary \cup SetOf(msgs)
Undisturbed(t) == \A u \in Tasks \ {t} : then[u] = None
OthersStay(t) == \A u \in Tasks \ {t} : pc'[u] = pc[u] /\ then'[u] = then[u]

LEMMA Waits == /\ \A x \in {"idle", "wantAdd", "wantStart", "selectMessages"} : x \notin Saving /\ x \notin Ids
               /\ \A x \in Saving : x \notin Ids
               /\ "selectMessages" \notin Saving
<1>1. \A x \in {"idle", "wantAdd", "wantStart", "selectMessages"} : x \in PC /\ x \notin Saving
  BY DEF PC, Saving
<1>2. \A x \in Saving : x \in PC
  BY DEF PC
<1> QED BY <1>1, <1>2, IdAssumption

LEMMA WholeInit == Init => WholeInv
<1> SUFFICES ASSUME Init PROVE WholeInv
  OBVIOUS
<1>1. \A t \in Tasks : pc[t] = "idle" /\ then[t] = None
  BY DEF Init
<1>2. Locks
  BY <1>1, Waits, SessionAssumption DEF Init, Locks
<1>3. Kept
  BY SetOfEmpty DEF Init, Kept, SavedTogether, Covers, NoRow
<1>4. Alike
  BY SetOfEmpty DEF Init, Alike, Counts
<1>5. live = disk
  BY DEF Init
<1>6. ASSUME NEW t \in Tasks PROVE Transaction(t) /\ Loading(t)
  BY <1>1, Waits DEF Transaction, Loading, Saving
<1> QED BY <1>2, <1>3, <1>4, <1>5, <1>6 DEF WholeInv, Alike, Counts, Kept

(* Where nobody else is in the middle of a call; who is, is alone.         *)
LEMMA Nobody ==
    ASSUME OrderInv, WholeInv, NEW t \in Tasks, Undisturbed(t)
    PROVE  /\ \A u \in Tasks \ {t} : pc[u] \notin Saving \cup Ids \cup {"selectMessages"}
           /\ lock \in {None, t} /\ Kept
           /\ then[t] \notin {"append", "return"} => lock = None
<1>1. ASSUME NEW u \in Tasks \ {t} PROVE pc[u] \notin Saving \cup Ids \cup {"selectMessages"} /\ lock # u
  BY SessionAssumption DEF WholeInv, Locks, Undisturbed
<1>2. lock \in Tasks \cup {None}
  BY DEF OrderInv
<1> QED BY <1>1, <1>2 DEF WholeInv, Locks, Kept

LEMMA NobodyAtAll ==
    ASSUME OrderInv, WholeInv, NEW t \in Tasks, Undisturbed(t), then[t] = None
    PROVE  /\ lock = None /\ live = disk /\ Alike /\ Kept
           /\ \A u \in Tasks : pc[u] \notin Saving \cup Ids \cup {"selectMessages"}
<1>1. pc[t] \notin Saving \cup Ids \cup {"selectMessages"}
  BY SessionAssumption DEF WholeInv, Locks
<1>2. \A u \in Tasks : then[u] # "end"
  BY SessionAssumption DEF Undisturbed
<1>3. \A u \in Tasks : pc[u] \notin Saving \cup Ids \cup {"selectMessages"}
  BY <1>1, Nobody
<1>4. lock = None /\ Kept
  BY Nobody, SessionAssumption
<1> QED BY <1>2, <1>3, <1>4 DEF WholeInv, Alike, Counts

LEMMA WhoIsAlone ==
    ASSUME OrderInv, WholeInv, NEW t \in Tasks, then[t] # None
    PROVE  Undisturbed(t)
<1> SUFFICES ASSUME NEW u \in Tasks \ {t}, then[u] # None PROVE FALSE
  BY DEF Undisturbed
<1>1. {then[t], then[u]} \subseteq {"append", "return", "load", "end"}
  BY DEF OrderInv
<1>2. pc[t] # "idle" /\ pc[u] # "idle"
  BY <1>1, Waits DEF WholeInv, Locks
<1>3. {then[t], then[u]} \subseteq {"append", "return"}
  BY <1>1, <1>2 DEF WholeInv, Locks
<1> QED BY <1>3 DEF WholeInv, Locks

(* Its call ends.                                                          *)
LEMMA EndsWhole ==
    ASSUME OrderInv, WholeInv, NEW t \in Tasks, Undisturbed(t), Return(t),
           live' = disk', Alike', Kept'
    PROVE  WholeInv'
<1>1. /\ pc'[t] = "idle" /\ then'[t] = None /\ lock' = None
      /\ \A u \in Tasks \ {t} : pc'[u] = pc[u] /\ then'[u] = None
  BY Returns, Nobody DEF Undisturbed
<1>2. \A u \in Tasks : /\ then'[u] = None /\ u # None
                       /\ pc'[u] \notin Saving \cup Ids \cup {"selectMessages"}
  BY <1>1, Nobody, Waits, SessionAssumption
<1>3. Locks'
  BY <1>1, <1>2, SessionAssumption DEF Locks
<1>4. ASSUME NEW u \in Tasks PROVE Transaction(u)' /\ Loading(u)'
  BY <1>2 DEF Transaction, Loading, Saving
<1> QED BY <1>3, <1>4 DEF WholeInv, Alike, Counts, Kept

(* It begins to save the session.                                          *)
LEMMA SavesWhole ==
    ASSUME OrderInv, WholeInv, NEW t \in Tasks, Undisturbed(t), OthersStay(t), pc'[t] = "upsert",
           Saves(t, <<>>)', cur' # None, Counts', Kept',
           \/ then'[t] \in {"append", "return"} /\ lock' = t /\ Alike'
           \/ then'[t] = "end" /\ lock' = None /\ \A u \in Tasks \ {t} : pc[u] = "idle"
    PROVE  WholeInv'
<1>1. /\ "upsert" \in Saving /\ "upsert" \notin Ids /\ "upsert" # "selectMessages"
      /\ \A u \in Tasks \ {t} : /\ pc'[u] = pc[u] /\ then'[u] = None /\ u # None
                               /\ pc'[u] \notin Saving \cup Ids \cup {"selectMessages"}
  BY Nobody, Waits, SessionAssumption DEF OthersStay, Undisturbed, Saving
<1>2. Locks'
  <2>1. ASSUME NEW u \in Tasks \ {t}
        PROVE  /\ then'[u] \notin {"append", "return", "load", "end"} /\ lock' # u
               /\ pc'[u] \notin Saving /\ pc'[u] \notin Ids \cup {"selectMessages"}
    BY <1>1, SessionAssumption
  <2>2. /\ lock' = t <=> then'[t] \in {"append", "return"}
        /\ then'[t] \in {"append", "return", "end"} /\ pc'[t] \in Saving
        /\ then'[t] # "load" /\ pc'[t] \notin Ids \cup {"selectMessages"}
        /\ then'[t] = "end" => \A u \in Tasks \ {t} : pc'[u] = "idle"
    BY <1>1, SessionAssumption
  <2> QED BY <2>1, <2>2 DEF Locks
<1>3. ASSUME NEW u \in Tasks PROVE Transaction(u)' /\ Loading(u)'
  <2>1. CASE u = t
    BY <1>1, <2>1 DEF Transaction, Loading
  <2>2. CASE u # t
    BY <1>1, <2>2 DEF Transaction, Loading, Saving
  <2> QED BY <2>1, <2>2
<1>4. ~ \A u \in Tasks : pc'[u] \notin Saving
  BY <1>1
<1>5. (\A u \in Tasks : then'[u] # "end") => told' = summary' \cup SetOf(msgs')
  BY DEF Alike, Counts
<1> QED BY <1>2, <1>3, <1>4, <1>5 DEF WholeInv, Kept

LEMMA WholeStatements ==
    ASSUME OrderInv, WholeInv, NEW t \in Tasks,
           SaveDelete(t) \/ SaveMessages(t) \/ SaveCommit(t) \/ SaveFails(t)
    PROVE  WholeInv'
<1>1. UNCHANGED <<cur, msgs, summary, count, told, unread, lock, then>>
  BY DEF SaveDelete, SaveMessages, SaveCommit, SaveFails, session
<1>2. pc[t] \in {"upsert", "delete", "insert"} /\ pc[t] \in Saving
  BY DEF SaveDelete, SaveMessages, SaveCommit, SaveFails, Saving
<1>3. then[t] \in {"append", "return", "end"} /\ then[t] # None
  BY <1>2, SessionAssumption DEF WholeInv, Locks
<1>4. Undisturbed(t)
  BY <1>3, WhoIsAlone
<1>5. \A u \in Tasks \ {t} : pc[u] \notin Saving \cup Ids \cup {"selectMessages"}
  BY <1>4, Nobody
<1>6. PICK where \in {"rollback", "delete", "insert", "commit"} : Goto(t, where)
  BY DEF SaveDelete, SaveMessages, SaveCommit, SaveFails, Undo
<1>7. pc'[t] = where /\ \A u \in Tasks \ {t} : pc'[u] = pc[u]
  BY <1>6, Going DEF PC, Saving
<1>8. pc'[t] \in Saving /\ pc'[t] \notin Ids /\ pc'[t] # "selectMessages"
  BY <1>7, Waits DEF Saving
<1>9. Locks'
  <2>1. \A u \in Tasks : /\ pc'[u] \in Saving <=> pc[u] \in Saving
                         /\ pc'[u] \in Ids \cup {"selectMessages"} <=> pc[u] \in Ids \cup {"selectMessages"}
    BY <1>2, <1>7, <1>8, Waits
  <2>2. \A u \in Tasks : pc[u] = "idle" => pc'[u] = "idle"
    BY <1>2, <1>7
  <2> QED BY <1>1, <2>1, <2>2 DEF WholeInv, Locks
<1>10. Alike \/ (then[t] = "end" /\ Counts)
  <2>1. \A u \in Tasks : pc[u] # "selectMessages"
    BY <1>2, <1>5
  <2>2. then[t] # "end" => \A u \in Tasks : then[u] # "end"
    BY <1>4, SessionAssumption DEF Undisturbed
  <2> QED BY <2>1, <2>2 DEF WholeInv, Alike, Counts
<1>11. Transaction(t)
  BY DEF WholeInv
<1>12. /\ cur # None /\ cur \in Ids /\ disk \in [Ids -> Rows] /\ live \in [Ids -> Rows]
  BY <1>2, <1>11 DEF Transaction, OrderInv, Orderly
<1>13. ASSUME NEW m, \A i \in Ids \ {cur} : live'[i] = live[i], disk' = disk,
              live'[cur] = [live[cur] EXCEPT !.msgs = m], Saves(t, <<>>)
       PROVE  Saves(t, m)' /\ live'[cur].msgs = m
  <2>1. live[cur] \in Rows
    BY <1>12
  <2>2. /\ live'[cur].msgs = m /\ live'[cur].count = live[cur].count
        /\ live'[cur].there = live[cur].there
        /\ live'[cur].summary = live[cur].summary /\ live'[cur].told = live[cur].told
        /\ live'[cur].final = live[cur].final /\ live'[cur].unread = live[cur].unread
    BY <1>13, <2>1 DEF Rows
  <2> QED BY <1>1, <1>13, <2>2 DEF Saves
<1>14. Transaction(t)' /\ Kept'
  <2>k. Kept
    BY <1>4, Nobody
  <2>u. ASSUME Undo(t) PROVE Transaction(t)' /\ Kept'
    <3>1. live' = disk /\ disk' = disk /\ pc'[t] = "rollback"
      BY <2>u, Going DEF Undo, PC, Saving
    <3> QED BY <2>k, <3>1 DEF Transaction, Kept, SavedTogether, Covers
  <2>1. CASE SaveDelete(t)
    <3>1. /\ live' = [live EXCEPT ![cur].msgs = <<>>] /\ disk' = disk /\ Goto(t, "delete")
          /\ Saves(t, <<>>)
      BY <1>11, <1>12, <2>1 DEF SaveDelete, Transaction
    <3>2. (\A i \in Ids \ {cur} : live'[i] = live[i]) /\ live'[cur] = [live[cur] EXCEPT !.msgs = <<>>]
      BY <1>12, <3>1
    <3>3. Saves(t, <<>>)'
      BY <1>13, <3>1, <3>2
    <3>4. pc'[t] = "delete"
      BY <3>1, Going DEF PC, Saving
    <3> QED BY <1>1, <1>12, <2>k, <3>1, <3>3, <3>4 DEF Transaction, Kept, SavedTogether, Covers
  <2>2. CASE SaveMessages(t) /\ ~Undo(t)
    <3>1. /\ live' = [live EXCEPT ![cur].msgs = IF msgs = <<>> THEN @ ELSE msgs]
          /\ disk' = disk /\ Goto(t, "insert")
          /\ Saves(t, <<>>)
      BY <1>11, <1>12, <2>2 DEF SaveMessages, Transaction
    <3>2. live[cur].msgs = <<>>
      BY <3>1 DEF Saves
    <3>3. live' = [live EXCEPT ![cur].msgs = msgs]
      BY <1>12, <3>1, <3>2
    <3>4. (\A i \in Ids \ {cur} : live'[i] = live[i]) /\ live'[cur] = [live[cur] EXCEPT !.msgs = msgs]
      BY <1>12, <3>3
    <3>5. Saves(t, msgs)'
      <4>1. PICK m : m = msgs
        OBVIOUS
      <4>2. Saves(t, m)' /\ live'[cur].msgs = m
        BY <1>13, <3>1, <3>4, <4>1
      <4> QED BY <1>1, <4>1, <4>2 DEF Saves
    <3>6. pc'[t] = "insert"
      BY <3>1, Going DEF PC, Saving
    <3> QED BY <1>1, <1>12, <2>k, <3>1, <3>5, <3>6 DEF Transaction, Kept, SavedTogether, Covers
  <2>3. CASE SaveCommit(t)
    <3>1. disk' = live /\ live' = live /\ Saves(t, msgs) /\ Goto(t, "commit")
      BY <1>11, <2>3 DEF SaveCommit, Transaction
    <3>2. pc'[t] = "commit"
      BY <3>1, Going DEF PC, Saving
    <3>4. SavedTogether'
      BY <1>10, <2>k, <3>1 DEF SavedTogether, Kept, Saves, Alike, Counts
    <3>5. ASSUME NEW i \in Ids, ~disk'[i].final PROVE Covers(disk'[i])
      <4>1. CASE i = cur
        <5>1. then[t] # "end"
          BY <3>1, <3>5, <4>1 DEF Saves
        <5> QED BY <1>10, <3>1, <4>1, <5>1 DEF Covers, Alike, Counts, Saves
      <4>2. CASE i # cur
        BY <2>k, <3>1, <3>5, <4>2 DEF Kept, Saves
      <4> QED BY <4>1, <4>2
    <3>6. Kept'
      BY <3>4, <3>5 DEF Kept
    <3> QED BY <3>1, <3>2, <3>6 DEF Transaction
  <2>4. CASE SaveFails(t)
    BY <2>4, <2>u DEF SaveFails
  <2> QED BY <2>1, <2>2, <2>3, <2>4, <2>u
<1>15. ASSUME NEW u \in Tasks PROVE Transaction(u)' /\ Loading(u)'
  <2>1. CASE u = t
    BY <1>8, <1>14, <2>1 DEF Loading
  <2>2. CASE u # t
    BY <1>5, <1>7, <2>2 DEF Transaction, Loading, Saving
  <2> QED BY <2>1, <2>2
<1>16. ~ \A u \in Tasks : pc'[u] \notin Saving
  BY <1>8
<1> QED BY <1>1, <1>9, <1>10, <1>14, <1>15, <1>16 DEF WholeInv, Kept, Alike, Counts

LEMMA WholeStart ==
    ASSUME OrderInv, WholeInv, NEW t \in Tasks, Undisturbed(t), then[t] = None,
           NEW next \in {"append", "return"}, StartSession(t, next)
    PROVE  WholeInv'
<1>1. lock = None /\ live = disk /\ Alike /\ Kept
  BY NobodyAtAll
<1>2. CASE Return(t) /\ UNCHANGED <<session, clock, live, disk>>
  <2>1. UNCHANGED <<msgs, summary, count, told, unread, live, disk>>
    BY <1>2 DEF session
  <2>2. Alike' /\ Kept'
    BY <1>1, <2>1 DEF Alike, Counts, Kept, SavedTogether, Covers
  <2> QED BY <1>1, <1>2, <2>1, <2>2, EndsWhole
<1>3. ASSUME NEW id \in Unused,
             /\ cur' = id /\ msgs' = <<>> /\ summary' = {} /\ count' = 0 /\ told' = {}
             /\ unread' = FALSE /\ SaveRow(t, id, {}, 0, {}, FALSE)
             /\ then' = [then EXCEPT ![t] = next]
             /\ lock' = t
             /\ UNCHANGED <<allowed, clock, row>>
      PROVE  WholeInv'
  <2>1. id \in Ids /\ id # None
    BY SessionAssumption DEF Unused, OrderInv
  <2>t. live \in [Ids -> Rows]
    BY DEF OrderInv, Orderly
  <2>2. /\ live' = [live EXCEPT ![id] = [there |-> TRUE, summary |-> {}, count |-> 0, msgs |-> <<>>,
                                         told |-> {}, unread |-> FALSE, final |-> FALSE]]
        /\ disk' = disk /\ pc'[t] = "upsert" /\ \A u \in Tasks \ {t} : pc'[u] = pc[u]
    <3>2. SaveRow(t, id, {}, 0, {}, FALSE)
      BY <1>3
    <3>3. pc'[t] = "upsert" /\ \A u \in Tasks \ {t} : pc'[u] = pc[u]
      BY <3>2, Going DEF SaveRow, PC, Saving
    <3> QED BY <1>3, <3>2, <3>3 DEF SaveRow
  <2>3. then'[t] = next /\ \A u \in Tasks \ {t} : then'[u] = then[u]
    BY <1>3, Follows
  <2>4. Saves(t, <<>>)'
    BY <1>1, <1>3, <2>1, <2>2, <2>3, <2>t DEF Saves
  <2>5. Alike' /\ Kept'
    BY <1>1, <1>3, <2>2, SetOfEmpty DEF Alike, Counts, Kept, SavedTogether, Covers
  <2>6. OthersStay(t)
    BY <2>2, <2>3 DEF OthersStay
  <2>8. cur' # None /\ Counts'
    BY <1>3, <2>1 DEF Counts
  <2> QED BY <1>3, <2>2, <2>3, <2>4, <2>5, <2>6, <2>8, SavesWhole
<1> QED BY <1>2, <1>3 DEF StartSession

LEMMA WholeAppend ==
    ASSUME OrderInv, WholeInv, NEW t \in Tasks, Undisturbed(t), live = disk, Alike, Kept,
           cur # None, AppendMessage(t)
    PROVE  WholeInv'
<1> DEFINE all == Append(msgs, clock + 1)
<1>1. clock \in Nat /\ cur' = cur /\ cur \in Ids /\ told' = told \cup {clock + 1} /\ told' \subseteq Nat
  BY DEF OrderInv, AppendMessage
<1>2. Ordered(all, clock + 1) /\ Len(all) = Len(msgs) + 1 /\ SetOf(all) = SetOf(msgs) \cup {clock + 1}
  <2>1. Ordered(msgs, clock)
    BY DEF OrderInv
  <2>2. msgs \in Seq(Nat)
    BY <1>1, <2>1, OrderedNat
  <2> QED BY <1>1, <2>1, <2>2, AppendOrdered, SetOfAppend
<1>3. told' = summary \cup SetOf(all) /\ (~unread => count + 1 = Len(all)) /\ unread' = unread
  BY <1>1, <1>2 DEF Alike, Counts, AppendMessage
<1> HIDE DEF all
<1>4. CASE Len(all) > Keep /\ Summarize(t, all) /\ lock' = t /\ UNCHANGED row
  <2> DEFINE older == SubSeq(all, 1, Len(all) - Keep)
             kept == SubSeq(all, Len(all) - Keep + 1, Len(all))
  <2>1. /\ msgs' = kept /\ summary' = summary \cup SetOf(older) /\ count' = Keep
        /\ SaveRow(t, cur, summary', Keep, told', FALSE) /\ then' = [then EXCEPT ![t] = "return"]
    BY <1>4 DEF Summarize
  <2>2. /\ Len(kept) = Keep /\ SetOf(older) \subseteq 1..clock+1
        /\ SetOf(all) = SetOf(older) \cup SetOf(kept)
    BY <1>1, <1>2, <1>4, Splitting, SessionAssumption
  <2> HIDE DEF older, kept
  <2>3. summary' \subseteq Nat
    <3>1. summary \subseteq Nat /\ 1..clock+1 \subseteq Nat
      BY <1>1 DEF OrderInv
    <3> QED BY <2>1, <2>2, <3>1
  <2>4. /\ live' = [live EXCEPT ![cur] = [there |-> TRUE, summary |-> summary', count |-> Keep, msgs |-> <<>>,
                                          told |-> told', unread |-> unread, final |-> FALSE]]
        /\ disk' = disk /\ pc'[t] = "upsert" /\ \A u \in Tasks \ {t} : pc'[u] = pc[u]
    <3>2. SaveRow(t, cur, summary', Keep, told', FALSE)
      BY <2>1
    <3>3. pc'[t] = "upsert" /\ \A u \in Tasks \ {t} : pc'[u] = pc[u]
      BY <3>2, Going DEF SaveRow, PC, Saving
    <3> QED BY <1>3, <3>2, <3>3 DEF SaveRow
  <2>5. then'[t] = "return" /\ \A u \in Tasks \ {t} : then'[u] = then[u]
    BY <2>1, Follows
  <2>6. Saves(t, <<>>)'
    <3>1. live \in [Ids -> Rows]
      BY DEF OrderInv, Orderly
    <3> QED BY <1>1, <1>3, <2>1, <2>4, <2>5, <3>1 DEF Saves
  <2>7. Alike'
    BY <1>3, <2>1, <2>2 DEF Alike, Counts
  <2>8. Kept'
    BY <2>4 DEF Kept, SavedTogether, Covers
  <2>9. OthersStay(t)
    BY <2>4, <2>5 DEF OthersStay
  <2>11. cur' # None /\ Counts'
    BY <1>1, <2>1, <2>2 DEF Counts
  <2> QED BY <1>4, <2>4, <2>5, <2>6, <2>7, <2>8, <2>9, <2>11, SavesWhole
<1>5. CASE /\ msgs' = all /\ count' = count + 1
           /\ Return(t)
           /\ UNCHANGED <<summary, live, disk>>
  <2>1. Alike' /\ Kept' /\ live' = disk'
    BY <1>3, <1>5 DEF Alike, Counts, Kept, SavedTogether, Covers
  <2> QED BY <1>5, <2>1, EndsWhole
<1> QED BY <1>4, <1>5 DEF AppendMessage, all

(* Nobody is in a call.                                                    *)
LEMMA AllAtRest ==
    ASSUME \A u \in Tasks : pc'[u] = "idle" /\ then'[u] = None, lock' = None,
           live' = disk', Alike', Kept'
    PROVE  WholeInv'
<1>1. \A u \in Tasks : u # None /\ "idle" \notin Saving \cup Ids \cup {"selectMessages"}
  BY Waits, SessionAssumption
<1>2. Locks'
  BY <1>1, SessionAssumption DEF Locks
<1>3. ASSUME NEW u \in Tasks PROVE Transaction(u)' /\ Loading(u)'
  BY <1>1 DEF Transaction, Loading, Saving
<1> QED BY <1>2, <1>3 DEF WholeInv, Alike, Counts, Kept

LEMMA FreeToGo ==
    ASSUME OrderInv, WholeInv, NEW t \in Tasks, lock = None, NoneAlone
    PROVE  Undisturbed(t) /\ then[t] = None
<1> SUFFICES ASSUME NEW u \in Tasks PROVE then[u] = None
  BY DEF Undisturbed
<1>1. then[u] \in {None, "append", "return", "load", "end"} /\ then[u] \notin {"load", "end"}
  BY DEF OrderInv, NoneAlone
<1>2. lock # u
  BY SessionAssumption
<1> QED BY <1>1, <1>2 DEF WholeInv, Locks

LEMMA IsAlone ==
    ASSUME OrderInv, WholeInv, NEW t \in Tasks, Alone(t), pc[t] = "idle"
    PROVE  /\ \A u \in Tasks : pc[u] = "idle" /\ then[u] = None
           /\ lock = None /\ live = disk /\ Alike /\ Kept
<1>1. \A u \in Tasks : pc[u] = "idle"
  BY DEF Alone
<1>2. \A u \in Tasks : then[u] \notin {"append", "return", "load", "end"}
  BY <1>1, Waits DEF WholeInv, Locks
<1>3. \A u \in Tasks : then[u] = None
  BY <1>2 DEF OrderInv
<1> QED BY <1>1, <1>3, NobodyAtAll DEF Undisturbed

(* It joins those who wait for the lock.                                   *)
LEMMA WholeWait ==
    ASSUME OrderInv, WholeInv, NEW t \in Tasks, pc[t] = "idle", NoneAlone,
           Goto(t, "wantAdd") \/ Goto(t, "wantStart"),
           UNCHANGED <<cur, msgs, summary, count, told, unread, live, disk, lock, then, row>>
    PROVE  WholeInv'
<1>1. pc'[t] \in {"wantAdd", "wantStart"} /\ \A u \in Tasks \ {t} : pc'[u] = pc[u]
  BY Going DEF PC
<1>2. \A u \in Tasks : /\ pc'[u] \in Saving <=> pc[u] \in Saving
                       /\ pc'[u] \in Ids \cup {"selectMessages"} <=> pc[u] \in Ids \cup {"selectMessages"}
                       /\ pc'[u] = "selectMessages" <=> pc[u] = "selectMessages"
  BY <1>1, Waits
<1>3. Locks'
  BY <1>2 DEF WholeInv, Locks, NoneAlone
<1>4. ASSUME NEW u \in Tasks PROVE Transaction(u)' /\ Loading(u)'
  <2>0. Transaction(u) /\ Loading(u)
    BY DEF WholeInv
  <2>1. CASE u = t
    BY <1>1, <2>1, Waits DEF Transaction, Loading, Saving
  <2>2. CASE u # t
    <3>1. pc'[u] = pc[u]
      BY <1>1, <2>2
    <3> QED BY <2>0, <3>1 DEF Transaction, Loading, Saves
  <2> QED BY <2>1, <2>2
<1>5. Kept'
  BY DEF WholeInv, Kept, SavedTogether, Covers
<1> QED BY <1>2, <1>3, <1>4, <1>5 DEF WholeInv, Kept, Counts

LEMMA WholeAdd ==
    ASSUME OrderInv, WholeInv, NEW t \in Tasks, lock = None, NoneAlone, AddUnderLock(t)
    PROVE  WholeInv'
BY FreeToGo, NobodyAtAll, WholeStart, WholeAppend DEF AddUnderLock

LEMMA WholeTakeLock ==
    ASSUME OrderInv, WholeInv, NEW t \in Tasks, TakeLock(t) PROVE WholeInv'
<1>1. lock = None /\ pc[t] \in {"wantAdd", "wantStart"}
  BY DEF TakeLock
<1>2. then[t] \notin {"load", "end"}
  BY <1>1, Waits DEF WholeInv, Locks
<1>3. \A u \in Tasks \ {t} : then[u] \notin {"load", "end"}
  BY <1>1 DEF WholeInv, Locks
<1>4. NoneAlone
  BY <1>2, <1>3 DEF NoneAlone
<1> QED BY <1>1, <1>4, FreeToGo, WholeAdd, WholeStart DEF TakeLock

LEMMA WholeSaved ==
    ASSUME OrderInv, WholeInv, NEW t \in Tasks, Saved(t) PROVE WholeInv'
<1>1. pc[t] \in {"commit", "rollback"} /\ pc[t] \in Saving
  BY DEF Saved, Saving
<1>2. then[t] \in {"append", "return", "end"} /\ then[t] # None
  BY <1>1, SessionAssumption DEF WholeInv, Locks
<1>3. Undisturbed(t) /\ Kept
  BY <1>2, WhoIsAlone, Nobody
<1>4. live = disk
  BY <1>1 DEF WholeInv, Transaction
<1>5. then[t] # "end" => Alike
  <2>1. \A u \in Tasks : pc[u] # "selectMessages"
    BY <1>1, <1>3, Nobody
  <2>2. then[t] # "end" => \A u \in Tasks : then[u] # "end"
    BY <1>3, SessionAssumption DEF Undisturbed
  <2> QED BY <2>1, <2>2 DEF WholeInv, Alike, Counts
<1>6. CASE then[t] # "end" /\ cur # None /\ AppendMessage(t)
  BY <1>3, <1>4, <1>5, <1>6, WholeAppend
<1>7. CASE /\ cur' = None /\ msgs' = <<>> /\ summary' = {} /\ count' = 0 /\ told' = {} /\ unread' = FALSE
           /\ Return(t) /\ UNCHANGED <<allowed, clock, live, disk>>
  <2>1. Alike' /\ Kept' /\ live' = disk'
    BY <1>3, <1>4, <1>7, SetOfEmpty DEF Alike, Counts, Kept, SavedTogether, Covers
  <2> QED BY <1>3, <1>7, <2>1, EndsWhole
<1>8. CASE then[t] # "end" /\ Return(t) /\ UNCHANGED <<session, clock, live, disk>>
  <2>1. UNCHANGED <<msgs, summary, count, told, unread, live, disk>>
    BY <1>8 DEF session
  <2>2. Alike' /\ Kept' /\ live' = disk'
    BY <1>3, <1>4, <1>5, <1>8, <2>1 DEF Alike, Counts, Kept, SavedTogether, Covers
  <2> QED BY <1>3, <1>8, <2>2, EndsWhole
<1> QED BY <1>6, <1>7, <1>8 DEF Saved

LEMMA WholeLoad ==
    ASSUME OrderInv, WholeInv, NEW t \in Tasks, Alone(t), Load(t) PROVE WholeInv'
<1>1. PICK i \in Ids : /\ live[i].there /\ row' = [row EXCEPT ![t] = live[i]]
                       /\ then' = [then EXCEPT ![t] = "load"] /\ Goto(t, i)
  BY DEF Load
<1>2. UNCHANGED <<cur, msgs, summary, count, told, unread, live, disk, lock>> /\ pc[t] = "idle"
  BY DEF Load, session
<1>3. /\ \A u \in Tasks : pc[u] = "idle" /\ then[u] = None /\ u # None
      /\ lock = None /\ live = disk /\ Alike /\ Kept
  BY <1>2, IsAlone, SessionAssumption
<1>4. /\ pc'[t] = i /\ then'[t] = "load"
      /\ \A u \in Tasks \ {t} : pc'[u] = "idle" /\ then'[u] = None
  <2>1. i \in PC \cup Ids /\ Goto(t, i) /\ then' = [then EXCEPT ![t] = "load"]
    BY <1>1
  <2> QED BY <1>3, <2>1, Going, Follows
<1>5. /\ i \notin Saving /\ i # "selectMessages"
      /\ "idle" \notin Saving \cup Ids \cup {"selectMessages"}
  BY Waits
<1>6. Locks'
  BY <1>2, <1>3, <1>4, <1>5, SessionAssumption DEF Locks
<1>7. row'[t] = disk'[i] /\ row'[t].there
  BY <1>1, <1>2, <1>3 DEF OrderInv, Orderly
<1>8. ASSUME NEW u \in Tasks PROVE Transaction(u)' /\ Loading(u)'
  <2>1. CASE u = t
    BY <1>4, <1>5, <1>7, <2>1 DEF Transaction, Loading, Saving
  <2>2. CASE u # t
    BY <1>4, <1>5, <2>2 DEF Transaction, Loading, Saving
  <2> QED BY <2>1, <2>2
<1>9. Alike' /\ Kept'
  BY <1>2, <1>3 DEF Alike, Counts, Kept, SavedTogether, Covers
<1> QED BY <1>2, <1>3, <1>6, <1>8, <1>9 DEF WholeInv, Alike, Counts, Kept

LEMMA WholeLoadRow ==
    ASSUME OrderInv, WholeInv, NEW t \in Tasks, LoadRow(t) PROVE WholeInv'
<1>1. PICK found \in {live[pc[t]].msgs, <<>>} :
         /\ pc[t] \in Ids /\ UNCHANGED <<live, disk, lock, then>>
         /\ cur' = pc[t] /\ msgs' = <<>> /\ summary' = row[t].summary /\ count' = row[t].count
         /\ told' = row[t].summary
         /\ row' = [row EXCEPT ![t] = [NoRow EXCEPT !.msgs = found]]
         /\ unread' = (row[t].unread \/ found # live[pc[t]].msgs)
         /\ Goto(t, "selectMessages")
  BY DEF LoadRow
<1>2. then[t] = "load" /\ \A u \in Tasks \ {t} : pc[u] = "idle"
  BY <1>1 DEF WholeInv, Locks
<1>3. pc'[t] = "selectMessages" /\ \A u \in Tasks \ {t} : pc'[u] = "idle"
  BY <1>1, <1>2, Going DEF PC
<1>4. /\ "selectMessages" \notin Saving \cup Ids
      /\ "idle" \notin Saving \cup Ids \cup {"selectMessages"}
  BY Waits
<1>5. live = disk /\ Kept
  BY <1>1, <1>2, <1>4, Waits DEF WholeInv, Kept
<1>6. Locks'
  BY <1>1, <1>2, <1>3, <1>4 DEF WholeInv, Locks
<1>7. row'[t].msgs = found
  BY <1>1, <1>5 DEF OrderInv, Orderly, NoRow
<1>8. ~unread' => count' = Len(row'[t].msgs)
  <2>1. row[t] = disk[pc[t]]
    BY <1>1 DEF WholeInv, Loading
  <2>2. ~unread' => found = disk[pc[t]].msgs /\ ~disk[pc[t]].unread
    BY <1>1, <1>5, <2>1
  <2> QED BY <1>1, <1>5, <1>7, <2>1, <2>2 DEF Kept, SavedTogether
<1>9. cur' # None
  BY <1>1, SessionAssumption
<1>10. ASSUME NEW u \in Tasks PROVE Transaction(u)' /\ Loading(u)'
  <2>1. CASE u = t
    BY <1>1, <1>3, <1>4, <1>8, <1>9, <2>1 DEF Transaction, Loading, Saving
  <2>2. CASE u # t
    BY <1>3, <1>4, <2>2 DEF Transaction, Loading, Saving
  <2> QED BY <2>1, <2>2
<1>11. told' = summary' \cup SetOf(msgs') /\ Kept' /\ live' = disk'
  BY <1>1, <1>5, SetOfEmpty DEF Kept, SavedTogether, Covers
<1> QED BY <1>3, <1>6, <1>10, <1>11 DEF WholeInv, Kept

LEMMA WholeLoadMessages ==
    ASSUME OrderInv, WholeInv, NEW t \in Tasks, LoadMessages(t) PROVE WholeInv'
<1>1. pc[t] = "selectMessages" /\ UNCHANGED <<cur, summary, count, unread, live, disk>> /\ Return(t)
  BY DEF LoadMessages
<1>2. then[t] = "load" /\ then[t] # None
  BY <1>1, SessionAssumption DEF WholeInv, Locks
<1>3. Undisturbed(t) /\ Kept /\ \A u \in Tasks \ {t} : pc[u] \notin Saving
  BY <1>2, WhoIsAlone, Nobody
<1>4. live = disk
  BY <1>1, <1>3, Waits DEF WholeInv
<1>5. msgs = <<>> /\ told = summary /\ cur # None /\ (~unread => count = Len(row[t].msgs))
  BY <1>1 DEF WholeInv, Loading
<1>6. msgs' = row[t].msgs /\ told' = told \cup SetOf(row[t].msgs)
  BY <1>5 DEF LoadMessages
<1>7. Alike' /\ Kept' /\ live' = disk'
  BY <1>1, <1>3, <1>4, <1>5, <1>6 DEF Alike, Counts, Kept, SavedTogether, Covers
<1> QED BY <1>1, <1>3, <1>7, EndsWhole

LEMMA WholeEnd ==
    ASSUME OrderInv, WholeInv, NEW t \in Tasks, Alone(t), End(t) PROVE WholeInv'
<1>1. pc[t] = "idle" /\ cur # None /\ lock' = lock /\ cur \in Ids
  BY DEF End, OrderInv
<1>2. /\ \A u \in Tasks : pc[u] = "idle" /\ then[u] = None
      /\ lock = None /\ live = disk /\ Alike /\ Kept
  BY <1>1, IsAlone
<1>3. CASE /\ msgs # <<>> /\ summary' = SetOf(msgs) /\ SaveRow(t, cur, summary', count, told, TRUE)
           /\ then' = [then EXCEPT ![t] = "end"] /\ UNCHANGED <<cur, msgs, count, told, unread>>
  <2>1. /\ live' = [live EXCEPT ![cur] = [there |-> TRUE, summary |-> summary', count |-> count, msgs |-> <<>>,
                                          told |-> told, unread |-> unread, final |-> TRUE]]
        /\ disk' = disk /\ pc'[t] = "upsert" /\ \A u \in Tasks \ {t} : pc'[u] = pc[u]
    BY <1>3, Going DEF SaveRow, PC, Saving
  <2>2. then'[t] = "end" /\ \A u \in Tasks \ {t} : then'[u] = then[u]
    BY <1>3, Follows
  <2>3. Saves(t, <<>>)'
    <3>1. live \in [Ids -> Rows]
      BY DEF OrderInv, Orderly
    <3> QED BY <1>1, <1>2, <1>3, <2>1, <2>2, <3>1 DEF Saves
  <2>4. Kept' /\ Counts'
    BY <1>2, <1>3, <2>1 DEF Alike, Counts, Kept, SavedTogether, Covers
  <2>5. OthersStay(t) /\ Undisturbed(t)
    BY <1>2, <2>1, <2>2 DEF OthersStay, Undisturbed
  <2> QED BY <1>1, <1>2, <1>3, <2>1, <2>2, <2>3, <2>4, <2>5, SavesWhole
<1>4. CASE /\ msgs = <<>> /\ cur' = None /\ summary' = {} /\ count' = 0 /\ told' = {} /\ unread' = FALSE
           /\ UNCHANGED <<msgs, live, disk, pc, then>>
  BY <1>1, <1>2, <1>4, AllAtRest, SetOfEmpty DEF Alike, Counts, Kept, SavedTogether, Covers
<1> QED BY <1>3, <1>4 DEF End

LEMMA WholeNext == OrderInv /\ WholeInv /\ allowed = {} /\ [Next]_vars => WholeInv'
<1> SUFFICES ASSUME OrderInv, WholeInv, allowed = {}, [Next]_vars PROVE WholeInv'
  OBVIOUS
<1>1. ASSUME NEW t \in Tasks, AddMessage(t) \/ Start(t) PROVE WholeInv'
  <2>1. pc[t] = "idle" /\ NoneAlone
    BY <1>1 DEF AddMessage, Start
  <2>2. CASE Free(t) /\ (AddUnderLock(t) \/ StartSession(t, "return"))
    <3>1. lock = None
      BY <2>2 DEF Free
    <3> QED BY <2>1, <2>2, <3>1, WholeAdd, FreeToGo, WholeStart
  <2>3. CASE /\ Goto(t, "wantAdd") \/ Goto(t, "wantStart")
             /\ UNCHANGED <<session, clock, live, disk, lock, then, row>>
    BY <2>1, <2>3, WholeWait DEF session
  <2> QED BY <1>1, <2>2, <2>3 DEF AddMessage, Start
<1>2. ASSUME NEW t \in Tasks, Load(t) \/ End(t) PROVE WholeInv'
  <2>1. Alone(t)
    BY <1>2 DEF Load, End
  <2> QED BY <1>2, <2>1, WholeLoad, WholeEnd
<1>3. ASSUME NEW t \in Tasks, Goes(t) \/ SaveFails(t) PROVE WholeInv'
  BY <1>3, WholeTakeLock, WholeSaved, WholeStatements, WholeLoadRow, WholeLoadMessages DEF Goes
<1>4. ASSUME NEW t \in Tasks PROVE ~Cancel(t)
  BY DEF Cancel
<1>5. ~OtherEnds
  BY DEF OtherEnds
<1>6. CASE Crash
  <2>1. Kept
    BY DEF WholeInv, Kept
  <2>2. /\ \A u \in Tasks : pc'[u] = "idle" /\ then'[u] = None
        /\ lock' = None /\ live' = disk' /\ Alike' /\ Kept'
    BY <1>6, <2>1, SetOfEmpty DEF Crash, Alike, Counts, Kept, SavedTogether, Covers
  <2> QED BY <2>2, AllAtRest
<1>7. CASE UNCHANGED vars
  BY <1>7 DEF vars, session, WholeInv, Counts, Locks, Transaction, Saves, Loading, SavedTogether, Covers
<1> QED BY <1>1, <1>2, <1>3, <1>4, <1>5, <1>6, <1>7 DEF Next

LEMMA Always == Spec => []IInv
<1>1. Init => IInv
  BY OrderInit, WholeInit DEF IInv
<1>2. IInv /\ [Next]_vars => IInv'
  <2> SUFFICES ASSUME IInv, [Next]_vars PROVE IInv'
    OBVIOUS
  <2>1. allowed' = allowed
    BY DEF Next, vars, Goes, AddMessage, Start, TakeLock, AddUnderLock, StartSession, AppendMessage,
           Saved, SaveDelete, SaveMessages, SaveCommit, SaveFails, LoadRow, LoadMessages, Load, End,
           Cancel, OtherEnds, Crash, session
  <2> QED BY <2>1, OrderNext, WholeNext DEF IInv
<1> QED BY <1>1, <1>2, PTL DEF Spec

(* Left to run alone, loading and ending keep the session whole: it knows  *)
(* every message it was told or was loaded with, in full or in its         *)
(* summary, however often it was summarised, saved, cut by a crash and     *)
(* loaded (add_message, _trigger_summarization, load_session).             *)
THEOREM KnowsWhatItWasTold == Spec => []NothingForgotten
<1>1. IInv => NothingForgotten
  BY DEF IInv, WholeInv, NothingForgotten, NoneAlone
<1> QED BY <1>1, Always, PTL

(* So is what is committed, whichever statement of _persist_session fails  *)
(* and wherever the process dies: row and messages belong together, and    *)
(* but for end_session's own save they cover all that had been told to the *)
(* session, with what it was loaded with.                                  *)
THEOREM CommitsAreWhole == Spec => []SavedWhole
<1>1. IInv => SavedWhole
  BY DEF IInv, WholeInv, SavedWhole
<1> QED BY <1>1, Always, PTL
-----------------------------------------------------------------------------
(* Transcript, where calls do not overlap with a load or an end, are not   *)
(* cancelled and nobody else commits.                                      *)
LEMMA Unread ==
    /\ (\A u \in Tasks : pc[u] # "selectMessages") => Knows = summary \cup SetOf(msgs)
    /\ (\A u \in Tasks : pc'[u] # "selectMessages") => Knows' = summary' \cup SetOf(msgs')
BY DEF Knows, Reading

(* Where nobody else is in a call, and this one neither loads nor ends.    *)
LEMMA KnowsAll ==
    ASSUME OrderInv, WholeInv, NEW t \in Tasks, Undisturbed(t),
           then[t] # "end", pc[t] # "selectMessages"
    PROVE  Knows = told /\ ~Ending
<1>1. \A u \in Tasks : pc[u] # "selectMessages"
  BY Nobody
<1>2. \A u \in Tasks : then[u] # "end"
  BY SessionAssumption DEF Undisturbed
<1> QED BY <1>1, <1>2, Unread DEF WholeInv, Ending

(* Its step goes to a state like that.                                     *)
LEMMA KnowsAllThen ==
    ASSUME OrderInv, WholeInv, WholeInv', NEW t \in Tasks, Undisturbed(t), OthersStay(t),
           then'[t] # "end", pc'[t] # "selectMessages"
    PROVE  Knows' = told' /\ ~Ending'
<1>1. \A u \in Tasks : pc'[u] # "selectMessages"
  BY Nobody DEF OthersStay
<1>2. \A u \in Tasks : then'[u] # "end"
  BY SessionAssumption DEF Undisturbed, OthersStay
<1> QED BY <1>1, <1>2, Unread DEF WholeInv, Ending

LEMMA StoryStays ==
    ASSUME cur' = cur, Knows' = Knows, Ending' = Ending, disk' = disk
    PROVE  UNCHANGED Story!vars
BY DEF Story!vars, Stored

LEMMA StoryInit == Init => Story!Init
<1> SUFFICES ASSUME Init PROVE Story!Init
  OBVIOUS
<1>1. Knows = {}
  <2>1. \A u \in Tasks : pc[u] # "selectMessages"
    BY DEF Init
  <2> QED BY <2>1, Unread, SetOfEmpty DEF Init
<1>2. ~Ending
  BY SessionAssumption DEF Init, Ending
<1>3. {i \in Ids : disk[i].there} = {}
  BY DEF Init, NoRow
<1>4. Stored = [id \in {} |-> {}]
  BY <1>3 DEF Stored
<1> QED BY <1>1, <1>2, <1>4 DEF Init, Story!Init

(* The statements of a save are a stutter, and the commit is the save.     *)
LEMMA StoryStatements ==
    ASSUME OrderInv, WholeInv, NEW t \in Tasks,
           SaveDelete(t) \/ SaveMessages(t) \/ SaveFails(t) \/ SaveCommit(t)
    PROVE  UNCHANGED Story!vars \/ Story!Save
<1>1. UNCHANGED <<cur, msgs, summary, count, told, unread, then, row>>
  BY DEF SaveDelete, SaveMessages, SaveCommit, SaveFails, session
<1>2. pc[t] \in {"upsert", "delete", "insert"} /\ pc[t] \in Saving
  BY DEF SaveDelete, SaveMessages, SaveCommit, SaveFails, Saving
<1>3. Undisturbed(t)
  BY <1>2, WhoIsAlone, SessionAssumption DEF WholeInv, Locks
<1>4. PICK where \in {"rollback", "delete", "insert", "commit"} : Goto(t, where)
  BY DEF SaveDelete, SaveMessages, SaveCommit, SaveFails, Undo
<1>5. \A u \in Tasks : pc[u] # "selectMessages" /\ pc'[u] # "selectMessages"
  <2>1. pc'[t] = where /\ \A u \in Tasks \ {t} : pc'[u] = pc[u]
    BY <1>4, Going DEF PC, Saving
  <2> QED BY <1>2, <1>3, <2>1, Nobody
<1>6. Knows = summary \cup SetOf(msgs) /\ Knows' = Knows
  BY <1>1, <1>5, Unread
<1>7. Ending' = Ending
  BY <1>1 DEF Ending
<1>8. CASE disk' = disk
  BY <1>1, <1>6, <1>7, <1>8, StoryStays
<1>9. CASE SaveCommit(t)
  <2>1. disk' = live /\ Saves(t, msgs) /\ cur # None /\ cur \in Ids
    BY <1>9 DEF SaveCommit, WholeInv, Transaction, OrderInv
  <2>2. /\ \A i \in Ids \ {cur} : disk'[i] = disk[i]
        /\ disk'[cur].there /\ disk'[cur].summary \cup SetOf(disk'[cur].msgs) = Knows
    BY <1>6, <2>1 DEF Saves
  <2>3. {i \in Ids : disk'[i].there} = {i \in Ids : disk[i].there} \cup {cur}
    BY <2>1, <2>2
  <2>4. Stored' = [id \in DOMAIN Stored \cup {cur} |-> IF id = cur THEN Knows ELSE Stored[id]]
    BY <2>2, <2>3 DEF Stored
  <2> QED BY <1>1, <1>6, <1>7, <2>1, <2>4 DEF Story!Save
<1> QED BY <1>8, <1>9 DEF SaveDelete, SaveMessages, SaveFails, Undo

(* A message is told, whether the session is summarised or not.            *)
LEMMA StoryAppend ==
    ASSUME OrderInv, WholeInv, WholeInv', NEW t \in Tasks, Undisturbed(t),
           then[t] # "end", pc[t] # "selectMessages", cur # None, AppendMessage(t)
    PROVE  Story!Tell
<1>1. cur' = cur /\ told' = told \cup {clock + 1} /\ disk' = disk
  BY DEF AppendMessage, Summarize, SaveRow
<1>2. OthersStay(t) /\ pc'[t] # "selectMessages" /\ then'[t] # "end"
  <2>1. CASE then' = [then EXCEPT ![t] = "return"] /\ Goto(t, "upsert")
    <3>1. then'[t] = "return" /\ \A u \in Tasks \ {t} : then'[u] = then[u]
      BY <2>1, Follows
    <3>2. pc'[t] = "upsert" /\ \A u \in Tasks \ {t} : pc'[u] = pc[u]
      BY <2>1, Going DEF PC, Saving
    <3> QED BY <3>1, <3>2 DEF OthersStay
  <2>2. CASE Return(t)
    BY <2>2, Returns, SessionAssumption DEF OthersStay
  <2> QED BY <2>1, <2>2 DEF AppendMessage, Summarize, SaveRow
<1>3. Knows = told /\ ~Ending /\ Knows' = told' /\ ~Ending'
  BY <1>2, KnowsAll, KnowsAllThen
<1>4. Knows' = Knows \cup {clock + 1} /\ clock + 1 \in Knows'
  BY <1>1, <1>3
<1>5. Stored' = Stored /\ Ending' = Ending
  BY <1>1, <1>3 DEF Stored, Ending
<1> QED BY <1>1, <1>3, <1>4, <1>5 DEF Story!Tell

(* A call ends, or begins to wait, without having changed anything.        *)
LEMMA StoryPasses ==
    ASSUME OrderInv, WholeInv, WholeInv', NEW t \in Tasks, Undisturbed(t), OthersStay(t),
           then[t] # "end", pc[t] # "selectMessages",
           then'[t] # "end", pc'[t] # "selectMessages",
           cur' = cur, told' = told, disk' = disk
    PROVE  UNCHANGED Story!vars
<1>1. Knows = told /\ ~Ending /\ Knows' = told' /\ ~Ending'
  BY KnowsAll, KnowsAllThen
<1>2. Ending' = Ending
  BY <1>1 DEF Ending
<1> QED BY <1>1, <1>2, StoryStays

LEMMA IsUnused == ASSUME NEW id \in Unused, OrderInv PROVE id \in Ids /\ id # cur /\ ~disk[id].there
BY SessionAssumption DEF Unused, OrderInv

LEMMA StoryStart ==
    ASSUME OrderInv, WholeInv, WholeInv', NEW t \in Tasks, Undisturbed(t), then[t] = None,
           pc[t] # "selectMessages", NEW next \in {"append", "return"}, StartSession(t, next)
    PROVE  UNCHANGED Story!vars \/ \E id \in Ids : Story!Begin(id)
<1>0. then[t] # "end"
  BY SessionAssumption
<1>1. CASE Return(t) /\ UNCHANGED <<session, clock, live, disk>>
  <2>1. OthersStay(t) /\ pc'[t] # "selectMessages" /\ then'[t] # "end"
    BY <1>1, Returns, SessionAssumption DEF OthersStay
  <2> QED BY <1>0, <1>1, <2>1, StoryPasses DEF session
<1>2. ASSUME NEW id \in Unused,
             /\ cur' = id /\ msgs' = <<>> /\ summary' = {} /\ count' = 0 /\ told' = {}
             /\ unread' = FALSE /\ SaveRow(t, id, {}, 0, {}, FALSE)
             /\ then' = [then EXCEPT ![t] = next]
      PROVE  Story!Begin(id) /\ id \in Ids
  <2>1. id \in Ids /\ id # cur /\ ~disk[id].there
    BY IsUnused
  <2>2. disk' = disk /\ Goto(t, "upsert")
    BY <1>2 DEF SaveRow
  <2>3. pc'[t] = "upsert" /\ \A u \in Tasks \ {t} : pc'[u] = pc[u]
    BY <2>2, Going DEF PC, Saving
  <2>4. then'[t] = next /\ \A u \in Tasks \ {t} : then'[u] = then[u]
    BY <1>2, Follows
  <2>5. ~Ending /\ Knows' = told' /\ ~Ending'
    BY <1>0, <2>3, <2>4, KnowsAll, KnowsAllThen DEF OthersStay
  <2>6. Stored' = Stored
    BY <2>2 DEF Stored
  <2>7. id \notin {cur} \cup DOMAIN Stored
    BY <2>1 DEF Stored
  <2>8. Ending' = Ending
    BY <2>5 DEF Ending
  <2> QED BY <1>2, <2>1, <2>5, <2>6, <2>7, <2>8 DEF Story!Begin
<1> QED BY <1>1, <1>2 DEF StartSession

LEMMA StoryWait ==
    ASSUME OrderInv, WholeInv, NEW t \in Tasks, pc[t] = "idle",
           Goto(t, "wantAdd") \/ Goto(t, "wantStart"),
           UNCHANGED <<session, clock, live, disk, lock, then, row>>
    PROVE  UNCHANGED Story!vars
<1>1. pc'[t] \in {"wantAdd", "wantStart"} /\ \A u \in Tasks \ {t} : pc'[u] = pc[u]
  BY Going DEF PC
<1>2. Reading' = Reading
  BY <1>1 DEF Reading
<1>3. UNCHANGED <<cur, Knows, Ending, disk>>
  BY <1>2 DEF Knows, Ending, session
<1> QED BY <1>3, StoryStays

LEMMA StoryAdd ==
    ASSUME OrderInv, WholeInv, WholeInv', NEW t \in Tasks, lock = None, NoneAlone,
           pc[t] # "selectMessages", AddUnderLock(t)
    PROVE  \/ UNCHANGED Story!vars \/ Story!Tell \/ \E id \in Ids : Story!Begin(id)
<1>1. Undisturbed(t) /\ then[t] = None /\ then[t] # "end"
  BY FreeToGo, SessionAssumption
<1> QED BY <1>1, StoryStart, StoryAppend DEF AddUnderLock

(* Its save is over: what waited for it follows, or the session is ended.  *)
LEMMA StorySaved ==
    ASSUME OrderInv, WholeInv, WholeInv', NEW t \in Tasks, Saved(t)
    PROVE  UNCHANGED Story!vars \/ Story!Tell \/ Story!Leave
<1>1. pc[t] \in {"commit", "rollback"} /\ pc[t] \in Saving /\ pc[t] # "selectMessages"
  BY DEF Saved, Saving
<1>2. then[t] \in {"append", "return", "end"} /\ then[t] # None
  BY <1>1, SessionAssumption DEF WholeInv, Locks
<1>3. Undisturbed(t)
  BY <1>2, WhoIsAlone
<1>4. CASE then[t] # "end" /\ cur # None /\ AppendMessage(t)
  BY <1>1, <1>3, <1>4, StoryAppend
<1>5. Return(t) => OthersStay(t) /\ pc'[t] # "selectMessages" /\ then'[t] # "end"
  BY Returns, SessionAssumption DEF OthersStay
<1>6. CASE then[t] # "end" /\ Return(t) /\ UNCHANGED <<session, clock, live, disk>>
  BY <1>1, <1>3, <1>5, <1>6, StoryPasses DEF session
<1>7. CASE Return(t) /\ cur' = None /\ told' = {} /\ UNCHANGED disk
  <2>1. Knows' = {} /\ ~Ending'
    BY <1>3, <1>5, <1>7, KnowsAllThen
  <2>2. Stored' = Stored /\ Ending' = FALSE
    BY <1>7, <2>1 DEF Stored, Ending
  <2> QED BY <1>7, <2>1, <2>2 DEF Story!Leave
<1> QED BY <1>4, <1>6, <1>7 DEF Saved

(* Loading is done when the row becomes the current session.               *)
LEMMA StoryLoads ==
    ASSUME OrderInv, WholeInv, NEW t \in Tasks, LoadRow(t)
    PROVE  \E id \in Ids : Story!Open(id)
<1> DEFINE id == pc[t]
<1>1. PICK found \in {live[id].msgs, <<>>} :
         /\ id \in Ids /\ UNCHANGED <<disk, live, then>>
         /\ cur' = id /\ msgs' = <<>> /\ summary' = row[t].summary
         /\ row' = [row EXCEPT ![t] = [NoRow EXCEPT !.msgs = found]]
         /\ Goto(t, "selectMessages")
  BY DEF LoadRow
<1>2. then[t] = "load" /\ then[t] # None /\ \A u \in Tasks \ {t} : pc[u] = "idle"
  BY <1>1, SessionAssumption DEF WholeInv, Locks
<1>3. pc'[t] = "selectMessages" /\ \A u \in Tasks \ {t} : pc'[u] = "idle"
  BY <1>1, <1>2, Going DEF PC
<1>4. row[t] = disk[id] /\ disk[id].there
  BY <1>1 DEF WholeInv, Loading
<1>5. live = disk
  BY <1>1, <1>2, Waits DEF WholeInv
<1>6. row'[t].msgs = found /\ SetOf(found) \subseteq SetOf(disk[id].msgs)
  BY <1>1, <1>5, SetOfEmpty DEF OrderInv, Orderly, NoRow
<1>7. Knows' = disk[id].summary \cup SetOf(found)
  <2>1. Reading' = {t}
    BY <1>3 DEF Reading
  <2>2. UNION {SetOf(row'[u].msgs) : u \in Reading'} = SetOf(found)
    BY <1>6, <2>1
  <2> QED BY <1>1, <1>4, <2>2, SetOfEmpty DEF Knows
<1>8. ~Ending /\ Ending' = Ending
  <2>1. \A u \in Tasks : then[u] # "end"
    BY <1>2, WhoIsAlone, SessionAssumption DEF Undisturbed
  <2> QED BY <1>1, <2>1 DEF Ending
<1>9. id \in DOMAIN Stored /\ Stored[id] = disk[id].summary \cup SetOf(disk[id].msgs) /\ Stored' = Stored
  BY <1>1, <1>4 DEF Stored
<1>10. Story!Open(id)
  BY <1>1, <1>6, <1>7, <1>8, <1>9 DEF Story!Open
<1> QED BY <1>1, <1>10

LEMMA StoryLoad ==
    ASSUME OrderInv, WholeInv, NEW t \in Tasks, Alone(t), Load(t)
    PROVE  UNCHANGED Story!vars
<1>1. PICK i \in Ids : Goto(t, i) /\ then' = [then EXCEPT ![t] = "load"]
  BY DEF Load
<1>2. UNCHANGED <<cur, msgs, summary, disk>> /\ pc[t] = "idle"
  BY DEF Load, session
<1>3. \A u \in Tasks : pc[u] = "idle" /\ then[u] = None
  BY <1>2, IsAlone
<1>4. /\ pc'[t] = i /\ then'[t] = "load"
      /\ \A u \in Tasks \ {t} : pc'[u] = pc[u] /\ then'[u] = then[u]
  BY <1>1, Going, Follows
<1>5. \A u \in Tasks : pc[u] # "selectMessages" /\ pc'[u] # "selectMessages"
  BY <1>3, <1>4, Waits
<1>6. Knows' = Knows
  BY <1>2, <1>5, Unread
<1>7. Ending' = Ending
  <2>1. \A u \in Tasks : then[u] # "end" /\ then'[u] # "end"
    BY <1>3, <1>4, SessionAssumption
  <2> QED BY <2>1 DEF Ending
<1> QED BY <1>2, <1>6, <1>7, StoryStays

LEMMA StoryLoaded ==
    ASSUME OrderInv, WholeInv, NEW t \in Tasks, LoadMessages(t)
    PROVE  UNCHANGED Story!vars
<1>1. pc[t] = "selectMessages" /\ UNCHANGED <<cur, summary, disk>> /\ Return(t)
  BY DEF LoadMessages
<1>2. then[t] = "load" /\ then[t] # None /\ \A u \in Tasks \ {t} : pc[u] = "idle"
  BY <1>1, SessionAssumption DEF WholeInv, Locks
<1>3. msgs = <<>> /\ msgs' = row[t].msgs
  <2>1. msgs = <<>> /\ cur # None
    BY <1>1 DEF WholeInv, Loading
  <2> QED BY <2>1 DEF LoadMessages
<1>4. /\ pc'[t] = "idle" /\ then'[t] = None
      /\ \A u \in Tasks \ {t} : pc'[u] = pc[u] /\ then'[u] = then[u]
  BY <1>1, Returns
<1>5. Knows = summary \cup SetOf(row[t].msgs)
  <2>1. Reading = {t}
    BY <1>1, <1>2 DEF Reading
  <2>2. UNION {SetOf(row[u].msgs) : u \in Reading} = SetOf(row[t].msgs)
    BY <2>1
  <2> QED BY <1>3, <2>2, SetOfEmpty DEF Knows
<1>6. Knows' = summary' \cup SetOf(msgs')
  BY <1>2, <1>4, Unread
<1>7. Ending' = Ending
  <2>1. \A u \in Tasks : then[u] = "end" <=> then'[u] = "end"
    BY <1>2, <1>4, SessionAssumption
  <2> QED BY <2>1 DEF Ending
<1> QED BY <1>1, <1>3, <1>5, <1>6, <1>7, StoryStays

LEMMA StoryEnd ==
    ASSUME OrderInv, WholeInv, NEW t \in Tasks, Alone(t), End(t)
    PROVE  Story!End \/ Story!Leave
<1>1. pc[t] = "idle" /\ cur # None
  BY DEF End
<1>2. \A u \in Tasks : pc[u] = "idle" /\ then[u] = None
  BY <1>1, IsAlone
<1>3. Knows = summary \cup SetOf(msgs)
  BY <1>2, Unread
<1>4. ~Ending
  BY <1>2, SessionAssumption DEF Ending
<1>5. CASE /\ summary' = SetOf(msgs) /\ SaveRow(t, cur, summary', count, told, TRUE)
           /\ then' = [then EXCEPT ![t] = "end"] /\ UNCHANGED <<cur, msgs, count, told, unread>>
  <2>1. disk' = disk /\ pc'[t] = "upsert" /\ \A u \in Tasks \ {t} : pc'[u] = pc[u]
    BY <1>5, Going DEF SaveRow, PC, Saving
  <2>2. Knows' = SetOf(msgs)
    <3>1. \A u \in Tasks : pc'[u] # "selectMessages"
      BY <1>2, <2>1
    <3> QED BY <1>5, <3>1, Unread
  <2>3. then'[t] = "end"
    BY <1>5, Follows
  <2>4. Ending' = TRUE /\ Ending = FALSE /\ Stored' = Stored
    BY <1>4, <2>1, <2>3 DEF Ending, Stored
  <2> QED BY <1>1, <1>3, <1>5, <2>2, <2>4 DEF Story!End
<1>6. CASE /\ msgs = <<>> /\ cur' = None /\ summary' = {}
           /\ UNCHANGED <<msgs, disk, pc, then>>
  <2>1. Knows' = {}
    BY <1>2, <1>6, Unread, SetOfEmpty
  <2>2. Ending' = FALSE /\ Stored' = Stored
    BY <1>4, <1>6 DEF Ending, Stored
  <2> QED BY <1>6, <2>1, <2>2 DEF Story!Leave
<1> QED BY <1>5, <1>6 DEF End

LEMMA StoryCrash == Crash => Story!Leave
<1> SUFFICES ASSUME Crash PROVE Story!Leave
  OBVIOUS
<1>1. /\ cur' = None /\ msgs' = <<>> /\ summary' = {} /\ disk' = disk
      /\ \A u \in Tasks : pc'[u] = "idle" /\ then'[u] = None
  BY DEF Crash
<1>2. Knows' = {}
  BY <1>1, Unread, SetOfEmpty
<1>3. Ending' = FALSE /\ Stored' = Stored
  BY <1>1, SessionAssumption DEF Ending, Stored
<1> QED BY <1>1, <1>2, <1>3 DEF Story!Leave

(* Every step is one of Transcript or a stutter.                           *)
LEMMA StoryNext ==
    ASSUME OrderInv, WholeInv, allowed = {}, [Next]_vars
    PROVE  [Story!Next]_(Story!vars)
<1> USE WholeNext
<1>1. ASSUME NEW t \in Tasks, AddMessage(t) \/ Start(t) PROVE [Story!Next]_(Story!vars)
  <2>1. pc[t] = "idle" /\ pc[t] # "selectMessages" /\ NoneAlone
    BY <1>1 DEF AddMessage, Start
  <2>2. CASE Free(t) /\ (AddUnderLock(t) \/ StartSession(t, "return"))
    <3>1. lock = None
      BY <2>2 DEF Free
    <3> QED BY <2>1, <2>2, <3>1, FreeToGo, StoryAdd, StoryStart DEF Story!Next
  <2>3. CASE /\ Goto(t, "wantAdd") \/ Goto(t, "wantStart")
             /\ UNCHANGED <<session, clock, live, disk, lock, then, row>>
    BY <2>1, <2>3, StoryWait
  <2> QED BY <1>1, <2>2, <2>3 DEF AddMessage, Start
<1>2. ASSUME NEW t \in Tasks, Load(t) \/ End(t) PROVE [Story!Next]_(Story!vars)
  <2>1. Alone(t)
    BY <1>2 DEF Load, End
  <2> QED BY <1>2, <2>1, StoryLoad, StoryEnd DEF Story!Next
<1>3. ASSUME NEW t \in Tasks, TakeLock(t) PROVE [Story!Next]_(Story!vars)
  <2>1. lock = None /\ pc[t] \in {"wantAdd", "wantStart"} /\ pc[t] # "selectMessages"
    BY <1>3 DEF TakeLock
  <2>2. then[t] \notin {"load", "end"}
    BY <2>1, Waits DEF WholeInv, Locks
  <2>3. \A u \in Tasks \ {t} : then[u] \notin {"load", "end"}
    BY <2>1 DEF WholeInv, Locks
  <2>4. NoneAlone
    BY <2>2, <2>3 DEF NoneAlone
  <2> QED BY <1>3, <2>1, <2>4, FreeToGo, StoryAdd, StoryStart DEF TakeLock, Story!Next
<1>4. ASSUME NEW t \in Tasks, Saved(t) PROVE [Story!Next]_(Story!vars)
  BY <1>4, StorySaved DEF Story!Next
<1>5. ASSUME NEW t \in Tasks,
             SaveDelete(t) \/ SaveMessages(t) \/ SaveCommit(t) \/ SaveFails(t)
      PROVE  [Story!Next]_(Story!vars)
  BY <1>5, StoryStatements DEF Story!Next
<1>6. ASSUME NEW t \in Tasks, LoadRow(t) \/ LoadMessages(t) PROVE [Story!Next]_(Story!vars)
  BY <1>6, StoryLoads, StoryLoaded DEF Story!Next
<1>7. CASE Crash
  BY <1>7, StoryCrash DEF Story!Next
<1>8. (\A t \in Tasks : ~Cancel(t)) /\ ~OtherEnds
  BY DEF Cancel, OtherEnds
<1>9. CASE UNCHANGED vars
  <2>1. Reading' = Reading /\ disk' = disk
    BY <1>9 DEF vars, Reading
  <2>2. UNCHANGED <<cur, Knows, Ending>>
    BY <1>9, <2>1 DEF vars, session, Knows, Ending
  <2> QED BY <2>1, <2>2, StoryStays
<1> QED BY <1>1, <1>2, <1>3, <1>4, <1>5, <1>6, <1>7, <1>8, <1>9 DEF Next, Goes

(* Although loading and saving take several statements, which fail or are  *)
(* cut off by a crash, the manager behaves as Transcript says: every       *)
(* session is saved in one step, as all it knows, and loaded from what was *)
(* saved of it and could be read (_persist_session, load_session,          *)
(* _trigger_summarization).                                                *)
THEOREM SessionImplements == Spec => ImplementsTranscript
<1>1. Init => Story!Init
  BY StoryInit
<1>2. IInv /\ [Next]_vars => [allowed = {} => Story!Next]_(Story!vars)
  BY StoryNext DEF IInv
<1> QED BY <1>1, <1>2, Always, PTL DEF Spec, ImplementsTranscript
=============================================================================
