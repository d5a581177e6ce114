------------------------------ MODULE Inventory ------------------------------
(***************************************************************************)
(* The hosts that the user works with: the table of the database, the      *)
(* commands of /hosts and /variable, the imports and exports, the setup    *)
(* wizard, and what agents add and change by themselves.  Each reads hosts,*)
(* waits for the user or the network, and writes whole rows back; two      *)
(* processes, or two tasks of one, may be at it.                           *)
(***************************************************************************)
EXTENDS Naturals, FiniteSets

CONSTANTS Stems,         \* names in lower case
          Addresses,
          Operators,     \* who works on the inventory
          MaxEdits,      \* bound: calls in an execution
          None

VARIABLES hosts,      \* name -> row, or None
          variables,  \* whether the variable is set
          operator,   \* per operator: the call under way
          exported,   \* the content of an exported file, or None
          edits,
          doubled,    \* history: names for which nobody looked, or two did, before creating
          misled      \* history: whether a merge went against its most trusted source

inventoryVars == <<hosts, variables, operator, exported, edits, doubled, misled>>

(* A name as it is written, in lower case or not.                          *)
HostNames == Stems \X BOOLEAN
Low(n) == n[1]

Row(id, address) == [id |-> id, address |-> address, elevation |-> "none", tagged |-> FALSE, health |-> "unknown"]

(* get_by_name compares in lower case and takes the first row.             *)
Found(s) == {n \in HostNames : Low(n) = s /\ hosts[n] # None}

NoWork == [pc |-> "idle", op |-> None, name |-> None, row |-> None, items |-> {}, known |-> {}]

(* A new row's id is unlike any other: the number of the call makes it one.*)
NewId == edits

InventoryInit ==
    /\ hosts = [n \in HostNames |-> None] /\ variables = FALSE
    /\ operator = [o \in Operators |-> NoWork] /\ exported = None
    /\ edits = 0 /\ doubled = {} /\ misled = FALSE

Begin(o) == operator[o].pc = "idle" /\ edits < MaxEdits /\ edits' = edits + 1
Return(o) == operator' = [operator EXCEPT ![o] = NoWork]
Creating(o) == {Low(operator[p].name) : p \in {q \in Operators \ {o} : operator[q].pc = "create"}}
                  \union UNION {{Low(i[1]) : i \in operator[p].items} : p \in Operators \ {o}}

-----------------------------------------------------------------------------
M_AddHost(o, n, a) ==
    /\ Begin(o)
    /\ IF hosts[n] # None THEN UNCHANGED <<operator, doubled>>
       ELSE /\ operator' = [operator EXCEPT ![o] = [NoWork EXCEPT !.pc = "create", !.name = n, !.row = Row(edits, a)]]
            /\ doubled' = IF Low(n) \in Creating(o) THEN doubled \union {Low(n)} ELSE doubled
    /\ UNCHANGED <<hosts, variables, exported, misled>>

(* /hosts add, _auto_register_host and the definition of @name as a host   *)
(* look for the name first; the first tests the connection and prompts.    *)
AddHost(o, n, a) ==
    /\ Begin(o)
    /\ IF Found(Low(n)) # {} THEN UNCHANGED <<operator, doubled>>
       ELSE /\ operator' = [operator EXCEPT ![o] = [NoWork EXCEPT !.pc = "create", !.name = n, !.row = Row(edits, a)]]
            /\ doubled' = IF Low(n) \in Creating(o) THEN doubled \union {Low(n)} ELSE doubled
    /\ UNCHANGED <<hosts, variables, exported, misled>>

(* HostRepository.create: a name that is there already raises; the names   *)
(* are compared as they are written.                                       *)
Create(o) ==
    /\ operator[o].pc = "create"
    /\ hosts' = [hosts EXCEPT ![operator[o].name] = IF @ = None THEN operator[o].row ELSE @]
    /\ Return(o)
    /\ UNCHANGED <<variables, exported, edits, doubled, misled>>

-----------------------------------------------------------------------------
(* /hosts edit, tag, untag and check, request_credentials: the row that was*)
(* read is changed and written whole, by its id.                           *)
Changes == {"edit", "tag", "check", "elevation"}
Changed(op, row, a) ==
    CASE op = "edit" -> IF a = None THEN row ELSE [row EXCEPT !.address = a]
      [] op = "tag" -> [row EXCEPT !.tagged = ~@]
      [] op = "check" -> [row EXCEPT !.health = IF a = None THEN "unreachable" ELSE "healthy"]
      [] op = "elevation" -> [row EXCEPT !.elevation = "sudo_password"]

ReadHost(o, s, op) ==
    /\ Begin(o) /\ Found(s) # {}
    /\ \E n \in Found(s) :
          operator' = [operator EXCEPT ![o] = [NoWork EXCEPT !.pc = "write", !.op = op, !.name = n, !.row = hosts[n]]]
    /\ UNCHANGED <<hosts, variables, exported, doubled, misled>>

WriteHost(o, a) ==
    /\ operator[o].pc = "write"
    /\ hosts' = [n \in HostNames |->
                   IF hosts[n] # None /\ hosts[n].id = operator[o].row.id
                   THEN Changed(operator[o].op, operator[o].row, a) ELSE hosts[n]]
    /\ Return(o)
    /\ UNCHANGED <<variables, exported, edits, doubled, misled>>

(* /hosts delete and flush: what was read is deleted once confirmed.       *)
Confirm(o, s) ==
    /\ Begin(o)
    /\ \E ids \in {{hosts[n].id} : n \in Found(s)} \union {{hosts[n].id : n \in {m \in HostNames : hosts[m] # None}}} :
          /\ ids # {}
          /\ operator' = [operator EXCEPT ![o] = [NoWork EXCEPT !.pc = "delete", !.known = ids]]
    /\ UNCHANGED <<hosts, variables, exported, doubled, misled>>

DeleteHost(o, yes) ==
    /\ operator[o].pc = "delete"
    /\ IF yes THEN \E id \in operator[o].known :
                     /\ hosts' = [n \in HostNames |-> IF hosts[n] # None /\ hosts[n].id = id THEN None ELSE hosts[n]]
                     /\ IF operator[o].known = {id} THEN Return(o)
                        ELSE operator' = [operator EXCEPT ![o].known = @ \ {id}]
              ELSE Return(o) /\ UNCHANGED hosts
    /\ UNCHANGED <<variables, exported, edits, doubled, misled>>

-----------------------------------------------------------------------------
(* The importers: JSON, YAML, CSV and ssh do not look whether a name is    *)
(* there; TOML, /etc/hosts and `/variable import` do; the wizard compares  *)
(* with the names there were when it started.  A file has a name once in   *)
(* each spelling.                                                          *)
Formats == {"plain", "looks", "replace"}
Import(o, format, items) ==
    /\ Begin(o)
    /\ \A i, j \in items : i[1] = j[1] => i = j
    /\ format # "plain" => \A i, j \in items : Low(i[1]) = Low(j[1]) => i = j
    /\ operator' = [operator EXCEPT ![o] = [NoWork EXCEPT !.pc = IF format = "replace" THEN "clear" ELSE "import",
                                                          !.op = format, !.items = items]]
    /\ doubled' = doubled \union
          (IF format = "plain" THEN {Low(i[1]) : i \in items}
           ELSE {Low(i[1]) : i \in items} \intersect Creating(o))
    /\ UNCHANGED <<hosts, variables, exported, misled>>

(* `--replace` deletes the variables, then one host after the other, before*)
(* it reads what to put in their place.                                    *)
Clear(o) ==
    /\ operator[o].pc = "clear"
    /\ IF variables THEN variables' = FALSE /\ UNCHANGED <<hosts, operator>>
       ELSE IF \A n \in HostNames : hosts[n] = None
            THEN operator' = [operator EXCEPT ![o].pc = "import"] /\ UNCHANGED <<hosts, variables>>
            ELSE /\ \E n \in HostNames : hosts[n] # None /\ hosts' = [hosts EXCEPT ![n] = None]
                 /\ UNCHANGED <<variables, operator>>
    /\ UNCHANGED <<exported, edits, doubled, misled>>

ImportNext(o, i) ==
    /\ operator[o].pc = "import" /\ i \in operator[o].items
    /\ LET op == operator[o].op
           there == IF op = "plain" THEN {} ELSE Found(Low(i[1]))
           skip == Low(i[1]) \in operator[o].known \/ (op = "looks" /\ there # {}) IN
       hosts' = CASE skip -> hosts
                  [] ~skip /\ there # {} ->
                        [hosts EXCEPT ![CHOOSE n \in there : TRUE].address = i[2].address]
                  [] OTHER -> [hosts EXCEPT ![i[1]] =
                                 IF @ = None THEN [i[2] EXCEPT !.id = NewId] ELSE @]
    /\ edits' = edits + 1
    /\ IF operator[o].items = {i} THEN Return(o)
                                  ELSE operator' = [operator EXCEPT ![o].items = @ \ {i}]
    /\ UNCHANGED <<variables, exported, doubled, misled>>

(* /hosts export: the fields a file has; health is not one.                *)
AsItem(n) == <<n, [hosts[n] EXCEPT !.health = "unknown", !.id = 0]>>
Export(o) ==
    /\ Begin(o)
    /\ exported' = {AsItem(n) : n \in {m \in HostNames : hosts[m] # None}}
    /\ UNCHANGED <<hosts, variables, operator, doubled, misled>>

SetVariable(o, set) ==
    /\ Begin(o) /\ variables' = set
    /\ UNCHANGED <<hosts, operator, exported, doubled, misled>>

-----------------------------------------------------------------------------
(* The wizard: what each source says of a host, from the most trusted on:  *)
(* its address and its key, or that it does not have the host.             *)
Priority == [etc |-> 1, known |-> 2, ansible |-> 3, ssh |-> 4]
Read == <<"etc", "ssh", "known", "ansible">>
Fields == [address : Addresses \union {None}, key : BOOLEAN]

(* _merge_fields: what the host lacks is taken from the other.             *)
Filled(data, other) == [address |-> IF data.address # None THEN data.address ELSE other.address,
                        key |-> data.key \/ other.key]

(* merge_host_data, in the order the sources are read.  The host has the   *)
(* tags, so the priority, of all its sources.                              *)
M_Merge(all, source, data) ==
    IF data = None THEN all
    ELSE IF all = None THEN [data |-> data, priority |-> Priority[source]]
    ELSE [data |-> IF Priority[source] < all.priority THEN Filled(data, all.data) ELSE Filled(all.data, data),
          priority |-> IF Priority[source] > all.priority THEN Priority[source] ELSE all.priority]

Merge(all, source, data) ==
    IF data = None THEN all
    ELSE IF all = None THEN [data |-> data, priority |-> Priority[source]]
    ELSE [data |-> IF Priority[source] > all.priority THEN Filled(data, all.data) ELSE Filled(all.data, data),
          priority |-> IF Priority[source] > all.priority THEN Priority[source] ELSE all.priority]

MergeSources(says) ==
    LET Then(all, i) == Merge(all, Read[i], says[Read[i]]) IN
    Then(Then(Then(Then(None, 1), 2), 3), 4)

(* What a merge should give: all that the most trusted source says, and for*)
(* the rest what some source says.                                         *)
Trusted(says, data) ==
    LET having == {source \in DOMAIN says : says[source] # None}
        best == CHOOSE source \in having : \A other \in having : Priority[other] <= Priority[source] IN
    /\ Filled(says[best], data) = data
    /\ \A source \in having : Filled(data, says[source]) = data

(* deduplicate_hosts drops the names there are; the rest is created.  The  *)
(* wizard runs at the first start.                                         *)
Wizard(o, n, says) ==
    /\ Begin(o) /\ edits <= 1
    /\ LET merged == MergeSources(says) IN
       /\ merged # None
       /\ misled' = (misled \/ ~Trusted(says, merged.data))
       /\ operator' = [operator EXCEPT ![o] =
             [NoWork EXCEPT !.pc = "import", !.op = "wizard",
                            !.known = {Low(m) : m \in {k \in HostNames : hosts[k] # None}},
                            !.items = {<<n, Row(0, IF merged.data.address # None THEN merged.data.address
                                                   ELSE CHOOSE a \in Addresses : TRUE)>>}]]
    /\ doubled' = IF Low(n) \in Creating(o) THEN doubled \union {Low(n)} ELSE doubled
    /\ UNCHANGED <<hosts, variables, exported>>

(* The call is cancelled, or the process dies.                             *)
Stop(o) ==
    /\ operator[o].pc # "idle" /\ Return(o)
    /\ UNCHANGED <<hosts, variables, exported, edits, doubled, misled>>

Files == {items \in SUBSET (HostNames \X {Row(0, a) : a \in Addresses}) : Cardinality(items) \in 1..2}
            \union (IF exported \in {None, {}} THEN {} ELSE {exported})
SaidOf == [{"etc", "ssh", "known", "ansible"} -> {None} \union Fields]

InventoryNext ==
    \E o \in Operators :
       \/ \E n \in HostNames : \/ \E a \in Addresses : AddHost(o, n, a)
                              \/ (edits <= 1 /\ \E says \in SaidOf : Wizard(o, n, says))
       \/ Create(o) \/ Clear(o) \/ Export(o) \/ Stop(o)
       \/ \E s \in Stems : Confirm(o, s) \/ \E op \in Changes : ReadHost(o, s, op)
       \/ \E a \in Addresses \union {None} : WriteHost(o, a)
       \/ \E yes, set \in BOOLEAN : DeleteHost(o, yes) \/ SetVariable(o, set)
       \/ \E f \in Formats, items \in Files : Import(o, f, items)
       \/ \E i \in operator[o].items : ImportNext(o, i)

-----------------------------------------------------------------------------
(* Names differ by more than their case, so that a command finds the host  *)
(* it is told (get_by_name); except those imported from files without a    *)
(* look, or created by two at the same time (create, AddHost, Import).     *)
OneHostPerName == \A s \in Stems \ doubled : Cardinality(Found(s)) <= 1

(* The setup wizard takes what it knows of a host from the most trusted of *)
(* its sources that says it, and loses nothing (merge_host_data and        *)
(* _merge_fields, whatever the order in which the sources are read).       *)
MergeKeepsTrusted == ~misled
=============================================================================
