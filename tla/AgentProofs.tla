----------------------------- MODULE AgentProofs -----------------------------
(***************************************************************************)
(* Theorems about the four parts of Agent, for every number of hosts,      *)
(* calls, roles, conversations and messages and every value of the limits. *)
(***************************************************************************)
EXTENDS Agent, FiniteSets, Sequences, FiniteSetTheorems, TLAPS

(* Fleet: where the task of a host is in step with its subagent.           *)
FleetTypes ==
    /\ call \in {"running", "returned", "raised", "cancelled"}
    /\ pc \in [Working!Slots -> Working!PC]
    /\ subagent \in [Working!Slots -> {"none", "running", "cancelling", "ended"}]
    /\ answer \in [Working!Slots -> {None, "success", "failed", "cancelled"}]
    /\ outcome \in [Working!Slots -> {None, "success", "failed", "timeout", "cancelled"}]
    /\ elapsed \in [Working!Slots -> Nat] /\ idle \in [Working!Slots -> Nat]

InStep(i) ==
    /\ pc[i] = "waiting" => subagent[i] = "none"
    /\ pc[i] = "watching" => subagent[i] \in {"running", "ended"}
    /\ pc[i] = "timingOut" => subagent[i] \in {"cancelling", "ended"} /\ Working!Late(i)
    /\ pc[i] = "unwinding" => subagent[i] \in {"cancelling", "ended"}
    /\ pc[i] = "ended" => subagent[i] \in {"none", "ended"}
    /\ subagent[i] # "ended" => answer[i] = None
    /\ pc[i] = "timingOut" => answer[i] # "success"

(* What the task has reported is what its subagent has said.               *)
Reported(i) ==
    pc[i] = "ended" /\ outcome[i] # "cancelled" =>
       /\ outcome[i] = "success" <=> answer[i] = "success"
       /\ outcome[i] = "timeout" => Working!Late(i)

FleetInv ==
    /\ FleetTypes
    /\ \A i \in Working!Slots : InStep(i) /\ Reported(i)
    /\ Cardinality(Working!Holding) <= MaxConcurrent
    /\ call # "running" => \A i \in Working!Slots : pc[i] = "ended"
    /\ call = "returned" => results = outcome /\ \A i \in Working!Slots : outcome[i] # "cancelled"

(* ToolCalls: what the confirmations remember was said.                    *)
CallsInv ==
    /\ agent.kind \in Calling!Kinds
    /\ caller \in [Callers -> [pc : {"idle", "elevating", "checking", "asking", "running"},
                               tool : {"ssh_execute", "bash", "read_file", None},
                               host : Hosts \cup Unknown \cup {Calling!LocalHost, None},
                               cmd : Commands \cup {None}]]
    /\ DOMAIN confirm = {"always", "commands"}
    /\ \A c \in confirm.commands : \E y \in said : Calling!NormalOf[y.asked] = c
    /\ confirm.always => \E y \in said : y.always
    /\ Calling!RunsOnlyConfirmed

(* Elevation: who asks for a password does so on a host whose method wants *)
(* one, and which method the host has by the password verified last.       *)
Wanting == {"sudo_password", "doas_password", "su"}
Tries == Nat
Task == [pc : {"start", "asking", "prompt", "persist", "store", "run", "done"},
         mode : {"specialist", "subagent"},
         cmd : [prefix : Elevating!Prefixes, base : {"cmd", "-S cmd", "'cmd'"}],
         ref : Elevating!Services \cup {None}, service : Elevating!Services \cup {None},
         tries : Tries, typed : Elevating!Passwords \cup {None}, verified : {None, "sudo", "su"},
         lost : BOOLEAN, outcome : {None, "no credentials", "refused", "hangs", "broken", "ok", "denied"}]
ElevationTypes ==
    /\ host \in [found : {"not", "name", "hostname", "both"}, method : Elevating!Methods]
    /\ host.found = "not" => host.method = "none"
    /\ secrets \in [Elevating!Services -> Elevating!Passwords \cup {None}]
    /\ task \in [Tasks -> Task]
    /\ \A t, u \in Tasks : task[t].mode = task[u].mode

(* Passwords are replaced, never removed.                                  *)
SecretsKept ==
    /\ secrets' \in [Elevating!Services -> Elevating!Passwords \cup {None}]
    /\ \A s \in Elevating!Services : secrets[s] # None => secrets'[s] # None

OthersNever(t) == \A u \in Tasks \ {t} : task[u].verified = None

Asked(t) ==
    /\ task[t].pc \in {"start", "asking", "prompt"} => task[t].verified = None
    /\ task[t].pc \in {"asking", "prompt", "persist", "store"} => task[t].service \in Elevating!Services
    /\ task[t].pc \in {"persist", "store"}
       => task[t].verified # None /\ task[t].typed \in Elevating!Passwords
    /\ task[t].pc = "run" /\ task[t].verified # None
       => task[t].ref \in Elevating!Services /\ secrets[task[t].ref] # None
Progress(t) ==
    task[t].mode = "specialist" =>
       /\ task[t].pc \in {"asking", "prompt", "persist", "store"}
          => host.method \in Wanting /\ task[t].cmd.prefix # "sudo"
       /\ task[t].pc = "run" /\ task[t].ref = None /\ task[t].cmd.prefix = "sudo"
          => host.method \notin Wanting
       /\ task[t].verified # None => host.method \in Wanting
       /\ task[t].pc \in {"store", "run"} /\ task[t].verified # None /\ OthersNever(t)
          /\ Elevating!FoundByName /\ ~task[t].lost
          => host.method = IF task[t].verified = "sudo" THEN "sudo_password" ELSE "su"
Fits(t) ==
    /\ task[t].mode = "specialist" /\ Elevating!InInventory => task[t].outcome # "hangs"
    /\ task[t].pc = "done" /\ task[t].mode = "specialist" /\ task[t].verified # None
       /\ Elevating!FoundByName /\ ~task[t].lost /\ OthersNever(t)
       => /\ task[t].cmd.prefix = "su -c" => task[t].verified = "su"
          /\ task[t].cmd.prefix = "sudo -S" => task[t].verified = "sudo"

ElevationInv == ElevationTypes /\ \A t \in Tasks : Asked(t) /\ Progress(t) /\ Fits(t)

(* Turn: agents have conversations of their own.                           *)
Busy == {"asking", "answering", "delegating"}
TurnInv ==
    /\ phase \in Busy => agents[role].active # None
    /\ role \in Roles /\ born \subseteq Convs /\ DOMAIN store = Convs
    /\ DOMAIN agents = Roles
    /\ \A r \in Roles : /\ DOMAIN agents[r] = {"history", "active"}
                        /\ agents[r].active \in born \cup {None}
                        /\ agents[r].active = None => agents[r].history = <<>>
    /\ \A q, r \in Roles : q # r /\ agents[q].active # None => agents[q].active # agents[r].active
    /\ \A r \in Roles : agents[r].active \notin unsaved \cup {None}
                        => store[agents[r].active] \in {None, agents[r].history}

(* A conversation as the model sees it: what a tool returned follows the   *)
(* call it belongs to, and no two calls are of one round.                  *)
Message == [kind : {"user", "calls", "returns", "retries"}, round : Nat]
WellFormed(ms, n) ==
    /\ ms \in Seq(Message)
    /\ \A i \in 1..Len(ms) : ms[i].round <= n
    /\ \A i \in 1..Len(ms) : ms[i].kind = "returns"
                             => i > 1 /\ ms[i - 1].kind = "calls" /\ ms[i - 1].round = ms[i].round
    /\ \A i, j \in 1..Len(ms) : ms[i].kind = "calls" /\ ms[j].kind = "calls" /\ ms[i].round = ms[j].round
                                => i = j

PairedInv ==
    /\ rounds \in Nat
    /\ \A r \in Roles : WellFormed(agents[r].history, rounds)
    /\ WellFormed(messages, rounds)
    /\ phase = "delegating"
       => /\ messages # <<>> /\ messages[Len(messages)].kind = "calls"
          /\ messages[Len(messages)].round = rounds
    /\ phase = "answering" => Len(messages) <= MaxMessages + 1

(* new goes on where old ended, and has dropped of its beginning only what *)
(* a window of n messages has no room for.                                 *)
GoesOn(old, new, n) ==
    \E i \in 0..Len(old) : /\ Len(old) - i <= Len(new)
                           /\ \A k \in 1..Len(old) - i : new[k] = old[k + i]
                           /\ i > 0 => n <= Len(new)

GrowthInv ==
    /\ \A c \in Convs \ born : store[c] = None
    /\ \A r \in Roles : agents[r].active # None /\ store[agents[r].active] # None
                        => /\ store[agents[r].active] \in Seq(Message)
                           /\ GoesOn(store[agents[r].active], agents[r].history, MaxMessages + 1)
    /\ phase \in Busy => GoesOn(agents[role].history, messages, MaxMessages)
-----------------------------------------------------------------------------
(* Fleet.                                                                  *)
LEMMA Counting == \A S : Working!Cardinality(S) = Cardinality(S)
BY DEF Working!Cardinality, Cardinality, Working!IsFiniteSet, IsFiniteSet

LEMMA SlotsAreFinite ==
    /\ IsFiniteSet(Working!Slots)
    /\ \A S \in SUBSET Working!Slots : IsFiniteSet(S) /\ Cardinality(S) \in Nat
<1>1. IsFiniteSet(Working!Slots)
  BY FS_Interval, AgentAssumption DEF Working!Slots
<1> QED BY <1>1, FS_Subset, FS_CardinalityType

(* Where nobody enters the semaphore, its limit is kept.                   *)
LEMMA NobodyEnters ==
    ASSUME FleetInv, Working!Holding' \subseteq Working!Holding
    PROVE  Cardinality(Working!Holding') <= MaxConcurrent
<1> DEFINE H == Working!Holding
           G == Working!Holding'
<1>1. H \subseteq Working!Slots /\ Cardinality(H) <= MaxConcurrent
  BY DEF FleetInv, Working!Holding
<1> HIDE DEF H, G
<1>2. IsFiniteSet(H) /\ G \in SUBSET H
  BY <1>1, SlotsAreFinite DEF H, G
<1>3. Cardinality(G) <= Cardinality(H) /\ IsFiniteSet(G)
  BY <1>2, FS_Subset
<1>4. Cardinality(G) \in Nat /\ Cardinality(H) \in Nat
  BY <1>2, <1>3, FS_CardinalityType
<1>5. Cardinality(G) <= MaxConcurrent
  BY <1>1, <1>3, <1>4, AgentAssumption
<1> QED BY <1>5 DEF G

LEMMA OneEnters ==
    ASSUME FleetInv, NEW i \in Working!Slots, Cardinality(Working!Holding) < MaxConcurrent,
           Working!Holding' \subseteq Working!Holding \cup {i}
    PROVE  Cardinality(Working!Holding') <= MaxConcurrent
<1> DEFINE H == Working!Holding
           G == Working!Holding'
<1>1. H \subseteq Working!Slots /\ Cardinality(H) < MaxConcurrent /\ G \subseteq H \cup {i}
  BY DEF Working!Holding
<1> HIDE DEF H, G
<1>2. IsFiniteSet(H) /\ Cardinality(H) \in Nat
  BY <1>1, SlotsAreFinite
<1>3. IsFiniteSet(H \cup {i}) /\ Cardinality(H \cup {i}) <= Cardinality(H) + 1
  BY <1>2, FS_AddElement DEF Working!Holding
<1>4. Cardinality(G) <= Cardinality(H \cup {i}) /\ IsFiniteSet(G)
  BY <1>1, <1>3, FS_Subset
<1>5. Cardinality(G) \in Nat /\ Cardinality(H \cup {i}) \in Nat
  BY <1>3, <1>4, FS_CardinalityType
<1>6. Cardinality(G) <= MaxConcurrent
  BY <1>1, <1>2, <1>3, <1>4, <1>5, AgentAssumption
<1> QED BY <1>6 DEF G

LEMMA FleetBegins == Working!FleetInit => FleetInv
<1> SUFFICES ASSUME Working!FleetInit PROVE FleetInv
  OBVIOUS
<1>1. Working!Holding = {}
  BY DEF Working!FleetInit, Working!Holding
<1>2. Cardinality(Working!Holding) <= MaxConcurrent
  BY <1>1, FS_EmptySet, AgentAssumption
<1>3. FleetTypes
  BY DEF Working!FleetInit, FleetTypes, Working!PC
<1>4. ASSUME NEW i \in Working!Slots PROVE InStep(i) /\ Reported(i)
  BY NoneAssumption DEF Working!FleetInit, InStep, Reported
<1>5. call = "running"
  BY DEF Working!FleetInit
<1> QED BY <1>2, <1>3, <1>4, <1>5 DEF FleetInv

(* A step of one host, which leaves the others and the call alone.         *)
LEMMA OneHost ==
    ASSUME FleetInv, NEW i \in Working!Slots, call = "running", call' = call, FleetTypes',
           \A j \in Working!Slots \ {i} :
              /\ pc'[j] = pc[j] /\ subagent'[j] = subagent[j] /\ answer'[j] = answer[j]
              /\ outcome'[j] = outcome[j] /\ elapsed'[j] = elapsed[j] /\ idle'[j] = idle[j],
           InStep(i)', Reported(i)', Cardinality(Working!Holding') <= MaxConcurrent
    PROVE  FleetInv'
<1>1. ASSUME NEW j \in Working!Slots \ {i} PROVE InStep(j)' /\ Reported(j)'
  <2>1. InStep(j) /\ Reported(j)
    BY DEF FleetInv
  <2> QED BY <2>1 DEF InStep, Reported, Working!Late
<1>2. \A j \in Working!Slots : InStep(j)' /\ Reported(j)'
  BY <1>1
<1> QED BY <1>2 DEF FleetInv, Working!Slots, FleetTypes

LEMMA FleetStep ==
    ASSUME FleetInv, NEW i \in Working!Slots,
           Working!Step(i) \/ Working!Touch(i) \/ Working!SubagentEnds(i)
    PROVE  FleetInv'
<1>0. FleetTypes /\ InStep(i) /\ Reported(i)
  BY DEF FleetInv
<1>1. call = "running" /\ call' = call
  <2>1. pc[i] # "ended"
    BY <1>0 DEF Working!Step, Working!Start, Working!TimeOut, Working!Report, Working!Touch,
                Working!SubagentEnds, InStep, FleetTypes
  <2>2. call = "running"
    BY <2>1 DEF FleetInv
  <2> QED BY <2>2 DEF Working!Step, Working!Start, Working!TimeOut, Working!Report, Working!Touch,
                      Working!SubagentEnds
<1>2. CASE Working!Start(i)
  <2>1. /\ pc[i] = "waiting" /\ Cardinality(Working!Holding) < MaxConcurrent
        /\ UNCHANGED <<answer, elapsed, idle>>
        /\ \/ /\ pc' = [pc EXCEPT ![i] = "ended"] /\ outcome' = [outcome EXCEPT ![i] = "failed"]
              /\ UNCHANGED subagent
           \/ /\ pc' = [pc EXCEPT ![i] = "watching"]
              /\ subagent' = [subagent EXCEPT ![i] = "running"] /\ UNCHANGED outcome
    BY <1>2, Counting DEF Working!Start, Working!EndWith, Working!timers
  <2>2. FleetTypes'
    BY <1>0, <1>1, <2>1 DEF FleetTypes, Working!PC, Working!Slots
  <2>3. InStep(i)' /\ Reported(i)'
    BY <1>0, <2>1, NoneAssumption DEF InStep, Reported, FleetTypes
  <2>4. Working!Holding' \subseteq Working!Holding \cup {i}
    BY <1>0, <2>1 DEF Working!Holding, FleetTypes, Working!Slots
  <2>5. Cardinality(Working!Holding') <= MaxConcurrent
    BY <2>1, <2>4, OneEnters
  <2> QED BY <1>0, <1>1, <2>1, <2>2, <2>3, <2>5, OneHost DEF FleetTypes
<1>3. CASE Working!TimeOut(i)
  <2>1. /\ pc[i] = "watching" /\ subagent[i] = "running" /\ Working!Late(i)
        /\ UNCHANGED <<answer, outcome, elapsed, idle>>
        /\ pc' = [pc EXCEPT ![i] = "timingOut"] /\ subagent' = [subagent EXCEPT ![i] = "cancelling"]
    BY <1>3 DEF Working!TimeOut, Working!timers
  <2>2. FleetTypes'
    BY <1>0, <1>1, <2>1 DEF FleetTypes, Working!PC, Working!Slots
  <2>3. InStep(i)' /\ Reported(i)'
    BY <1>0, <2>1, NoneAssumption DEF InStep, Reported, FleetTypes, Working!Late
  <2>4. Working!Holding' \subseteq Working!Holding
    BY <1>0, <2>1 DEF Working!Holding, FleetTypes, Working!Slots
  <2>5. Cardinality(Working!Holding') <= MaxConcurrent
    BY <2>4, NobodyEnters
  <2> QED BY <1>0, <1>1, <2>1, <2>2, <2>3, <2>5, OneHost DEF FleetTypes
<1>4. CASE Working!Report(i)
  <2>1. /\ pc[i] \in {"watching", "timingOut", "unwinding"} /\ subagent[i] = "ended"
        /\ UNCHANGED <<subagent, answer, elapsed, idle>>
        /\ pc' = [pc EXCEPT ![i] = "ended"]
        /\ outcome' = [outcome EXCEPT ![i] = CASE pc[i] = "timingOut" -> "timeout"
                                               [] pc[i] = "unwinding" -> "cancelled"
                                               [] OTHER -> answer[i]]
    BY <1>4 DEF Working!Report, Working!EndWith, Working!timers
  <2>2. outcome'[i] = CASE pc[i] = "timingOut" -> "timeout"
                        [] pc[i] = "unwinding" -> "cancelled"
                        [] OTHER -> answer[i]
    BY <1>0, <2>1 DEF FleetTypes
  <2>3. outcome'[i] \in {None, "success", "failed", "timeout", "cancelled"}
    BY <1>0, <2>1, <2>2 DEF FleetTypes
  <2>4. FleetTypes'
    <3>1. outcome' = [outcome EXCEPT ![i] = outcome'[i]]
      BY <2>1, <2>2
    <3> QED BY <1>0, <1>1, <2>1, <2>3, <3>1 DEF FleetTypes, Working!PC, Working!Slots
  <2>5. pc'[i] = "ended" /\ Working!Late(i)' = Working!Late(i)
    BY <1>0, <2>1 DEF FleetTypes, Working!Late
  <2>6. InStep(i)'
    BY <1>0, <2>1, <2>5 DEF InStep
  <2>7. Reported(i)'
    <3>1. CASE pc[i] = "timingOut"
      <4>1. outcome'[i] = "timeout" /\ answer'[i] # "success" /\ Working!Late(i)
        BY <1>0, <2>1, <2>2, <3>1 DEF InStep
      <4> QED BY <2>5, <4>1 DEF Reported
    <3>2. CASE pc[i] = "unwinding"
      BY <2>1, <2>2, <3>2 DEF Reported
    <3>3. CASE pc[i] = "watching"
      <4>1. outcome'[i] = answer'[i] /\ answer[i] \in {None, "success", "failed", "cancelled"}
        BY <1>0, <2>1, <2>2, <3>3 DEF FleetTypes
      <4>2. answer[i] # "timeout" \/ answer[i] = None
        BY <4>1
      <4>3. None # "timeout"
        BY NoneAssumption
      <4> QED BY <2>1, <4>1, <4>3 DEF Reported
    <3> QED BY <2>1, <3>1, <3>2, <3>3
  <2>8. Working!Holding' \subseteq Working!Holding
    BY <1>0, <2>1 DEF Working!Holding, FleetTypes, Working!Slots
  <2>9. Cardinality(Working!Holding') <= MaxConcurrent
    BY <2>8, NobodyEnters
  <2> QED BY <1>0, <1>1, <2>1, <2>4, <2>6, <2>7, <2>9, OneHost DEF FleetTypes
<1>5. CASE Working!Touch(i)
  <2>1. subagent[i] = "running" /\ idle' = [idle EXCEPT ![i] = 0]
        /\ UNCHANGED <<pc, subagent, answer, outcome, elapsed>>
    BY <1>5 DEF Working!Touch
  <2>2. FleetTypes'
    BY <1>0, <1>1, <2>1 DEF FleetTypes, Working!PC, Working!Slots
  <2>3. InStep(i)' /\ Reported(i)'
    BY <1>0, <2>1 DEF InStep, Reported, FleetTypes
  <2>4. Working!Holding' \subseteq Working!Holding
    BY <2>1 DEF Working!Holding, Working!Slots
  <2>5. Cardinality(Working!Holding') <= MaxConcurrent
    BY <2>4, NobodyEnters
  <2> QED BY <1>0, <1>1, <2>1, <2>2, <2>3, <2>5, OneHost DEF FleetTypes
<1>6. CASE Working!SubagentEnds(i)
  <2>1. PICK a \in {"success", "failed", "cancelled"} :
           /\ subagent[i] \in {"running", "cancelling"}
           /\ subagent[i] = "cancelling" => a # "success"
           /\ subagent' = [subagent EXCEPT ![i] = "ended"]
           /\ answer' = [answer EXCEPT ![i] = a]
           /\ UNCHANGED <<pc, outcome, elapsed, idle>>
    BY <1>6 DEF Working!SubagentEnds, Working!timers
  <2>2. FleetTypes'
    BY <1>0, <1>1, <2>1 DEF FleetTypes, Working!PC, Working!Slots
  <2>3. InStep(i)' /\ Reported(i)'
    BY <1>0, <2>1 DEF InStep, Reported, FleetTypes, Working!Late
  <2>4. Working!Holding' \subseteq Working!Holding
    BY <2>1 DEF Working!Holding, Working!Slots
  <2>5. Cardinality(Working!Holding') <= MaxConcurrent
    BY <2>4, NobodyEnters
  <2> QED BY <1>0, <1>1, <2>1, <2>2, <2>3, <2>5, OneHost DEF FleetTypes
<1> QED BY <1>2, <1>3, <1>4, <1>5, <1>6 DEF Working!Step

LEMMA FleetCancel == ASSUME FleetInv, Working!Cancel PROVE FleetInv'
<1>1. /\ call = "running" /\ UNCHANGED <<call, answer, elapsed, idle>>
      /\ pc' = [i \in Working!Slots |-> CASE pc[i] = "waiting" -> "ended"
                                          [] pc[i] = "watching" -> "unwinding"
                                          [] OTHER -> pc[i]]
      /\ outcome' = [i \in Working!Slots |-> IF pc[i] = "waiting" THEN "cancelled" ELSE outcome[i]]
      /\ subagent' = [i \in Working!Slots |-> IF pc[i] = "watching" /\ subagent[i] = "running"
                                              THEN "cancelling" ELSE subagent[i]]
  BY DEF Working!Cancel, Working!timers
<1>0. FleetTypes
  BY DEF FleetInv
<1>2. FleetTypes'
  BY <1>0, <1>1 DEF FleetTypes, Working!PC, Working!Slots
<1>3. ASSUME NEW i \in Working!Slots PROVE InStep(i)' /\ Reported(i)'
  <2>1. InStep(i) /\ Reported(i)
    BY DEF FleetInv
  <2>2. pc'[i] = CASE pc[i] = "waiting" -> "ended"
                   [] pc[i] = "watching" -> "unwinding"
                   [] OTHER -> pc[i]
    BY <1>1
  <2>3. pc[i] = "waiting" => pc'[i] = "ended" /\ outcome'[i] = "cancelled" /\ subagent'[i] = subagent[i]
    BY <1>1, <2>2
  <2>4. pc[i] = "watching" => /\ pc'[i] = "unwinding" /\ subagent'[i] \in {"cancelling", "ended"}
                              /\ subagent'[i] = "ended" => subagent[i] = "ended"
                              /\ subagent'[i] # "ended" => subagent[i] # "ended"
    BY <1>1, <2>1, <2>2 DEF InStep
  <2>5. pc[i] \notin {"waiting", "watching"}
        => pc'[i] = pc[i] /\ outcome'[i] = outcome[i] /\ subagent'[i] = subagent[i]
    BY <1>1, <2>2
  <2>6. answer'[i] = answer[i] /\ Working!Late(i)' = Working!Late(i)
    BY <1>1 DEF Working!Late
  <2>7. CASE pc[i] = "waiting"
    BY <2>1, <2>3, <2>6, <2>7 DEF InStep, Reported
  <2>8. CASE pc[i] = "watching"
    BY <2>1, <2>4, <2>6, <2>8 DEF InStep, Reported
  <2>9. CASE pc[i] \notin {"waiting", "watching"}
    BY <2>1, <2>5, <2>6, <2>9 DEF InStep, Reported
  <2> QED BY <2>7, <2>8, <2>9
<1>4. Working!Holding' \subseteq Working!Holding
  BY <1>1 DEF Working!Holding, Working!Slots
<1>5. Cardinality(Working!Holding') <= MaxConcurrent
  BY <1>4, NobodyEnters
<1> QED BY <1>1, <1>2, <1>3, <1>5 DEF FleetInv, Working!Slots

LEMMA FleetGather == ASSUME FleetInv, Working!Gather PROVE FleetInv'
<1>0. FleetTypes
  BY DEF FleetInv
<1>1. /\ call = "running" /\ \A i \in Working!Slots : pc[i] = "ended"
      /\ UNCHANGED <<pc, subagent, answer, outcome, elapsed, idle>>
  BY DEF Working!Gather, Working!timers
<1>2. \/ call' \in {"cancelled", "raised"}
      \/ /\ call' = "returned" /\ results' = outcome
         /\ \A i \in Working!Slots : outcome[i] # "cancelled"
  <2>1. \A i \in Working!Slots : outcome[i] \in Working!Range(outcome)
    BY <1>0 DEF FleetTypes, Working!Range
  <2> QED BY <2>1 DEF Working!Gather
<1>3. FleetTypes'
  BY <1>0, <1>1, <1>2 DEF FleetTypes, Working!PC, Working!Slots
<1>4. ASSUME NEW i \in Working!Slots PROVE InStep(i)' /\ Reported(i)'
  BY <1>1 DEF FleetInv, InStep, Reported, Working!Late
<1>5. Working!Holding' = Working!Holding
  BY <1>1 DEF Working!Holding, Working!Slots
<1>6. Cardinality(Working!Holding') <= MaxConcurrent
  BY <1>5, NobodyEnters
<1> QED BY <1>1, <1>2, <1>3, <1>4, <1>6 DEF FleetInv, Working!Slots

LEMMA FleetTick == ASSUME FleetInv, Working!Tick PROVE FleetInv'
<1>0. FleetTypes
  BY DEF FleetInv
<1>1. /\ UNCHANGED <<call, pc, subagent, answer, outcome, results>>
      /\ elapsed' = [i \in Working!Slots |-> elapsed[i] + IF subagent[i] = "running" THEN 1 ELSE 0]
      /\ idle' = [i \in Working!Slots |-> idle[i] + IF subagent[i] = "running" THEN 1 ELSE 0]
  BY DEF Working!Tick
<1>2. FleetTypes'
  BY <1>0, <1>1 DEF FleetTypes, Working!PC, Working!Slots
<1>3. ASSUME NEW i \in Working!Slots PROVE InStep(i)' /\ Reported(i)'
  <2>1. InStep(i) /\ Reported(i)
    BY DEF FleetInv
  <2>2. subagent[i] # "running" => elapsed'[i] = elapsed[i] /\ idle'[i] = idle[i]
    BY <1>0, <1>1 DEF FleetTypes
  <2>3. pc[i] \in {"timingOut", "ended"} => Working!Late(i)' = Working!Late(i)
    BY <2>1, <2>2 DEF InStep, Working!Late
  <2> QED BY <1>1, <2>1, <2>3 DEF InStep, Reported
<1>4. Working!Holding' = Working!Holding
  BY <1>1 DEF Working!Holding, Working!Slots
<1>5. Cardinality(Working!Holding') <= MaxConcurrent
  BY <1>4, NobodyEnters
<1> QED BY <1>1, <1>2, <1>3, <1>5 DEF FleetInv, Working!Slots

LEMMA FleetStays == ASSUME FleetInv, UNCHANGED fleetVars PROVE FleetInv'
<1>1. UNCHANGED <<call, pc, subagent, answer, outcome, results, elapsed, idle>>
  BY DEF fleetVars
<1>2. Working!Holding' = Working!Holding
  BY <1>1 DEF Working!Holding, Working!Slots
<1>3. Cardinality(Working!Holding') <= MaxConcurrent
  BY <1>2, NobodyEnters
<1> QED BY <1>1, <1>3 DEF FleetInv, FleetTypes, InStep, Reported, Working!Late, Working!Slots, Working!PC

(* An execution follows one part.                                          *)
LEMMA OnePart ==
    ASSUME [Next]_vars
    PROVE  /\ part' = part
           /\ part = "elevation" => Elevating!ElevationNext \/ UNCHANGED elevationVars
           /\ part = "calls" => Calling!CallsNext \/ UNCHANGED callVars
           /\ part = "turn" => Talking!TurnNext \/ UNCHANGED turnVars
           /\ part = "fleet" => Working!FleetNext \/ UNCHANGED fleetVars
BY DEF Next, Elevate, Calls, Talk, Work, vars

LEMMA Beginnings ==
    ASSUME Init
    PROVE  /\ part = "elevation" => Elevating!ElevationInit
           /\ part = "calls" => Calling!CallsInit
           /\ part = "turn" => Talking!TurnInit
           /\ part = "fleet" => Working!FleetInit
BY DEF Init

LEMMA Safety == Spec => Init /\ [][Next]_vars
<1> QED BY PTL DEF Spec

FleetSafe == part = "fleet" => FleetInv

LEMMA FleetAlways == Spec => []FleetSafe
<1>1. Init => FleetSafe
  BY Beginnings, FleetBegins DEF FleetSafe
<1>2. FleetSafe /\ [Next]_vars => FleetSafe'
  BY OnePart, FleetStep, FleetCancel, FleetGather, FleetTick, FleetStays DEF FleetSafe, Working!FleetNext
<1> QED BY <1>1, <1>2, Safety, PTL

(* However run_on_hosts ends, no subagent of it goes on working, and at no *)
(* time do more than max_concurrent work, for every number of hosts        *)
(* (_execute_on_host, ActivityTimeout).                                    *)
THEOREM NoneLeftRunning == Spec => []NothingLeftRunning
<1>1. FleetInv => Working!NothingLeftRunning
  <2> SUFFICES ASSUME FleetInv PROVE Working!NothingLeftRunning
    OBVIOUS
  <2> DEFINE B == {i \in Working!Slots : subagent[i] \in {"running", "cancelling"}}
             H == Working!Holding
  <2>1. ASSUME NEW i \in B PROVE i \in H
    <3>1. i \in Working!Slots /\ InStep(i) /\ pc[i] \in Working!PC
      BY <2>1 DEF FleetInv, FleetTypes
    <3> QED BY <2>1, <3>1 DEF InStep, Working!PC, Working!Holding
  <2>2. H \subseteq Working!Slots
    BY DEF Working!Holding
  <2>3. Cardinality(H) <= MaxConcurrent
    BY DEF FleetInv
  <2>4. B \subseteq H
    BY <2>1
  <2>5. call # "running" => \A i \in Working!Slots : subagent[i] \in {"none", "ended"}
    BY DEF FleetInv, InStep
  <2> HIDE DEF H
  <2>6. Cardinality(B) <= MaxConcurrent
    <3> HIDE DEF B
    <3>1. IsFiniteSet(H) /\ Cardinality(H) \in Nat
      BY <2>2, SlotsAreFinite
    <3>2. Cardinality(B) <= Cardinality(H) /\ IsFiniteSet(B)
      BY <2>4, <3>1, FS_Subset
    <3>3. Cardinality(B) \in Nat
      BY <3>2, FS_CardinalityType
    <3> QED BY <2>3, <3>1, <3>2, <3>3, AgentAssumption
  <2> QED BY <2>5, <2>6, Counting DEF Working!NothingLeftRunning
<1>2. FleetSafe => NothingLeftRunning
  BY <1>1 DEF FleetSafe, NothingLeftRunning
<1> QED BY <1>2, FleetAlways, PTL

(* A call that returns says of each host what its subagent said, in the    *)
(* results and in the summary; who is reported as timed out was late       *)
(* (AggregatedResults).                                                    *)
THEOREM ResultsTrue == Spec => []ResultsAreTrue
<1>1. FleetInv => Working!ResultsAreTrue
  <2> SUFFICES ASSUME FleetInv, call = "returned" PROVE Working!ResultsAreTrue
    BY DEF Working!ResultsAreTrue
  <2>1. /\ DOMAIN results = Working!Slots /\ DOMAIN answer = Working!Slots
        /\ results = outcome
    BY DEF FleetInv, FleetTypes
  <2>2. \A i \in Working!Slots : /\ results[i] = "success" <=> answer[i] = "success"
                                 /\ results[i] = "timeout" => Working!Late(i)
    BY DEF FleetInv, Reported
  <2>3. {i \in DOMAIN results : results[i] = "success"} = {i \in DOMAIN answer : answer[i] = "success"}
    BY <2>1, <2>2
  <2>4. Working!Summary(results) = Working!Summary(answer)
    BY <2>1, <2>3 DEF Working!Summary
  <2> QED BY <2>1, <2>2, <2>4 DEF Working!ResultsAreTrue
<1>2. FleetSafe => ResultsAreTrue
  BY <1>1 DEF FleetSafe, ResultsAreTrue
<1> QED BY <1>2, FleetAlways, PTL
-----------------------------------------------------------------------------
(* ToolCalls.                                                              *)
CallPC == {"idle", "elevating", "checking", "asking", "running"}
Placed(c) == c \in [Callers -> [pc : CallPC, tool : {"ssh_execute", "bash", "read_file", None},
                                host : Hosts \cup Unknown \cup {Calling!LocalHost, None},
                                cmd : Commands \cup {None}]]

(* A call whose command was confirmed, if it had to be.                    *)
Demands == agent.kind = "execution" /\ agent.confirmed /\ ~agent.auto
Confirmed(cmd) == \E y \in said : y.always \/ Calling!NormalOf[y.asked] = Calling!NormalOf[cmd]
MayRun(t) == caller[t].pc \in {"running", "elevating"} /\ Demands => Confirmed(caller[t].cmd)

LEMMA CallsBegin == Calling!CallsInit => CallsInv
<1> SUFFICES ASSUME Calling!CallsInit PROVE CallsInv
  OBVIOUS
<1>1. caller = [t \in Callers |-> [pc |-> "idle", tool |-> None, host |-> None, cmd |-> None]]
      /\ confirm = [always |-> FALSE, commands |-> {}]
  BY DEF Calling!CallsInit, Calling!NoCall
<1>2. DOMAIN confirm = {"always", "commands"} /\ confirm.commands = {} /\ ~confirm.always
  BY <1>1
<1>3. agent.kind \in Calling!Kinds
  BY DEF Calling!CallsInit
<1> QED BY <1>1, <1>2, <1>3 DEF CallsInv, Calling!RunsOnlyConfirmed

(* What was said stays said, and the other calls stay where they are.      *)
LEMMA OneCall ==
    ASSUME CallsInv, NEW t \in Callers, UNCHANGED agent,
           \A u \in Callers \ {t} : caller'[u] = caller[u], Placed(caller'),
           DOMAIN confirm' = {"always", "commands"},
           confirm'.always => \E y \in said' : y.always, said \subseteq said',
           \A c \in confirm'.commands : \E y \in said' : Calling!NormalOf[y.asked] = c,
           MayRun(t)'
    PROVE  CallsInv'
<1>1. ASSUME NEW u \in Callers PROVE MayRun(u)'
  <2>1. CASE u = t
    BY <2>1
  <2>2. CASE u # t
    <3>1. MayRun(u)
      BY DEF CallsInv, Calling!RunsOnlyConfirmed, MayRun, Demands, Confirmed
    <3>2. Demands' => Demands
      BY DEF Demands
    <3>3. ASSUME NEW c, Confirmed(c) PROVE Confirmed(c)'
      BY <3>3 DEF Confirmed
    <3>4. caller'[u] = caller[u]
      BY <2>2
    <3> QED BY <3>1, <3>2, <3>3, <3>4 DEF MayRun
  <2> QED BY <2>1, <2>2
<1>2. Calling!RunsOnlyConfirmed'
  BY <1>1 DEF Calling!RunsOnlyConfirmed, MayRun, Demands, Confirmed
<1> QED BY <1>2 DEF CallsInv, CallPC, Placed, Calling!LocalHost, Calling!Kinds

(* A call that goes on, and one that ends.                                 *)
LEMMA MovesOn ==
    ASSUME CallsInv, NEW t \in Callers, NEW where \in CallPC,
           caller' = [caller EXCEPT ![t].pc = where]
    PROVE  /\ Placed(caller') /\ caller'[t].pc = where /\ caller'[t].cmd = caller[t].cmd
           /\ \A u \in Callers \ {t} : caller'[u] = caller[u]
BY DEF CallsInv, CallPC, Placed

LEMMA CallEnds ==
    ASSUME CallsInv, NEW t \in Callers, caller' = [caller EXCEPT ![t] = Calling!NoCall]
    PROVE  /\ Placed(caller') /\ caller'[t].pc = "idle" /\ MayRun(t)'
           /\ \A u \in Callers \ {t} : caller'[u] = caller[u]
BY DEF CallsInv, CallPC, Placed, Calling!NoCall, MayRun

LEMMA CallsStep ==
    ASSUME CallsInv, NEW t \in Callers,
           Calling!Invoke(t) \/ Calling!CallStep(t) \/ Calling!Answer(t)
    PROVE  CallsInv'
<1>0. /\ MayRun(t) /\ DOMAIN confirm = {"always", "commands"} /\ agent.kind \in Calling!Kinds
      /\ \A c \in confirm.commands : \E y \in said : Calling!NormalOf[y.asked] = c
      /\ confirm.always => \E y \in said : y.always
  BY DEF CallsInv, Calling!RunsOnlyConfirmed, MayRun, Demands, Confirmed
<1>a. UNCHANGED agent
  BY DEF Calling!Invoke, Calling!CallStep, Calling!Elevate, Calling!Check, Calling!Run, Calling!Answer
<1>d. Demands' = Demands
  BY <1>a DEF Demands
<1>b. ASSUME UNCHANGED <<confirm, said>>,
             \/ caller' = [caller EXCEPT ![t] = Calling!NoCall]
             \/ \E where \in {"checking", "asking"} : caller' = [caller EXCEPT ![t].pc = where]
             \/ /\ \E where \in CallPC : caller' = [caller EXCEPT ![t].pc = where]
                /\ Demands => Confirmed(caller[t].cmd)
      PROVE  CallsInv'
  <2>1. /\ MayRun(t)' /\ Placed(caller') /\ \A u \in Callers \ {t} : caller'[u] = caller[u]
    <3>1. CASE caller' = [caller EXCEPT ![t] = Calling!NoCall]
      BY <3>1, CallEnds
    <3>2. ASSUME NEW where \in {"checking", "asking"}, caller' = [caller EXCEPT ![t].pc = where]
          PROVE  MayRun(t)' /\ Placed(caller') /\ \A u \in Callers \ {t} : caller'[u] = caller[u]
      <4>1. where \in CallPC
        BY DEF CallPC
      <4> QED BY <3>2, <4>1, MovesOn DEF MayRun
    <3>3. ASSUME NEW where \in CallPC, caller' = [caller EXCEPT ![t].pc = where],
                 Demands => Confirmed(caller[t].cmd)
          PROVE  MayRun(t)' /\ Placed(caller') /\ \A u \in Callers \ {t} : caller'[u] = caller[u]
      <4>1. Confirmed(caller[t].cmd) => Confirmed(caller[t].cmd)'
        <5>1. caller'[t].cmd = caller[t].cmd
          BY <3>3, MovesOn
        <5> QED BY <1>b, <5>1 DEF Confirmed
      <4> QED BY <1>d, <3>3, <4>1, MovesOn DEF MayRun
    <3> QED BY <1>b, <3>1, <3>2, <3>3
  <2> QED BY <1>0, <1>a, <1>b, <2>1, OneCall
<1>1. CASE Calling!Invoke(t)
  <2>1. UNCHANGED <<confirm, said>>
    BY <1>1 DEF Calling!Invoke
  <2>2. PICK tool \in {"ssh_execute", "bash", "read_file"}, h \in Hosts \cup Unknown, cmd \in Commands :
           caller' = [caller EXCEPT ![t] = [pc |-> Calling!First(tool, Calling!HostOf(tool, h)),
                                            tool |-> tool, host |-> Calling!HostOf(tool, h), cmd |-> cmd]]
    BY <1>1 DEF Calling!Invoke
  <2> DEFINE where == Calling!First(tool, Calling!HostOf(tool, h))
             at == Calling!HostOf(tool, h)
  <2>3. at \in {h, Calling!LocalHost}
    BY DEF Calling!HostOf
  <2>4. where \in {"elevating", "checking"} /\ (agent.kind = "execution" => where = "checking")
    BY <1>0 DEF Calling!First, Calling!ExecutionAgent, Calling!DiagnosticAgent,
                Calling!SecurityAgent, Calling!Subagent, Calling!Elevated, Calling!Kinds
  <2>5. caller' = [caller EXCEPT ![t] = [pc |-> where, tool |-> tool, host |-> at, cmd |-> cmd]]
    BY <2>2
  <2> HIDE DEF where, at
  <2>6. [pc |-> where, tool |-> tool, host |-> at, cmd |-> cmd]
          \in [pc : CallPC, tool : {"ssh_execute", "bash", "read_file", None}, host : Hosts \cup Unknown \cup {Calling!LocalHost, None}, cmd : Commands \cup {None}]
    BY <2>3, <2>4 DEF CallPC
  <2>7. Placed(caller') /\ caller'[t].pc = where /\ \A u \in Callers \ {t} : caller'[u] = caller[u]
    BY <2>5, <2>6 DEF CallsInv, Placed, CallPC
  <2>8. MayRun(t)'
    BY <1>a, <2>4, <2>7 DEF MayRun, Demands
  <2> QED BY <1>0, <1>a, <2>1, <2>7, <2>8, OneCall
<1>2. CASE Calling!Elevate(t)
  <2>1. /\ caller[t].pc = "elevating" /\ UNCHANGED <<confirm, said>>
        /\ \E where \in CallPC : caller' = [caller EXCEPT ![t].pc = where]
    BY <1>2 DEF Calling!Elevate, CallPC
  <2> QED BY <1>0, <1>b, <2>1 DEF MayRun
<1>3. CASE Calling!Check(t)
  <2>1. UNCHANGED <<confirm, said>>
    BY <1>3 DEF Calling!Check
  <2> DEFINE cmd == caller[t].cmd
             asks == Calling!Asks(caller[t])
  <2>2. \/ caller' = [caller EXCEPT ![t] = Calling!NoCall]
        \/ caller' = [caller EXCEPT ![t].pc = IF asks THEN "asking" ELSE Calling!Onward(t)]
    BY <1>3 DEF Calling!Check
  <2>3. Demands /\ ~asks => Confirmed(cmd)
    BY <1>0 DEF Demands, Confirmed, Calling!Asks, Calling!ShouldSkip
  <2>4. Calling!Onward(t) \in CallPC
    BY DEF Calling!Onward, CallPC
  <2>5. CASE asks
    BY <1>b, <2>1, <2>2, <2>5
  <2>6. CASE ~asks
    BY <1>b, <2>1, <2>2, <2>3, <2>4, <2>6
  <2> QED BY <2>5, <2>6
<1>4. CASE Calling!Run(t)
  BY <1>4, <1>b DEF Calling!Run
<1>5. CASE Calling!Answer(t)
  <2>1. CASE UNCHANGED <<confirm, said>> /\ caller' = [caller EXCEPT ![t] = Calling!NoCall]
    BY <1>b, <2>1
  <2>2. CASE UNCHANGED <<confirm, said, caller>>
    <3>1. CallsInv' = CallsInv
      BY <1>a, <2>2 DEF CallsInv, Calling!RunsOnlyConfirmed, Calling!LocalHost, Calling!Kinds
    <3> QED BY <3>1
  <2> DEFINE form == Calling!NormalOf[caller[t].cmd]
  <2>3. ASSUME NEW always \in BOOLEAN, Calling!Yes(t, always),
               caller' = [caller EXCEPT ![t].pc = Calling!Onward(t)],
               \/ confirm' = IF agent.kind = "execution"
                             THEN [confirm EXCEPT !.commands = @ \cup {form}] ELSE confirm
               \/ agent.kind = "execution" /\ always /\ confirm' = [confirm EXCEPT !.always = TRUE]
        PROVE  CallsInv'
    <3>1. Calling!Onward(t) \in CallPC
      BY DEF Calling!Onward, CallPC
    <3>2. /\ Placed(caller') /\ caller'[t].cmd = caller[t].cmd
          /\ \A u \in Callers \ {t} : caller'[u] = caller[u]
      BY <2>3, <3>1, MovesOn
    <3> DEFINE word == [asked |-> caller[t].cmd, shown |-> shown, always |-> always]
    <3>3. /\ said \subseteq said'
          /\ agent.kind = "execution" => word \in said' /\ word.asked = caller[t].cmd /\ word.always = always
      <4>1. word.asked = caller[t].cmd /\ word.always = always
        OBVIOUS
      <4>2. said' = IF agent.kind = "execution" THEN said \cup {word} ELSE said
        BY <2>3 DEF Calling!Yes
      <4> QED BY <4>1, <4>2
    <3> HIDE DEF word
    <3>4. /\ DOMAIN confirm' = {"always", "commands"}
          /\ agent.kind = "execution" => confirm'.commands \subseteq confirm.commands \cup {form}
          /\ agent.kind # "execution" => confirm' = confirm
      BY <1>0, <2>3
    <3>5. confirm'.always => \E y \in said' : y.always
      <4>1. CASE agent.kind = "execution" /\ always
        BY <3>3, <4>1
      <4>2. CASE confirm' = [confirm EXCEPT !.commands = @ \cup {form}]
        <5>1. confirm'.always = confirm.always
          BY <1>0, <4>2
        <5> QED BY <1>0, <3>3, <5>1
      <4>3. CASE confirm' = confirm
        BY <1>0, <3>3, <4>3
      <4> QED BY <2>3, <4>1, <4>2, <4>3
    <3>6. \A c \in confirm'.commands : \E y \in said' : Calling!NormalOf[y.asked] = c
      BY <1>0, <3>3, <3>4
    <3>7. MayRun(t)'
      BY <1>a, <3>2, <3>3 DEF MayRun, Demands, Confirmed
    <3> QED BY <1>a, <3>2, <3>3, <3>4, <3>5, <3>6, <3>7, OneCall
  <2> QED BY <1>5, <2>1, <2>2, <2>3 DEF Calling!Answer
<1> QED BY <1>1, <1>2, <1>3, <1>4, <1>5 DEF Calling!CallStep

CallsSafe == part = "calls" => CallsInv

(* What the execution agent is about to do after a confirmation is required*)
(* was said yes to, by an answer `always' or by a yes to a command of the  *)
(* same normal form, however the concurrent calls share the prompt and the *)
(* answers (should_skip, confirm_command), for every number of calls and   *)
(* commands.                                                               *)
THEOREM ConfirmedBeforeRun == Spec => []RunsOnlyConfirmed
<1>1. Init => CallsSafe
  BY Beginnings, CallsBegin DEF CallsSafe
<1>2. CallsSafe /\ [Next]_vars => CallsSafe'
  <2> SUFFICES ASSUME CallsSafe, [Next]_vars, part' = "calls" PROVE CallsInv'
    BY DEF CallsSafe
  <2>1. CallsInv
    BY OnePart DEF CallsSafe
  <2>2. CASE UNCHANGED callVars
    BY <2>1, <2>2 DEF callVars, CallsInv, Calling!RunsOnlyConfirmed, Calling!LocalHost, Calling!Kinds
  <2>3. CASE Calling!CallsNext
    BY <2>1, <2>3, CallsStep DEF Calling!CallsNext
  <2> QED BY <2>2, <2>3, OnePart
<1>3. CallsSafe => RunsOnlyConfirmed
  BY DEF CallsSafe, CallsInv, RunsOnlyConfirmed
<1> QED BY <1>1, <1>2, <1>3, Safety, PTL
-----------------------------------------------------------------------------
(* Turn: what is stored.                                                   *)
AgentOf(a) == DOMAIN a = {"history", "active"}
IsStored(r) == agents[r].active \notin unsaved \cup {None}
               => store[agents[r].active] \in {None, agents[r].history}

LEMMA TurnBegins == Talking!TurnInit => TurnInv
<1> SUFFICES ASSUME Talking!TurnInit PROVE TurnInv
  OBVIOUS
<1>1. /\ agents = [r \in Roles |-> [history |-> <<>>, active |-> None]]
      /\ store = [c \in Convs |-> None] /\ born = {} /\ role = Talking!Repl
  BY DEF Talking!TurnInit, Talking!Fresh
<1>2. role \in Roles
  BY <1>1, AgentAssumption DEF Talking!Repl
<1>3. phase \notin Busy
  BY DEF Talking!TurnInit, Busy
<1>4. DOMAIN store = Convs /\ DOMAIN agents = Roles /\ born \subseteq Convs
  BY <1>1
<1>5. \A r \in Roles : /\ DOMAIN agents[r] = {"history", "active"}
                       /\ agents[r].active = None /\ agents[r].history = <<>>
  BY <1>1
<1> QED BY <1>2, <1>3, <1>4, <1>5 DEF TurnInv

(* A new history h of the agent in use, and its saving.                    *)
LEMMA PersistKeeps ==
    ASSUME TurnInv, NEW h, Talking!Persist(h), UNCHANGED <<role, born>>,
           \/ agents' = [agents EXCEPT ![role].history = h]
           \/ agents' = agents /\ h = agents[role].history,
           h # <<>> => agents[role].active # None, phase' \notin Busy
    PROVE  TurnInv'
<1> DEFINE c == agents[role].active
<1>1. /\ role \in Roles /\ born \subseteq Convs /\ DOMAIN store = Convs /\ DOMAIN agents = Roles
      /\ \A r \in Roles : AgentOf(agents[r])
      /\ c \in born \cup {None}
  BY DEF TurnInv, AgentOf
<1>2. /\ DOMAIN agents' = Roles
      /\ \A r \in Roles : AgentOf(agents'[r]) /\ agents'[r].active = agents[r].active
      /\ agents'[role].history = h
      /\ \A r \in Roles \ {role} : agents'[r] = agents[r]
  BY <1>1 DEF AgentOf
<1>3. PICK ok \in BOOLEAN :
        /\ store' = IF ok /\ c # None /\ store[c] # None THEN [store EXCEPT ![c] = h] ELSE store
        /\ unsaved' = CASE c = None -> unsaved
                        [] c # None /\ ok -> unsaved \ {c}
                        [] OTHER -> unsaved \cup {c}
  BY DEF Talking!Persist, Talking!Active
<1>4. DOMAIN store' = Convs
  BY <1>1, <1>3
<1>5. IsStored(role)'
  <2>1. CASE c = None
    BY <1>1, <1>2, <2>1 DEF IsStored
  <2>2. CASE c # None /\ ok
    <3>1. c \in Convs
      BY <1>1, <2>2
    <3>2. store'[c] \in {None, h}
      BY <1>1, <1>3, <2>2, <3>1
    <3> QED BY <1>1, <1>2, <3>2 DEF IsStored
  <2>3. CASE c # None /\ ~ok
    <3>1. c \in unsaved'
      BY <1>3, <2>3
    <3> QED BY <1>1, <1>2, <3>1 DEF IsStored
  <2> QED BY <2>1, <2>2, <2>3
<1>6. ASSUME NEW r \in Roles \ {role} PROVE IsStored(r)'
  <2> DEFINE d == agents[r].active
  <2>1. IsStored(r) /\ agents'[r] = agents[r] /\ d \in born \cup {None}
    BY <1>2 DEF TurnInv, IsStored
  <2>2. d # None => d # c
    BY <1>1 DEF TurnInv
  <2>3. CASE d = None
    BY <2>1, <2>3 DEF IsStored
  <2>4. CASE d # None
    <3>1. d \in Convs /\ d # c
      BY <1>1, <2>1, <2>2, <2>4
    <3>2. store'[d] = store[d]
      BY <1>1, <1>3, <3>1
    <3>3. d \in unsaved => d \in unsaved'
      BY <1>3, <3>1
    <3> QED BY <2>1, <3>2, <3>3 DEF IsStored
  <2> QED BY <2>3, <2>4
<1>7. ASSUME NEW r \in Roles
      PROVE  /\ agents'[r].active \in born' \cup {None}
             /\ agents'[r].active = None => agents'[r].history = <<>>
             /\ \A q \in Roles : q # r /\ agents'[q].active # None => agents'[q].active # agents'[r].active
  BY <1>2 DEF TurnInv
<1>8. phase' \notin Busy /\ role' \in Roles /\ born' \subseteq Convs
  BY <1>1
<1>9. \A r \in Roles : IsStored(r)'
  BY <1>5, <1>6
<1> QED BY <1>2, <1>4, <1>7, <1>8, <1>9 DEF TurnInv, AgentOf, IsStored

(* The agent in use forgets its conversation.                              *)
LEMMA ClearKeeps ==
    ASSUME TurnInv, UNCHANGED <<role, born, store, unsaved>>, phase' \notin Busy,
           agents' = [agents EXCEPT ![role] = Talking!Fresh]
    PROVE  TurnInv'
<1>1. agents'[role] = [history |-> <<>>, active |-> None] /\ \A r \in Roles \ {role} : agents'[r] = agents[r]
  BY DEF TurnInv, Talking!Fresh
<1>2. DOMAIN agents' = Roles /\ DOMAIN agents'[role] = {"history", "active"}
      /\ agents'[role].history = <<>> /\ agents'[role].active = None
  BY <1>1 DEF TurnInv
<1> QED BY <1>1, <1>2 DEF TurnInv

LEMMA StartKeeps == ASSUME TurnInv, Talking!Start PROVE TurnInv'
<1>1. UNCHANGED role /\ role \in Roles /\ born \subseteq Convs /\ DOMAIN store = Convs /\ DOMAIN agents = Roles
  BY DEF Talking!Start, TurnInv
<1>2. CASE agents[role].active # None /\ UNCHANGED <<agents, store, born, unsaved>>
  BY <1>1, <1>2 DEF TurnInv
<1>3. ASSUME NEW c \in Convs \ born, NEW ok \in BOOLEAN, agents[role].active = None,
             /\ agents' = [agents EXCEPT ![role].active = c]
             /\ born' = born \cup {c}
             /\ store' = [store EXCEPT ![c] = IF ok THEN <<>> ELSE None]
             /\ unsaved' = IF ok THEN unsaved ELSE unsaved \cup {c}
      PROVE  TurnInv'
  <2>0. c # None
    BY NoneAssumption
  <2>1. /\ DOMAIN agents' = Roles /\ \A r \in Roles : DOMAIN agents'[r] = {"history", "active"}
        /\ agents'[role].active = c /\ agents'[role].history = <<>>
        /\ \A r \in Roles \ {role} : agents'[r] = agents[r]
    BY <1>1, <1>3 DEF TurnInv
  <2>2. /\ DOMAIN store' = Convs /\ store'[c] \in {None, <<>>}
        /\ \A d \in Convs \ {c} : store'[d] = store[d]
    BY <1>1, <1>3
  <2>3. ASSUME NEW r \in Roles \ {role}
        PROVE  /\ agents[r].active \in born \cup {None} /\ agents[r].active # c
               /\ IsStored(r)'
    <3>1. agents[r].active \in born \cup {None} /\ agents[r].active # c /\ IsStored(r)
      BY <2>0 DEF TurnInv, IsStored
    <3>2. agents[r].active # None => store'[agents[r].active] = store[agents[r].active]
      BY <1>1, <2>2, <3>1
    <3>3. agents[r].active \notin unsaved' => agents[r].active \notin unsaved
      BY <1>3
    <3> QED BY <2>1, <3>1, <3>2, <3>3 DEF IsStored
  <2>4. IsStored(role)'
    BY <1>1, <2>1, <2>2 DEF IsStored
  <2>5. \A r \in Roles : IsStored(r)'
    BY <1>1, <2>3, <2>4
  <2>6. \A r \in Roles : /\ agents'[r].active \in born' \cup {None}
                         /\ agents'[r].active = None => agents'[r].history = <<>>
    BY <1>3, <2>0, <2>1, <2>3 DEF TurnInv
  <2>7. \A q, r \in Roles : q # r /\ agents'[q].active # None => agents'[q].active # agents'[r].active
    BY <1>1, <2>1, <2>3 DEF TurnInv
  <2>8. agents'[role'].active # None
    BY <1>1, <2>0, <2>1
  <2>9. role' \in Roles /\ born' \subseteq Convs
    BY <1>1, <1>3
  <2> QED BY <2>1, <2>2, <2>5, <2>6, <2>7, <2>8, <2>9 DEF TurnInv, IsStored
<1> QED BY <1>1, <1>2, <1>3 DEF Talking!Start, Talking!Active

(* What changes neither the agents nor what is stored.                     *)
LEMMA QuietKeeps ==
    ASSUME TurnInv, UNCHANGED <<role, agents, store, born, unsaved>>,
           phase' \in Busy => phase \in Busy
    PROVE  TurnInv'
BY DEF TurnInv, Busy

LEMMA TurnStep == ASSUME TurnInv, Talking!TurnNext PROVE TurnInv'
<1>h. agents[role].history # <<>> => agents[role].active # None
  BY DEF TurnInv
<1>1. CASE Talking!Command
  <2>0. UNCHANGED <<role, born, unsaved>> /\ phase' \notin Busy
    BY <1>1 DEF Talking!Command, Busy
  <2>1. CASE agents' = [agents EXCEPT ![role] = Talking!Fresh] /\ UNCHANGED store
    BY <2>0, <2>1, ClearKeeps
  <2>2. ASSUME NEW c \in Convs, store' = [store EXCEPT ![c] = None], UNCHANGED agents
        PROVE  TurnInv'
    BY <2>0, <2>2 DEF TurnInv
  <2>3. CASE UNCHANGED <<agents, store>>
    BY <2>0, <2>3, QuietKeeps
  <2> QED BY <1>1, <2>1, <2>2, <2>3 DEF Talking!Command, Talking!Cleared
<1>2. CASE Talking!Type \/ Talking!Mentioned \/ Talking!Close
  <2>1. UNCHANGED <<role, agents, store, born, unsaved>> /\ phase' \notin Busy
    BY <1>2 DEF Talking!Type, Talking!Mentioned, Talking!Close, Busy
  <2> QED BY <2>1, QuietKeeps
<1>3. CASE Talking!NextTask
  <2>1. UNCHANGED <<agents, store, born, unsaved>> /\ role' \in Roles /\ phase' \notin Busy
    BY <1>3 DEF Talking!NextTask, Busy, TurnInv
  <2> QED BY <2>1 DEF TurnInv
<1>4. CASE Talking!Start
  BY <1>4, StartKeeps
<1>5. CASE Talking!Ask \/ Talking!CallTools \/ Talking!Attempt
  <2>1. UNCHANGED <<role, agents, store, born, unsaved>> /\ phase \in Busy
    BY <1>5 DEF Talking!Ask, Talking!CallTools, Talking!Attempt, Busy
  <2> QED BY <2>1, QuietKeeps
<1>6. CASE Talking!Finish
  <2>1. PICK h : agents' = [agents EXCEPT ![role].history = h] /\ Talking!Persist(h)
    BY <1>6 DEF Talking!Finish
  <2>2. UNCHANGED <<role, born>> /\ phase \in Busy /\ phase' \notin Busy
    BY <1>6 DEF Talking!Finish, Talking!Answered, Busy
  <2>3. agents[role].active # None
    BY <2>2 DEF TurnInv
  <2> QED BY <2>1, <2>2, <2>3, PersistKeeps
<1>7. CASE Talking!Persist(agents[role].history) /\ phase' = "prompt" /\ UNCHANGED <<role, born, agents>>
  <2>1. phase' \notin Busy
    BY <1>7 DEF Busy
  <2> QED BY <1>7, <1>h, <2>1, PersistKeeps
<1>8. CASE Talking!Fail
  BY <1>7, <1>8 DEF Talking!Fail, Talking!Answered
<1>9. CASE Talking!Interrupt
  <2>1. CASE UNCHANGED <<store, unsaved>> /\ phase' \in {"killed", "closing"}
    <3>1. UNCHANGED <<role, agents, store, born, unsaved>> /\ phase' \notin Busy
      BY <1>9, <2>1 DEF Talking!Interrupt, Busy
    <3> QED BY <3>1, QuietKeeps
  <2>2. CASE Talking!Persist(agents[role].history) /\ phase' = "prompt"
    BY <1>7, <1>9, <2>2 DEF Talking!Interrupt
  <2> QED BY <1>9, <2>1, <2>2 DEF Talking!Interrupt, Talking!Answered
<1> QED BY <1>1, <1>2, <1>3, <1>4, <1>5, <1>6, <1>8, <1>9 DEF Talking!TurnNext, Talking!Work

TurnSafe == part = "turn" => TurnInv

LEMMA TurnAlways == Spec => []TurnSafe
<1>1. Init => TurnSafe
  BY Beginnings, TurnBegins DEF TurnSafe
<1>2. TurnSafe /\ [Next]_vars => TurnSafe'
  <2> SUFFICES ASSUME TurnSafe, [Next]_vars, part' = "turn" PROVE TurnInv'
    BY DEF TurnSafe
  <2>1. TurnInv
    BY OnePart DEF TurnSafe
  <2>2. CASE UNCHANGED turnVars
    BY <2>1, <2>2, QuietKeeps DEF turnVars
  <2>3. CASE Talking!TurnNext
    BY <2>1, <2>3, TurnStep
  <2> QED BY <2>2, <2>3, OnePart
<1> QED BY <1>1, <1>2, Safety, PTL

(* At the prompt the stored conversation is the one the agent has in mind, *)
(* after answers, errors, interrupts, commands and tasks of a batch, for   *)
(* every number of conversations and models (_persist_history).            *)
THEOREM StoredIsRemembered == Spec => []ConversationIsKept
<1>1. TurnInv => Talking!ConversationIsKept
  BY DEF TurnInv, Talking!ConversationIsKept
<1>2. TurnSafe => ConversationIsKept
  BY <1>1 DEF TurnSafe, ConversationIsKept
<1> QED BY <1>2, TurnAlways, PTL
-----------------------------------------------------------------------------
(* Turn: what is sent, and what a conversation grows into.                 *)
LEMMA Appended ==
    ASSUME NEW n \in Nat, NEW p \in Nat, n <= p, NEW ms, WellFormed(ms, n), NEW m \in Message, m.round <= p,
           m.kind = "calls" => n < m.round,
           m.kind = "returns" => /\ Len(ms) > 0 /\ ms[Len(ms)].kind = "calls"
                                 /\ ms[Len(ms)].round = m.round
    PROVE  WellFormed(Append(ms, m), p)
<1> DEFINE new == Append(ms, m)
           l == Len(ms)
<1>1. /\ ms \in Seq(Message) /\ l \in Nat
      /\ \A i \in 1..l : ms[i] \in Message
  BY DEF WellFormed
<1>2. /\ new \in Seq(Message) /\ Len(new) = l + 1 /\ new[l + 1] = m
      /\ \A i \in 1..l : new[i] = ms[i]
  BY <1>1
<1>3. \A i \in 1..l : ms[i].round \in Nat /\ ms[i].round <= n
  BY <1>1 DEF WellFormed, Message
<1>m. m.round \in Nat
  BY DEF Message
<1> HIDE DEF new, l
<1>4. \A i \in 1..Len(new) : new[i].round <= p
  BY <1>1, <1>2, <1>3
<1>5. ASSUME NEW i \in 1..Len(new), new[i].kind = "returns"
      PROVE  i > 1 /\ new[i - 1].kind = "calls" /\ new[i - 1].round = new[i].round
  <2>1. CASE i = l + 1
    BY <1>1, <1>2, <1>5, <2>1 DEF l
  <2>2. CASE i # l + 1
    <3>1. i \in 1..l /\ ms[i].kind = "returns"
      BY <1>1, <1>2, <1>5, <2>2
    <3>2. i > 1 /\ ms[i - 1].kind = "calls" /\ ms[i - 1].round = ms[i].round
      BY <3>1 DEF WellFormed, l
    <3> QED BY <1>1, <1>2, <3>1, <3>2
  <2> QED BY <2>1, <2>2
<1>6. ASSUME NEW i \in 1..Len(new), NEW j \in 1..Len(new), new[i].kind = "calls", new[j].kind = "calls",
             new[i].round = new[j].round
      PROVE  i = j
  <2>1. CASE i \in 1..l /\ j \in 1..l
    BY <1>2, <1>6, <2>1 DEF WellFormed, l
  <2>2. CASE i = l + 1 \/ j = l + 1
    BY <1>1, <1>2, <1>3, <1>m, <1>6, <2>2
  <2> QED BY <1>1, <1>2, <2>1, <2>2
<1> QED BY <1>2, <1>4, <1>5, <1>6 DEF WellFormed, new

(* A call and what comes of it.                                            *)
LEMMA Answering ==
    ASSUME NEW n \in Nat, NEW ms, WellFormed(ms, n), NEW a \in Message, NEW b \in Message,
           a.kind = "calls", a.round = n + 1, b.kind \in {"returns", "retries"}, b.round = n + 1
    PROVE  /\ WellFormed(ms \o <<a, b>>, n + 1) /\ Len(ms \o <<a, b>>) = Len(ms) + 2
           /\ \A k \in 1..Len(ms) : (ms \o <<a, b>>)[k] = ms[k]
<1> DEFINE one == Append(ms, a)
<1>1. ms \in Seq(Message) /\ Len(ms) \in Nat
  BY DEF WellFormed
<1>2. one \in Seq(Message) /\ Len(one) = Len(ms) + 1 /\ one[Len(ms) + 1] = a
  BY <1>1
<1>3. WellFormed(one, n + 1)
  <2>1. n + 1 \in Nat /\ n <= n + 1 /\ a.round <= n + 1 /\ n < a.round /\ a.kind # "returns"
    OBVIOUS
  <2> QED BY <2>1, Appended
<1>4. ms \o <<a, b>> = Append(one, b)
  BY <1>1
<1>5. WellFormed(Append(one, b), n + 1)
  <2> HIDE DEF one
  <2>1. Len(one) > 0 /\ one[Len(one)].kind = "calls" /\ one[Len(one)].round = b.round
    BY <1>1, <1>2
  <2>2. b.kind # "calls" /\ b.round <= n + 1
    OBVIOUS
  <2> QED BY <1>3, <2>1, <2>2, Appended
<1>6. Len(ms \o <<a, b>>) = Len(ms) + 2 /\ \A k \in 1..Len(ms) : (ms \o <<a, b>>)[k] = ms[k]
  BY <1>1
<1> QED BY <1>4, <1>5, <1>6

LEMMA Whole ==
    ASSUME NEW n, NEW ms, WellFormed(ms, n) PROVE Talking!ReturnsIn(ms) \subseteq Talking!CallsIn(ms)
<1> SUFFICES ASSUME NEW x \in Talking!ReturnsIn(ms) PROVE x \in Talking!CallsIn(ms)
  OBVIOUS
<1>1. PICK i \in DOMAIN ms : x \in Talking!Returns(ms[i])
  BY DEF Talking!ReturnsIn
<1>2. ms[i].kind = "returns" /\ ms[i].round = x
  BY <1>1 DEF Talking!Returns
<1>3. ms \in Seq(Message) /\ i \in 1..Len(ms)
  BY DEF WellFormed
<1>4. i - 1 \in DOMAIN ms /\ ms[i - 1].kind = "calls" /\ ms[i - 1].round = x
  BY <1>2, <1>3 DEF WellFormed
<1>5. x \in Talking!Calls(ms[i - 1])
  BY <1>4 DEF Talking!Calls
<1> QED BY <1>4, <1>5 DEF Talking!CallsIn

LEMMA GoesOnItself == ASSUME NEW ms \in Seq(Message), NEW n PROVE GoesOn(ms, ms, n)
BY DEF GoesOn

LEMMA GoesOnFurther ==
    ASSUME NEW a \in Seq(Message), NEW b \in Seq(Message), NEW c \in Seq(Message),
           NEW m \in Nat, NEW n \in Nat, GoesOn(a, b, m), GoesOn(b, c, n), n <= m
    PROVE  GoesOn(a, c, n)
<1>1. PICK i \in 0..Len(a) : /\ Len(a) - i <= Len(b)
                             /\ \A k \in 1..Len(a) - i : b[k] = a[k + i]
                             /\ i > 0 => m <= Len(b)
  BY DEF GoesOn
<1>2. PICK j \in 0..Len(b) : /\ Len(b) - j <= Len(c)
                             /\ \A k \in 1..Len(b) - j : c[k] = b[k + j]
                             /\ j > 0 => n <= Len(c)
  BY DEF GoesOn
<1>0. Len(a) \in Nat /\ Len(b) \in Nat /\ Len(c) \in Nat
  OBVIOUS
<1>3. CASE i + j <= Len(a)
  <2>1. i + j \in 0..Len(a) /\ Len(a) - (i + j) <= Len(c)
    BY <1>0, <1>1, <1>2, <1>3
  <2>2. ASSUME NEW k \in 1..Len(a) - (i + j) PROVE c[k] = a[k + (i + j)]
    <3>1. k \in 1..Len(b) - j /\ k + j \in 1..Len(a) - i
      BY <1>0, <1>1, <1>2, <1>3
    <3>2. c[k] = b[k + j] /\ b[k + j] = a[(k + j) + i]
      BY <1>1, <1>2, <3>1
    <3>3. (k + j) + i = k + (i + j)
      BY <1>0, <3>1
    <3> QED BY <3>2, <3>3
  <2>3. i + j > 0 => n <= Len(c)
    BY <1>0, <1>1, <1>2
  <2> QED BY <2>1, <2>2, <2>3 DEF GoesOn
<1>4. CASE i + j > Len(a)
  <2>1. Len(a) \in 0..Len(a) /\ Len(a) - Len(a) <= Len(c) /\ 1..Len(a) - Len(a) = {}
    BY <1>0
  <2>2. Len(a) > 0 => n <= Len(c)
    BY <1>0, <1>1, <1>2, <1>4
  <2> QED BY <2>1, <2>2 DEF GoesOn
<1> QED BY <1>0, <1>3, <1>4

(* What is put behind it.                                                  *)
LEMMA GoesOnBehind ==
    ASSUME NEW a \in Seq(Message), NEW b \in Seq(Message), NEW c \in Seq(Message), NEW n \in Nat, NEW m \in Nat,
           GoesOn(a, b, n), Len(b) <= Len(c), \A k \in 1..Len(b) : c[k] = b[k], m <= n + (Len(c) - Len(b))
    PROVE  GoesOn(a, c, m)
<1>1. PICK i \in 0..Len(a) : /\ Len(a) - i <= Len(b)
                             /\ \A k \in 1..Len(a) - i : b[k] = a[k + i]
                             /\ i > 0 => n <= Len(b)
  BY DEF GoesOn
<1>0. Len(a) \in Nat /\ Len(b) \in Nat /\ Len(c) \in Nat
  OBVIOUS
<1>2. Len(a) - i <= Len(c) /\ (i > 0 => m <= Len(c))
  BY <1>0, <1>1
<1>3. \A k \in 1..Len(a) - i : c[k] = a[k + i]
  BY <1>0, <1>1
<1> QED BY <1>2, <1>3 DEF GoesOn

LEMMA GoesOnLess ==
    ASSUME NEW a, NEW b, Len(b) \in Nat, NEW m \in Nat, NEW n \in Nat, GoesOn(a, b, m), n <= m
    PROVE  GoesOn(a, b, n)
<1>1. PICK i \in 0..Len(a) : /\ Len(a) - i <= Len(b)
                             /\ \A k \in 1..Len(a) - i : b[k] = a[k + i]
                             /\ i > 0 => m <= Len(b)
  BY DEF GoesOn
<1>2. i > 0 => n <= Len(b)
  BY <1>1
<1> QED BY <1>1, <1>2 DEF GoesOn

(* The end of a conversation that begins with no return.                   *)
LEMMA Ending ==
    ASSUME NEW n \in Nat, NEW ms, WellFormed(ms, n), NEW s \in 1..Len(ms) + 1,
           1 < s /\ s <= Len(ms) => ms[s].kind # "returns"
    PROVE  /\ WellFormed(SubSeq(ms, s, Len(ms)), n)
           /\ Len(SubSeq(ms, s, Len(ms))) = Len(ms) - s + 1
           /\ GoesOn(ms, SubSeq(ms, s, Len(ms)), Len(ms) - s + 1)
<1> DEFINE l == Len(ms)
           w == SubSeq(ms, s, l)
<1>1. ms \in Seq(Message) /\ l \in Nat
  BY DEF WellFormed
<1>2. w \in Seq(Message) /\ Len(w) = l - s + 1 /\ \A k \in 1..Len(w) : w[k] = ms[k + (s - 1)]
  BY <1>1
<1> HIDE DEF w
<1>3. \A k \in 1..Len(w) : k + (s - 1) \in 1..l
  BY <1>1, <1>2
<1>4. \A k \in 1..Len(w) : w[k].round <= n
  BY <1>2, <1>3 DEF WellFormed
<1>5. ASSUME NEW k \in 1..Len(w), w[k].kind = "returns"
      PROVE  k > 1 /\ w[k - 1].kind = "calls" /\ w[k - 1].round = w[k].round
  <2>1. ms[k + (s - 1)].kind = "returns" /\ k + (s - 1) \in 1..l
    BY <1>2, <1>3, <1>5
  <2>2. k + (s - 1) > 1 /\ ms[(k + (s - 1)) - 1].kind = "calls"
        /\ ms[(k + (s - 1)) - 1].round = ms[k + (s - 1)].round
    BY <2>1 DEF WellFormed
  <2>3. k # 1
    <3>1. SUFFICES ASSUME k = 1 PROVE FALSE
      OBVIOUS
    <3>2. k + (s - 1) = s
      BY <3>1
    <3> QED BY <1>1, <2>1, <2>2, <3>2
  <2>4. k - 1 \in 1..Len(w) /\ (k - 1) + (s - 1) = (k + (s - 1)) - 1
    BY <1>1, <1>2, <2>3
  <2>5. k > 1
    BY <1>1, <1>2, <2>3
  <2>6. w[k - 1] = ms[(k + (s - 1)) - 1] /\ w[k] = ms[k + (s - 1)]
    BY <1>2, <2>4
  <2> QED BY <2>2, <2>5, <2>6
<1>6. ASSUME NEW i \in 1..Len(w), NEW j \in 1..Len(w), w[i].kind = "calls", w[j].kind = "calls",
             w[i].round = w[j].round
      PROVE  i = j
  <2>1. i + (s - 1) = j + (s - 1)
    BY <1>2, <1>3, <1>6 DEF WellFormed
  <2> QED BY <1>1, <1>2, <2>1
<1>7. WellFormed(w, n)
  BY <1>2, <1>4, <1>5, <1>6 DEF WellFormed
<1>8. GoesOn(ms, w, l - s + 1)
  <2>1. /\ s - 1 \in 0..l /\ l - (s - 1) <= Len(w) /\ l - (s - 1) = Len(w)
        /\ l - s + 1 <= Len(w)
    BY <1>1, <1>2
  <2>2. \A k \in 1..l - (s - 1) : w[k] = ms[k + (s - 1)]
    BY <1>2, <2>1
  <2> QED BY <2>1, <2>2 DEF GoesOn
<1> QED BY <1>2, <1>7, <1>8 DEF w

(* limit_history cuts a conversation before no return, and leaves a full   *)
(* window of it.                                                           *)
LEMMA Limiting ==
    ASSUME NEW n \in Nat, NEW ms, WellFormed(ms, n)
    PROVE  /\ WellFormed(Talking!Limited(ms), n) /\ Len(Talking!Limited(ms)) <= MaxMessages + 1
           /\ GoesOn(ms, Talking!Limited(ms), MaxMessages)
<1> DEFINE l == Len(ms)
           start == l - MaxMessages + 1
           w == SubSeq(ms, start, l)
           orphans == Talking!ReturnsIn(w) \ Talking!CallsIn(w)
           whole == {i \in 1..start - 1 : orphans \subseteq Talking!CallsIn(SubSeq(ms, i, start - 1))}
           Cut(s) == SubSeq(ms, s, l)
<1>1. ms \in Seq(Message) /\ l \in Nat /\ MaxMessages \in Nat
  BY AgentAssumption DEF WellFormed
<1>c. Talking!SafeStart(ms) =
        CASE l <= MaxMessages -> 1
          [] l > MaxMessages /\ orphans = {} -> start
          [] l > MaxMessages /\ orphans # {} /\ whole # {} -> CHOOSE i \in whole : \A j \in whole : j <= i
          [] OTHER -> IF l > HardMax THEN l - HardMax + 1 ELSE 1
  BY Zenon DEF Talking!SafeStart
<1>2. CASE l <= MaxMessages
  <2>1. Talking!SafeStart(ms) = 1
    <3> HIDE DEF start, orphans, whole, l
    <3> QED BY <1>1, <1>2, <1>c
  <2>2. Talking!Limited(ms) = ms
    BY <1>1, <2>1 DEF Talking!Limited
  <2> QED BY <1>1, <1>2, <2>2, GoesOnItself
<1>3. CASE l > MaxMessages
  <2>1. start \in 2..l + 1
    BY <1>1, <1>3
  <2>2. w \in Seq(Message) /\ Len(w) = MaxMessages /\ DOMAIN w = 1..MaxMessages
        /\ \A k \in 1..MaxMessages : w[k] = ms[k + (start - 1)] /\ k + (start - 1) \in 1..l
    BY <1>1, <2>1
  <2>3. ASSUME NEW x \in orphans
        PROVE  start <= l /\ ms[start].kind = "returns" /\ ms[start].round = x
    <3>1. PICK k \in 1..MaxMessages : x \in Talking!Returns(w[k])
      BY <2>2 DEF Talking!ReturnsIn
    <3>2. ms[k + (start - 1)].kind = "returns" /\ ms[k + (start - 1)].round = x /\ k + (start - 1) \in 1..l
      BY <2>2, <3>1 DEF Talking!Returns
    <3>3. ms[(k + (start - 1)) - 1].kind = "calls" /\ ms[(k + (start - 1)) - 1].round = x
      BY <3>2 DEF WellFormed
    <3>4. CASE k = 1
      <4>1. k + (start - 1) = start
        BY <2>1, <3>4
      <4> QED BY <2>1, <3>2, <4>1
    <3>5. CASE k # 1
      <4>1. k - 1 \in 1..MaxMessages /\ (k - 1) + (start - 1) = (k + (start - 1)) - 1
        BY <1>1, <2>1, <3>5
      <4>2. x \in Talking!Calls(w[k - 1])
        BY <2>2, <3>3, <4>1 DEF Talking!Calls
      <4> QED BY <2>2, <4>1, <4>2 DEF Talking!CallsIn
    <3> QED BY <3>4, <3>5
  <2>4. CASE orphans = {}
    <3>1. Talking!SafeStart(ms) = start
      <4> HIDE DEF start, orphans, whole, l
      <4> QED BY <1>1, <1>3, <1>c, <2>4
    <3>2. start <= l => ms[start].kind # "returns"
      <4>1. SUFFICES ASSUME start <= l, ms[start].kind = "returns" PROVE FALSE
        OBVIOUS
      <4>2. start \in 1..l /\ 1 \in 1..MaxMessages /\ 1 + (start - 1) = start
        BY <1>1, <2>1, <4>1
      <4>3. start - 1 \in 1..l /\ ms[start - 1].kind = "calls" /\ ms[start - 1].round = ms[start].round
        BY <1>1, <2>1, <4>1, <4>2 DEF WellFormed
      <4>4. ms[start].round \in Talking!Returns(w[1])
        BY <2>2, <4>1, <4>2 DEF Talking!Returns
      <4>5. ms[start].round \in Talking!CallsIn(w)
        BY <2>2, <2>4, <4>2, <4>4 DEF Talking!ReturnsIn
      <4>6. PICK k \in 1..MaxMessages : ms[start].round \in Talking!Calls(w[k])
        BY <2>2, <4>5 DEF Talking!CallsIn
      <4>7. k + (start - 1) \in 1..l /\ ms[k + (start - 1)].kind = "calls"
            /\ ms[k + (start - 1)].round = ms[start].round
        BY <2>2, <4>6 DEF Talking!Calls
      <4>8. k + (start - 1) = start - 1
        BY <4>3, <4>7 DEF WellFormed
      <4> QED BY <1>1, <2>1, <4>8
    <3>3. start \in 1..l + 1 /\ l - start + 1 = MaxMessages
      BY <1>1, <2>1
    <3> HIDE DEF start
    <3>4. WellFormed(Cut(start), n) /\ Len(Cut(start)) = MaxMessages /\ GoesOn(ms, Cut(start), MaxMessages)
      BY <3>2, <3>3, Ending
    <3> QED BY <1>1, <3>1, <3>4 DEF Talking!Limited
  <2>5. CASE orphans # {}
    <3>1. PICK x : x \in orphans
      BY <2>5
    <3>2. start \in 1..l /\ start - 1 \in 1..l /\ start - 1 \in 1..start - 1
          /\ ms[start].kind = "returns" /\ ms[start].round = x
      BY <1>1, <2>1, <2>3, <3>1
    <3>3. ms[start - 1].kind = "calls" /\ ms[start - 1].round = x
      BY <3>2 DEF WellFormed
    <3>4. start - 1 \in whole
      <4> DEFINE last == SubSeq(ms, start - 1, start - 1)
      <4>1. DOMAIN last = 1..1 /\ last[1] = ms[start - 1]
        BY <1>1, <3>2
      <4>a. 1 \in DOMAIN last /\ x \in Talking!Calls(last[1])
        <5>1. last[1].kind = "calls" /\ last[1].round = x
          BY <3>3, <4>1
        <5>2. 1 \in 1..1
          OBVIOUS
        <5> QED BY <4>1, <5>1, <5>2, Zenon DEF Talking!Calls
      <4>2. x \in Talking!CallsIn(last)
        BY <4>a, Zenon DEF Talking!CallsIn
      <4>3. orphans = {x}
        BY <2>3, <3>1, <3>2
      <4> HIDE DEF orphans, last
      <4>4. orphans \subseteq Talking!CallsIn(last)
        BY <4>2, <4>3
      <4> QED BY <3>2, <4>4 DEF last
    <3>5. Talking!SafeStart(ms) = CHOOSE i \in whole : \A j \in whole : j <= i
      <4> HIDE DEF start, orphans, whole, l
      <4> QED BY <1>1, <1>3, <1>c, <2>5, <3>4
    <3>6. \A j \in whole : j \in 1..start - 1
      OBVIOUS
    <3>7. Talking!SafeStart(ms) = start - 1
      <4> HIDE DEF whole, start
      <4>1. \A j \in whole : j <= start - 1
        BY <3>6
      <4>2. Talking!SafeStart(ms) \in whole /\ \A j \in whole : j <= Talking!SafeStart(ms)
        BY <3>4, <3>5, <4>1
      <4>3. Talking!SafeStart(ms) \in 1..start - 1 /\ start - 1 <= Talking!SafeStart(ms)
        BY <3>4, <3>6, <4>2
      <4> QED BY <3>2, <4>3
    <3>8. start - 1 \in 1..l + 1 /\ l - (start - 1) + 1 = MaxMessages + 1 /\ ms[start - 1].kind # "returns"
      BY <1>1, <2>1, <3>3
    <3> HIDE DEF start
    <3>9. WellFormed(Cut(start - 1), n) /\ Len(Cut(start - 1)) = MaxMessages + 1
          /\ GoesOn(ms, Cut(start - 1), MaxMessages + 1)
      BY <3>8, Ending
    <3>10. GoesOn(ms, Cut(start - 1), MaxMessages)
      BY <1>1, <3>9, GoesOnLess
    <3>11. Talking!Limited(ms) = Cut(start - 1)
      BY <3>7 DEF Talking!Limited
    <3> HIDE DEF Cut
    <3> QED BY <1>1, <3>9, <3>10, <3>11
  <2> QED BY <2>4, <2>5
<1> QED BY <1>1, <1>2, <1>3

LEMMA EmptyFormed == ASSUME NEW n \in Nat PROVE WellFormed(<<>>, n)
BY DEF WellFormed

LEMMA FormedLater ==
    ASSUME NEW n \in Nat, NEW p \in Nat, n <= p, NEW ms, WellFormed(ms, n) PROVE WellFormed(ms, p)
<1>1. \A i \in 1..Len(ms) : ms[i].round \in Nat /\ ms[i].round <= n
  <2>1. ms \in Seq(Message)
    BY DEF WellFormed
  <2>2. \A i \in 1..Len(ms) : ms[i] \in Message
    BY <2>1
  <2> QED BY <2>2 DEF Message, WellFormed
<1>2. \A i \in 1..Len(ms) : ms[i].round <= p
  BY <1>1
<1> QED BY <1>2 DEF WellFormed

LEMMA IsMessage ==
    ASSUME NEW kind0 \in {"user", "calls", "returns", "retries"}, NEW n \in Nat
    PROVE  /\ Talking!Msg(kind0, n) \in Message
           /\ Talking!Msg(kind0, n).kind = kind0 /\ Talking!Msg(kind0, n).round = n
BY DEF Talking!Msg, Message

(* What leaves no history but those there were, or none at all.            *)
Unmixed == \A r \in Roles : agents'[r].history \in {agents[r].history, <<>>}

LEMMA PairedRest ==
    ASSUME PairedInv, Unmixed, UNCHANGED rounds, phase' \notin {"answering", "delegating"},
           messages' = messages \/ WellFormed(messages', rounds)
    PROVE  PairedInv'
<1>1. \A r \in Roles : WellFormed(agents'[r].history, rounds)
  BY EmptyFormed DEF PairedInv, Unmixed
<1>2. WellFormed(messages', rounds)
  BY DEF PairedInv
<1> QED BY <1>1, <1>2 DEF PairedInv

LEMMA HistoriesStay ==
    ASSUME TurnInv, \/ UNCHANGED agents
                    \/ agents' = [agents EXCEPT ![role] = Talking!Fresh]
                    \/ \E c \in Convs : agents' = [agents EXCEPT ![role].active = c]
    PROVE  Unmixed
<1>1. DOMAIN agents = Roles /\ \A r \in Roles : DOMAIN agents[r] = {"history", "active"}
  BY DEF TurnInv
<1>2. CASE UNCHANGED agents
  BY <1>2 DEF Unmixed
<1>3. CASE agents' = [agents EXCEPT ![role] = Talking!Fresh]
  BY <1>1, <1>3 DEF Unmixed, Talking!Fresh
<1>4. ASSUME NEW c \in Convs, agents' = [agents EXCEPT ![role].active = c] PROVE Unmixed
  BY <1>1, <1>4 DEF Unmixed
<1> QED BY <1>2, <1>3, <1>4

LEMMA PairedAsk == ASSUME TurnInv, PairedInv, Talking!Ask PROVE PairedInv'
<1>1. /\ phase' = "answering" /\ messages' = Talking!Limited(messages) /\ UNCHANGED <<agents, rounds>>
      /\ rounds \in Nat /\ WellFormed(messages, rounds)
  BY DEF Talking!Ask, PairedInv
<1>2. WellFormed(messages', rounds) /\ Len(messages') <= MaxMessages + 1
  BY <1>1, Limiting
<1> QED BY <1>1, <1>2 DEF PairedInv

LEMMA PairedCall == ASSUME TurnInv, PairedInv, Talking!CallTools PROVE PairedInv'
<1>1. /\ rounds' = rounds + 1 /\ rounds \in Nat /\ rounds' \in Nat /\ rounds <= rounds' /\ UNCHANGED agents
      /\ WellFormed(messages, rounds)
  BY DEF Talking!CallTools, PairedInv
<1>2. \A r \in Roles : WellFormed(agents'[r].history, rounds')
  BY <1>1, FormedLater DEF PairedInv
<1> DEFINE m == Talking!Msg("calls", rounds')
<1>3. m \in Message /\ m.kind = "calls" /\ m.round = rounds'
  BY <1>1, IsMessage
<1>4. CASE messages' = Append(messages, m) /\ phase' = "delegating"
  <2> HIDE DEF m
  <2>1. WellFormed(messages', rounds')
    <3>1. m.round <= rounds' /\ rounds < m.round /\ m.kind # "returns"
      BY <1>1, <1>3
    <3> QED BY <1>1, <1>3, <1>4, <3>1, Appended
  <2>2. messages' # <<>> /\ messages'[Len(messages')] = m
    BY <1>1, <1>4 DEF WellFormed
  <2> QED BY <1>1, <1>2, <1>3, <1>4, <2>1, <2>2 DEF PairedInv
<1>5. ASSUME NEW kind0 \in {"returns", "retries"}, messages' = messages \o <<m, Talking!Msg(kind0, rounds')>>,
             phase' = "asking"
      PROVE  PairedInv'
  <2> DEFINE q == Talking!Msg(kind0, rounds')
  <2>1. q \in Message /\ q.kind = kind0 /\ q.round = rounds'
    BY <1>1, IsMessage
  <2>2. WellFormed(messages', rounds')
    <3> HIDE DEF m, q
    <3>1. messages' = messages \o <<m, q>>
      BY <1>5 DEF m, q
    <3> QED BY <1>1, <1>3, <2>1, <3>1, Answering
  <2> QED BY <1>1, <1>2, <1>5, <2>2 DEF PairedInv
<1> QED BY <1>4, <1>5 DEF Talking!CallTools

LEMMA PairedAttempt == ASSUME TurnInv, PairedInv, Talking!Attempt PROVE PairedInv'
<1>1. /\ rounds \in Nat /\ UNCHANGED <<agents, rounds>> /\ WellFormed(messages, rounds)
      /\ phase = "delegating"
      /\ messages # <<>> /\ messages[Len(messages)].kind = "calls" /\ messages[Len(messages)].round = rounds
  BY DEF Talking!Attempt, PairedInv
<1> DEFINE m == Talking!Msg("returns", rounds)
<1>2. CASE messages' = Append(messages, m) /\ phase' = "asking"
  <2>1. m \in Message /\ m.kind = "returns" /\ m.round = rounds
    BY <1>1, IsMessage
  <2> HIDE DEF m
  <2>2. Len(messages) > 0 /\ rounds <= rounds
    BY <1>1 DEF WellFormed
  <2>3. WellFormed(messages', rounds)
    BY <1>1, <1>2, <2>1, <2>2, Appended
  <2> QED BY <1>1, <1>2, <2>3 DEF PairedInv
<1>3. CASE UNCHANGED <<messages, phase>>
  BY <1>1, <1>3 DEF PairedInv
<1> QED BY <1>2, <1>3 DEF Talking!Attempt

LEMMA PairedFinish == ASSUME TurnInv, PairedInv, Talking!Finish PROVE PairedInv'
<1>1. /\ rounds' = rounds + 1 /\ rounds \in Nat /\ rounds' \in Nat /\ rounds <= rounds'
      /\ WellFormed(messages, rounds) /\ messages' = <<>> /\ phase' = "prompt"
  BY DEF Talking!Finish, Talking!Answered, PairedInv
<1> DEFINE m == Talking!Msg("calls", rounds + 1)
           q == Talking!Msg("returns", rounds + 1)
           h == messages \o <<m, q>>
<1>2. agents' = [agents EXCEPT ![role].history = h]
  BY DEF Talking!Finish
<1>3. WellFormed(h, rounds')
  <2>1. m \in Message /\ m.kind = "calls" /\ m.round = rounds + 1
    BY <1>1, IsMessage
  <2>2. q \in Message /\ q.kind = "returns" /\ q.round = rounds + 1
    BY <1>1, IsMessage
  <2> HIDE DEF m, q
  <2> QED BY <1>1, <2>1, <2>2, Answering
<1> HIDE DEF h
<1>4. \A r \in Roles : agents'[r].history \in {agents[r].history, h}
  BY <1>2 DEF TurnInv
<1>5. \A r \in Roles : WellFormed(agents'[r].history, rounds')
  BY <1>1, <1>3, <1>4, FormedLater DEF PairedInv
<1> QED BY <1>1, <1>5, EmptyFormed DEF PairedInv

LEMMA PairedStep == ASSUME TurnInv, PairedInv, Talking!TurnNext PROVE PairedInv'
<1>0. rounds \in Nat
  BY DEF PairedInv
<1>1. CASE Talking!Command
  <2>1. UNCHANGED <<rounds, messages>> /\ phase' \notin {"answering", "delegating"}
        /\ (UNCHANGED agents \/ agents' = [agents EXCEPT ![role] = Talking!Fresh])
    BY <1>1 DEF Talking!Command, Talking!Cleared
  <2> QED BY <2>1, HistoriesStay, PairedRest
<1>2. CASE Talking!Type \/ Talking!Mentioned \/ Talking!NextTask \/ Talking!Close
  <2>1. UNCHANGED <<rounds, messages, agents>> /\ phase' \notin {"answering", "delegating"}
    BY <1>2 DEF Talking!Type, Talking!Mentioned, Talking!NextTask, Talking!Close
  <2> QED BY <2>1, HistoriesStay, PairedRest
<1>3. CASE Talking!Start
  <2> DEFINE m == Talking!Msg("user", rounds)
  <2>1. UNCHANGED rounds /\ phase' = "asking" /\ messages' = Append(agents[role].history, m)
        /\ (UNCHANGED agents \/ \E c \in Convs : agents' = [agents EXCEPT ![role].active = c])
    BY <1>3 DEF Talking!Start
  <2>2. m \in Message /\ m.kind = "user" /\ m.round = rounds
    BY <1>0, IsMessage
  <2>3. WellFormed(agents[role].history, rounds)
    BY DEF TurnInv, PairedInv
  <2> HIDE DEF m
  <2>4. m.kind # "calls" /\ m.kind # "returns" /\ m.round <= rounds /\ rounds <= rounds
    BY <1>0, <2>2
  <2>5. WellFormed(messages', rounds)
    BY <1>0, <2>1, <2>2, <2>3, <2>4, Appended
  <2> QED BY <2>1, <2>5, HistoriesStay, PairedRest
<1>4. CASE Talking!Fail \/ Talking!Interrupt
  <2>1. UNCHANGED <<rounds, agents>> /\ phase' \in {"prompt", "killed", "closing"}
        /\ (messages' = messages \/ messages' = <<>>)
    BY <1>4 DEF Talking!Fail, Talking!Interrupt, Talking!Answered
  <2> QED BY <1>0, <2>1, HistoriesStay, PairedRest, EmptyFormed
<1> QED BY <1>1, <1>2, <1>3, <1>4, PairedAsk, PairedCall, PairedAttempt, PairedFinish
        DEF Talking!TurnNext, Talking!Work

PairedSafe == part = "turn" => PairedInv

LEMMA PairedAlways == Spec => []PairedSafe
<1>1. Init => PairedSafe
  <2> SUFFICES ASSUME Talking!TurnInit PROVE PairedInv
    BY Beginnings DEF PairedSafe
  <2>1. agents = [r \in Roles |-> [history |-> <<>>, active |-> None]]
        /\ messages = <<>> /\ rounds = 0 /\ phase = "prompt"
    BY DEF Talking!TurnInit, Talking!Fresh
  <2> QED BY <2>1, EmptyFormed DEF PairedInv
<1>2. TurnSafe /\ PairedSafe /\ [Next]_vars => PairedSafe'
  <2> SUFFICES ASSUME TurnSafe, PairedSafe, [Next]_vars, part' = "turn" PROVE PairedInv'
    BY DEF PairedSafe
  <2>1. TurnInv /\ PairedInv
    BY OnePart DEF TurnSafe, PairedSafe
  <2>2. CASE UNCHANGED turnVars
    BY <2>1, <2>2 DEF turnVars, PairedInv
  <2>3. CASE Talking!TurnNext
    BY <2>1, <2>3, PairedStep
  <2> QED BY <2>2, <2>3, OnePart
<1> QED BY <1>1, <1>2, TurnAlways, Safety, PTL

(* However long a conversation gets and wherever the window cuts it, what  *)
(* is sent has no return without its call, and is at most one message      *)
(* longer than the window (limit_history, find_safe_truncation_point).     *)
THEOREM SentWithItsCalls == Spec => []SentIsPaired
<1>1. PairedInv => Talking!SentIsPaired
  BY Whole DEF PairedInv, Talking!SentIsPaired
<1>2. PairedSafe => SentIsPaired
  BY <1>1 DEF PairedSafe, SentIsPaired
<1> QED BY <1>2, PairedAlways, PTL

(* What the running turn and the stored conversations grow from.           *)
LEMMA Histories ==
    ASSUME TurnInv, PairedInv
    PROVE  /\ role \in Roles /\ DOMAIN agents = Roles /\ DOMAIN store = Convs /\ born \subseteq Convs
           /\ \A r \in Roles : /\ AgentOf(agents[r]) /\ agents[r].history \in Seq(Message)
                               /\ agents[r].active \in born \cup {None}
                               /\ agents[r].active = None => agents[r].history = <<>>
           /\ \A q, r \in Roles : q # r /\ agents[q].active # None => agents[q].active # agents[r].active
           /\ messages \in Seq(Message)
BY DEF TurnInv, PairedInv, WellFormed, AgentOf

Grown(r) == agents[r].active # None /\ store[agents[r].active] # None
            => /\ store[agents[r].active] \in Seq(Message)
               /\ GoesOn(store[agents[r].active], agents[r].history, MaxMessages + 1)
Grows(c) == store[c] # None /\ store'[c] # None /\ store'[c] # store[c]
            => /\ store[c] \in Seq(Message) /\ store'[c] \in Seq(Message)
               /\ GoesOn(store[c], store'[c], MaxMessages + 1)

(* The saving of a history h that goes on where the agent's ended.         *)
LEMMA PersistGrows ==
    ASSUME TurnInv, PairedInv, GrowthInv, NEW h \in Seq(Message), Talking!Persist(h), UNCHANGED <<role, born>>,
           \/ agents' = [agents EXCEPT ![role].history = h]
           \/ agents' = agents /\ h = agents[role].history,
           GoesOn(agents[role].history, h, MaxMessages + 1), phase' \notin Busy
    PROVE  GrowthInv' /\ \A c \in Convs : Grows(c)
<1> DEFINE c == agents[role].active
<1>1. /\ role \in Roles /\ DOMAIN agents = Roles /\ DOMAIN store = Convs /\ born \subseteq Convs
      /\ c \in born \cup {None} /\ agents[role].history \in Seq(Message)
      /\ \A r \in Roles : AgentOf(agents[r]) /\ agents[r].active \in born \cup {None}
      /\ \A r \in Roles \ {role} : agents[r].active # None => agents[r].active # c
  BY Histories
<1>2. /\ \A r \in Roles : agents'[r].active = agents[r].active
      /\ agents'[role].history = h
      /\ \A r \in Roles \ {role} : agents'[r] = agents[r]
  BY <1>1 DEF AgentOf
<1>3. PICK ok \in BOOLEAN : store' = IF ok /\ c # None /\ store[c] # None THEN [store EXCEPT ![c] = h] ELSE store
  BY DEF Talking!Persist, Talking!Active
<1>4. /\ \A d \in Convs \ {c} : store'[d] = store[d]
      /\ c # None => store'[c] = store[c] \/ (store[c] # None /\ store'[c] = h)
  BY <1>1, <1>3
<1>5. Grown(role) /\ \A r \in Roles : Grown(r)
  BY <1>1 DEF GrowthInv, Grown
<1>6. c # None /\ store[c] # None => store[c] \in Seq(Message) /\ GoesOn(store[c], h, MaxMessages + 1)
  <2>1. SUFFICES ASSUME c # None, store[c] # None
                 PROVE  store[c] \in Seq(Message) /\ GoesOn(store[c], h, MaxMessages + 1)
    OBVIOUS
  <2>2. store[c] \in Seq(Message) /\ GoesOn(store[c], agents[role].history, MaxMessages + 1)
    BY <1>5, <2>1 DEF Grown
  <2>3. MaxMessages + 1 \in Nat /\ MaxMessages + 1 <= MaxMessages + 1
    BY AgentAssumption
  <2> QED BY <1>1, <2>2, <2>3, GoesOnFurther
<1>7. Grown(role)'
  <2>0. role' = role /\ agents'[role'].active = c /\ agents'[role'].history = h
    BY <1>1, <1>2
  <2>1. SUFFICES ASSUME c # None, store'[c] # None
                 PROVE  store'[c] \in Seq(Message) /\ GoesOn(store'[c], h, MaxMessages + 1)
    BY <2>0, Zenon DEF Grown
  <2>2. CASE store'[c] = h
    BY <2>2, GoesOnItself
  <2>3. CASE store'[c] = store[c]
    BY <1>6, <2>1, <2>3
  <2> QED BY <1>4, <2>1, <2>2, <2>3
<1>8. ASSUME NEW r \in Roles \ {role} PROVE Grown(r)'
  <2>1. agents[r].active # None => store'[agents[r].active] = store[agents[r].active]
    BY <1>1, <1>4
  <2> QED BY <1>2, <1>5, <2>1 DEF Grown
<1>9. \A d \in Convs \ born : store'[d] = None
  <2>1. \A d \in Convs \ born : store[d] = None
    BY DEF GrowthInv
  <2>2. c \notin Convs \ born
    BY <1>1, NoneAssumption
  <2> QED BY <1>4, <2>1, <2>2
<1>10. GrowthInv'
  BY <1>7, <1>8, <1>9 DEF GrowthInv, Grown
<1>11. ASSUME NEW d \in Convs PROVE Grows(d)
  <2>1. CASE d = c
    <3>1. c # None
      BY <2>1, NoneAssumption
    <3> QED BY <1>4, <1>6, <2>1, <3>1, Zenon DEF Grows
  <2>2. CASE d # c
    BY <1>4, <2>2 DEF Grows
  <2> QED BY <2>1, <2>2
<1> QED BY <1>10, <1>11

LEMMA StartGrows ==
    ASSUME TurnInv, PairedInv, GrowthInv, Talking!Start PROVE GrowthInv' /\ \A c \in Convs : Grows(c)
<1> DEFINE m == Talking!Msg("user", rounds)
<1>1. /\ role \in Roles /\ DOMAIN agents = Roles /\ DOMAIN store = Convs /\ born \subseteq Convs
      /\ agents[role].history \in Seq(Message)
      /\ \A r \in Roles : /\ AgentOf(agents[r]) /\ agents[r].active \in born \cup {None}
                          /\ agents[r].active = None => agents[r].history = <<>>
  BY Histories
<1>2. UNCHANGED role /\ messages' = Append(agents[role].history, m) /\ phase' = "asking"
  BY DEF Talking!Start
<1>3. GoesOn(agents[role].history, messages', MaxMessages)
  <2>1. m \in Message
    BY IsMessage DEF PairedInv
  <2> HIDE DEF m
  <2>2. /\ messages' \in Seq(Message) /\ Len(messages') = Len(agents[role].history) + 1
        /\ \A k \in 1..Len(agents[role].history) : messages'[k] = agents[role].history[k]
        /\ Len(agents[role].history) \in Nat
    BY <1>1, <1>2, <2>1
  <2>3. GoesOn(agents[role].history, agents[role].history, MaxMessages)
    BY <1>1, GoesOnItself
  <2> QED BY <1>1, <2>2, <2>3, AgentAssumption, GoesOnBehind
<1>4. \A r \in Roles : Grown(r)
  BY DEF GrowthInv, Grown
<1>5. CASE UNCHANGED <<agents, store, born>>
  <2>1. GrowthInv'
    BY <1>2, <1>3, <1>5 DEF GrowthInv
  <2> QED BY <1>5, <2>1 DEF Grows
<1>6. ASSUME NEW c \in Convs \ born, NEW ok \in BOOLEAN, agents[role].active = None,
             agents' = [agents EXCEPT ![role].active = c], born' = born \cup {c},
             store' = [store EXCEPT ![c] = IF ok THEN <<>> ELSE None]
      PROVE  GrowthInv' /\ \A d \in Convs : Grows(d)
  <2>1. /\ agents'[role].active = c /\ agents'[role].history = <<>> /\ agents[role].history = <<>>
        /\ \A r \in Roles \ {role} : agents'[r] = agents[r]
    BY <1>1, <1>6 DEF AgentOf
  <2>2. store'[c] \in {<<>>, None} /\ \A d \in Convs \ {c} : store'[d] = store[d]
    BY <1>1, <1>6
  <2>3. store[c] = None /\ \A d \in Convs \ born : store[d] = None
    BY DEF GrowthInv
  <2>4. Grown(role)'
    <3>1. <<>> \in Seq(Message) /\ GoesOn(<<>>, <<>>, MaxMessages + 1)
      <4>1. <<>> \in Seq(Message)
        OBVIOUS
      <4> QED BY <4>1, GoesOnItself, Zenon
    <3> QED BY <1>2, <2>1, <2>2, <3>1 DEF Grown
  <2>5. ASSUME NEW r \in Roles \ {role} PROVE Grown(r)'
    <3>1. agents[r].active # None => agents[r].active # c /\ store'[agents[r].active] = store[agents[r].active]
      BY <1>1, <1>6, <2>2
    <3> QED BY <1>4, <2>1, <3>1 DEF Grown
  <2>6. GoesOn(agents'[role'].history, messages', MaxMessages)
    BY <1>2, <1>3, <2>1
  <2>7. \A d \in Convs \ born' : store'[d] = None
    BY <1>6, <2>2, <2>3
  <2>8. GrowthInv'
    BY <1>2, <2>4, <2>5, <2>6, <2>7 DEF GrowthInv, Grown
  <2>9. \A d \in Convs : Grows(d)
    BY <2>2, <2>3 DEF Grows
  <2> QED BY <2>8, <2>9
<1> QED BY <1>5, <1>6 DEF Talking!Start, Talking!Active

(* What is added to the messages of the turn, or cut from their beginning. *)
LEMMA WorkGrows ==
    ASSUME TurnInv, PairedInv, GrowthInv, PairedInv', Talking!Ask \/ Talking!CallTools \/ Talking!Attempt
    PROVE  GrowthInv' /\ \A c \in Convs : Grows(c)
<1>1. UNCHANGED <<role, agents, store, born>> /\ phase \in Busy
  BY DEF Talking!Ask, Talking!CallTools, Talking!Attempt, Busy
<1>2. /\ agents[role].history \in Seq(Message) /\ messages \in Seq(Message) /\ messages' \in Seq(Message)
      /\ MaxMessages \in Nat /\ rounds \in Nat /\ WellFormed(messages, rounds)
      /\ GoesOn(agents[role].history, messages, MaxMessages)
  BY <1>1, Histories, AgentAssumption DEF PairedInv, WellFormed, GrowthInv
<1>3. GoesOn(agents[role].history, messages', MaxMessages)
  <2>1. CASE Talking!Ask
    <3>1. messages' = Talking!Limited(messages)
      BY <2>1 DEF Talking!Ask
    <3>2. GoesOn(messages, messages', MaxMessages)
      BY <1>2, <3>1, Limiting
    <3> QED BY <1>2, <3>2, GoesOnFurther
  <2>2. CASE Talking!CallTools \/ Talking!Attempt
    <3>1. \/ \E a, b \in Message : messages' = messages \o <<a, b>>
          \/ \E a \in Message : messages' = Append(messages, a)
          \/ messages' = messages
      <4>1. CASE Talking!CallTools
        <5>1. rounds' \in Nat
          BY <1>2, <4>1 DEF Talking!CallTools
        <5>2. \A x \in {"calls", "returns", "retries"} : Talking!Msg(x, rounds') \in Message
          BY <5>1, IsMessage
        <5> QED BY <4>1, <5>2 DEF Talking!CallTools
      <4>2. CASE Talking!Attempt
        BY <1>2, <4>2, IsMessage DEF Talking!Attempt
      <4> QED BY <2>2, <4>1, <4>2
    <3>2. Len(messages) <= Len(messages') /\ \A k \in 1..Len(messages) : messages'[k] = messages[k]
      <4>1. ASSUME NEW a \in Message, NEW b \in Message, messages' = messages \o <<a, b>>
            PROVE  Len(messages) <= Len(messages') /\ \A k \in 1..Len(messages) : messages'[k] = messages[k]
        BY <1>2, <4>1
      <4>2. ASSUME NEW a \in Message, messages' = Append(messages, a)
            PROVE  Len(messages) <= Len(messages') /\ \A k \in 1..Len(messages) : messages'[k] = messages[k]
        BY <1>2, <4>2
      <4>3. CASE messages' = messages
        BY <1>2, <4>3
      <4> QED BY <3>1, <4>1, <4>2, <4>3
    <3>3. MaxMessages <= MaxMessages + (Len(messages') - Len(messages))
      BY <1>2, <3>2
    <3> QED BY <1>2, <3>2, <3>3, GoesOnBehind
  <2> QED BY <2>1, <2>2
<1>4. GrowthInv'
  BY <1>1, <1>3 DEF GrowthInv
<1> QED BY <1>1, <1>4 DEF Grows

LEMMA FinishGrows ==
    ASSUME TurnInv, PairedInv, GrowthInv, Talking!Finish PROVE GrowthInv' /\ \A c \in Convs : Grows(c)
<1> DEFINE m == Talking!Msg("calls", rounds + 1)
           q == Talking!Msg("returns", rounds + 1)
           h == messages \o <<m, q>>
<1>1. /\ agents' = [agents EXCEPT ![role].history = h] /\ Talking!Persist(h)
      /\ UNCHANGED <<role, born>> /\ phase = "answering" /\ phase' = "prompt"
  BY DEF Talking!Finish, Talking!Answered
<1>2. /\ agents[role].history \in Seq(Message) /\ messages \in Seq(Message)
      /\ MaxMessages \in Nat /\ rounds \in Nat /\ WellFormed(messages, rounds)
      /\ GoesOn(agents[role].history, messages, MaxMessages)
  BY <1>1, Histories, AgentAssumption DEF PairedInv, GrowthInv, Busy
<1>3. m \in Message /\ m.kind = "calls" /\ m.round = rounds + 1
  BY <1>2, IsMessage
<1>4. q \in Message /\ q.kind = "returns" /\ q.round = rounds + 1
  BY <1>2, IsMessage
<1> HIDE DEF m, q
<1>5. WellFormed(h, rounds + 1) /\ Len(h) = Len(messages) + 2 /\ \A k \in 1..Len(messages) : h[k] = messages[k]
  BY <1>2, <1>3, <1>4, Answering
<1> HIDE DEF h
<1>6. h \in Seq(Message) /\ Len(messages) \in Nat
  BY <1>2, <1>5 DEF WellFormed
<1>7. Len(messages) <= Len(h) /\ MaxMessages + 1 \in Nat
      /\ MaxMessages + 1 <= MaxMessages + (Len(h) - Len(messages))
  BY <1>2, <1>5, <1>6
<1>8. GoesOn(agents[role].history, h, MaxMessages + 1)
  BY <1>2, <1>5, <1>6, <1>7, GoesOnBehind
<1>9. phase' \notin Busy
  BY <1>1 DEF Busy
<1> QED BY <1>1, <1>6, <1>8, <1>9, PersistGrows

(* A turn that ends without an answer: the history is saved as it was.     *)
LEMMA EndGrows ==
    ASSUME TurnInv, PairedInv, GrowthInv, Talking!Persist(agents[role].history),
           UNCHANGED <<role, born, agents>>, phase' \notin Busy
    PROVE  GrowthInv' /\ \A c \in Convs : Grows(c)
<1>1. agents[role].history \in Seq(Message)
  BY Histories
<1>2. GoesOn(agents[role].history, agents[role].history, MaxMessages + 1)
  BY <1>1, GoesOnItself
<1> QED BY <1>1, <1>2, PersistGrows

LEMMA CommandGrows ==
    ASSUME TurnInv, PairedInv, GrowthInv, Talking!Command PROVE GrowthInv' /\ \A c \in Convs : Grows(c)
<1>0. UNCHANGED <<role, born>> /\ phase' \notin Busy
  BY DEF Talking!Command, Busy
<1>1. /\ DOMAIN agents = Roles /\ DOMAIN store = Convs /\ role \in Roles
      /\ \A r \in Roles : agents[r].active # None => agents[r].active \in Convs
      /\ \A r \in Roles : Grown(r)
      /\ \A c \in Convs \ born : store[c] = None
  BY Histories DEF GrowthInv, Grown
<1>2. CASE agents' = [agents EXCEPT ![role] = Talking!Fresh] /\ UNCHANGED store
  <2>1. agents'[role].active = None /\ \A r \in Roles \ {role} : agents'[r] = agents[r]
    BY <1>1, <1>2 DEF Talking!Fresh
  <2>2. \A r \in Roles : Grown(r)'
    BY <1>1, <1>2, <2>1 DEF Grown
  <2> QED BY <1>0, <1>1, <1>2, <2>2 DEF GrowthInv, Grown, Grows
<1>3. ASSUME NEW c \in Convs, store' = [store EXCEPT ![c] = None], UNCHANGED agents
      PROVE  GrowthInv' /\ \A d \in Convs : Grows(d)
  <2>1. store'[c] = None /\ \A d \in Convs \ {c} : store'[d] = store[d]
    BY <1>1, <1>3
  <2>2. ASSUME NEW r \in Roles PROVE Grown(r)'
    <3>1. CASE agents[r].active = c
      BY <1>3, <2>1, <3>1 DEF Grown
    <3>2. CASE agents[r].active # c
      <4>1. agents[r].active # None => store'[agents[r].active] = store[agents[r].active]
        BY <1>1, <2>1, <3>2
      <4> QED BY <1>1, <1>3, <4>1 DEF Grown
    <3> QED BY <3>1, <3>2
  <2>3. \A d \in Convs \ born : store'[d] = None
    BY <1>1, <2>1
  <2>4. \A d \in Convs : Grows(d)
    BY <2>1 DEF Grows
  <2> QED BY <1>0, <2>2, <2>3, <2>4 DEF GrowthInv, Grown
<1>4. CASE UNCHANGED <<agents, store>>
  BY <1>0, <1>4 DEF GrowthInv, Grows
<1> QED BY <1>2, <1>3, <1>4 DEF Talking!Command, Talking!Cleared

LEMMA StaysGrown ==
    ASSUME GrowthInv, UNCHANGED <<agents, store, born>>, phase' \in Busy => UNCHANGED <<phase, role, messages>>
    PROVE  GrowthInv' /\ \A c \in Convs : Grows(c)
BY DEF GrowthInv, Grows

LEMMA GrowthStep ==
    ASSUME TurnInv, PairedInv, GrowthInv, PairedInv', Talking!TurnNext
    PROVE  GrowthInv' /\ \A c \in Convs : Grows(c)
<1>1. CASE Talking!Type \/ Talking!Mentioned \/ Talking!NextTask \/ Talking!Close
  <2>1. UNCHANGED <<agents, store, born>> /\ phase' \notin Busy
    BY <1>1 DEF Talking!Type, Talking!Mentioned, Talking!NextTask, Talking!Close, Busy
  <2> QED BY <2>1, StaysGrown
<1>2. CASE Talking!Fail
  <2>1. Talking!Persist(agents[role].history) /\ UNCHANGED <<role, born, agents>> /\ phase' \notin Busy
    BY <1>2 DEF Talking!Fail, Talking!Answered, Busy
  <2> QED BY <2>1, EndGrows
<1>3. CASE Talking!Interrupt
  <2>1. UNCHANGED <<role, born, agents>> /\ phase' \notin Busy
        /\ (UNCHANGED store \/ Talking!Persist(agents[role].history))
    BY <1>3 DEF Talking!Interrupt, Talking!Answered, Busy
  <2> QED BY <2>1, EndGrows, StaysGrown
<1> QED BY <1>1, <1>2, <1>3, CommandGrows, StartGrows, WorkGrows, FinishGrows
        DEF Talking!TurnNext, Talking!Work

GrowthSafe == part = "turn" => GrowthInv

LEMMA GrowthAlways == Spec => []GrowthSafe
<1>1. Init => GrowthSafe
  <2> SUFFICES ASSUME Talking!TurnInit PROVE GrowthInv
    BY Beginnings DEF GrowthSafe
  <2>1. agents = [r \in Roles |-> [history |-> <<>>, active |-> None]]
        /\ store = [c \in Convs |-> None] /\ phase = "prompt"
    BY DEF Talking!TurnInit, Talking!Fresh
  <2> QED BY <2>1 DEF GrowthInv, Busy
<1>2. TurnSafe /\ PairedSafe /\ PairedSafe' /\ GrowthSafe /\ [Next]_vars => GrowthSafe'
  <2> SUFFICES ASSUME TurnSafe, PairedSafe, PairedSafe', GrowthSafe, [Next]_vars, part' = "turn" PROVE GrowthInv'
    BY DEF GrowthSafe
  <2>1. TurnInv /\ PairedInv /\ PairedInv' /\ GrowthInv
    BY OnePart DEF TurnSafe, PairedSafe, GrowthSafe
  <2>2. CASE UNCHANGED turnVars
    BY <2>1, <2>2, StaysGrown DEF turnVars
  <2>3. CASE Talking!TurnNext
    BY <2>1, <2>3, GrowthStep
  <2> QED BY <2>2, <2>3, OnePart
<1> QED BY <1>1, <1>2, TurnAlways, PairedAlways, Safety, PTL

(* In the words of the model: a suffix of the old conversation begins the  *)
(* new one.                                                                *)
LEMMA Continued ==
    ASSUME NEW old \in Seq(Message), NEW new \in Seq(Message), GoesOn(old, new, MaxMessages + 1)
    PROVE  \E i \in 1..Len(old) + 1 : /\ Talking!IsPrefix(SubSeq(old, i, Len(old)), new)
                                      /\ i > 1 => Len(new) > MaxMessages
<1>0. Len(old) \in Nat /\ Len(new) \in Nat /\ MaxMessages \in Nat
  BY AgentAssumption
<1>1. PICK i \in 0..Len(old) : /\ Len(old) - i <= Len(new)
                               /\ \A k \in 1..Len(old) - i : new[k] = old[k + i]
                               /\ i > 0 => MaxMessages + 1 <= Len(new)
  BY DEF GoesOn
<1> DEFINE w == SubSeq(old, i + 1, Len(old))
<1>2. w \in Seq(Message) /\ Len(w) = Len(old) - i /\ \A k \in 1..Len(w) : w[k] = old[k + i]
  BY <1>0
<1> HIDE DEF w
<1>3. SubSeq(w, 1, Len(w)) = SubSeq(new, 1, Len(w))
  <2>1. /\ SubSeq(w, 1, Len(w)) \in Seq(Message) /\ SubSeq(new, 1, Len(w)) \in Seq(Message)
        /\ Len(SubSeq(w, 1, Len(w))) = Len(w) /\ Len(SubSeq(new, 1, Len(w))) = Len(w)
        /\ \A k \in 1..Len(w) : SubSeq(w, 1, Len(w))[k] = w[k] /\ SubSeq(new, 1, Len(w))[k] = new[k]
    BY <1>0, <1>1, <1>2
  <2>2. \A k \in 1..Len(w) : w[k] = new[k]
    BY <1>1, <1>2
  <2> QED BY <2>1, <2>2
<1>4. Talking!IsPrefix(w, new)
  BY <1>1, <1>2, <1>3 DEF Talking!IsPrefix
<1>5. i + 1 \in 1..Len(old) + 1 /\ (i + 1 > 1 => Len(new) > MaxMessages)
  BY <1>0, <1>1
<1> QED BY <1>4, <1>5 DEF w

(* A stored conversation is written over only by its own continuation,     *)
(* however its turns end and whatever writes are refused: of the messages  *)
(* before, only those are gone that the window has no room for             *)
(* (clear_history, _persist_history, limit_history).                       *)
THEOREM OnlyContinued == Spec => ContinuesItself
<1>1. TurnSafe /\ PairedSafe /\ PairedSafe' /\ GrowthSafe /\ [Next]_vars
      => [part = "turn" => \A c \in Convs : Talking!Continues(c)]_vars
  <2> SUFFICES ASSUME TurnSafe, PairedSafe, PairedSafe', GrowthSafe, Next, part = "turn", NEW c \in Convs
               PROVE  Talking!Continues(c)
    OBVIOUS
  <2>1. TurnInv /\ PairedInv /\ PairedInv' /\ GrowthInv
    BY OnePart DEF TurnSafe, PairedSafe, GrowthSafe
  <2>2. Grows(c)
    <3>1. CASE UNCHANGED turnVars
      BY <2>1, <3>1, StaysGrown DEF turnVars
    <3>2. CASE Talking!TurnNext
      BY <2>1, <3>2, GrowthStep
    <3> QED BY <3>1, <3>2, OnePart
  <2> QED BY <2>2, Continued DEF Grows, Talking!Continues
<1> QED BY <1>1, TurnAlways, PairedAlways, GrowthAlways, Safety, PTL DEF ContinuesItself
-----------------------------------------------------------------------------
(* Elevation.                                                              *)
LEMMA Missing == \A x \in Elevating!Services \cup Elevating!Passwords \cup {"sudo", "su", "hangs"} : x # None
BY NoneAssumption DEF Elevating!Services, Elevating!Passwords

LEMMA NewTask ==
    ASSUME NEW who \in {"specialist", "subagent"}, NEW zero \in Tries,
           NEW cmd \in [prefix : Elevating!Prefixes, base : {"cmd", "-S cmd", "'cmd'"}],
           NEW ref \in Elevating!Services \cup {None}
    PROVE  [pc |-> "start", mode |-> who, cmd |-> cmd, ref |-> ref, service |-> None,
            tries |-> zero, typed |-> None, verified |-> None, lost |-> FALSE, outcome |-> None] \in Task
BY DEF Task

LEMMA ElevationBegins == Elevating!ElevationInit => ElevationInv
<1> SUFFICES ASSUME Elevating!ElevationInit PROVE ElevationInv
  OBVIOUS
<1>1. PICK mode0 \in {"specialist", "subagent"} :
        task \in [Tasks -> {Elevating!Call(mode0, Elevating!Plain(p), ref) :
                              p \in Elevating!Prefixes, ref \in {None, "sudo"}}]
  BY DEF Elevating!ElevationInit
<1>2. ASSUME NEW t \in Tasks
      PROVE  /\ task[t] \in Task /\ task[t].mode = mode0 /\ task[t].pc = "start"
             /\ task[t].verified = None /\ task[t].outcome = None
  <2>1. PICK p \in Elevating!Prefixes, ref \in {None, "sudo"} :
           task[t] = Elevating!Call(mode0, Elevating!Plain(p), ref)
    BY <1>1
  <2>2. Elevating!Plain(p) \in [prefix : Elevating!Prefixes, base : {"cmd", "-S cmd", "'cmd'"}]
    BY DEF Elevating!Plain, Elevating!Cmd
  <2>3. ref \in Elevating!Services \cup {None}
    BY DEF Elevating!Services
  <2> DEFINE cmd == Elevating!Plain(p)
  <2>4. task[t] = [pc |-> "start", mode |-> mode0, cmd |-> cmd, ref |-> ref, service |-> None,
                   tries |-> 0, typed |-> None, verified |-> None, lost |-> FALSE, outcome |-> None]
    BY <2>1 DEF Elevating!Call
  <2>5. cmd \in [prefix : Elevating!Prefixes, base : {"cmd", "-S cmd", "'cmd'"}]
    BY <2>2
  <2> DEFINE zero == 0
  <2>6. zero \in Tries
    BY DEF Tries
  <2> HIDE DEF cmd, zero
  <2>7. task[t] = [pc |-> "start", mode |-> mode0, cmd |-> cmd, ref |-> ref, service |-> None,
                   tries |-> zero, typed |-> None, verified |-> None, lost |-> FALSE, outcome |-> None]
    BY <2>4 DEF zero
  <2>8. /\ task[t].pc = "start" /\ task[t].mode = mode0 /\ task[t].cmd = cmd /\ task[t].ref = ref
        /\ task[t].service = None /\ task[t].tries = zero /\ task[t].typed = None
        /\ task[t].verified = None /\ task[t].outcome = None
    BY <2>7
  <2>9. task[t] \in Task
    <3>1. [pc |-> "start", mode |-> mode0, cmd |-> cmd, ref |-> ref, service |-> None,
           tries |-> zero, typed |-> None, verified |-> None, lost |-> FALSE, outcome |-> None] \in Task
      BY <2>3, <2>5, <2>6, NewTask
    <3> QED BY <2>7, <3>1
  <2> QED BY <2>8, <2>9
<1>3. ElevationTypes
  BY <1>1, <1>2 DEF Elevating!ElevationInit, ElevationTypes
<1>4. ASSUME NEW t \in Tasks PROVE Asked(t) /\ Progress(t) /\ Fits(t)
  BY <1>2, Missing DEF Asked, Progress, Fits
<1> QED BY <1>3, <1>4 DEF ElevationInv

(* A step of task t alone, with the row of the host as it was, ...         *)
LEMMA OneTask ==
    ASSUME ElevationInv, NEW t \in Tasks, task'[t] \in Task, task' = [task EXCEPT ![t] = task'[t]],
           task'[t].mode = task[t].mode,
           host' \in [found : {"not", "name", "hostname", "both"}, method : Elevating!Methods],
           host'.found = host.found, host.found = "not" => host'.method = "none",
           \/ host' = host
           \/ task'[t].verified # None /\ host.method \in Wanting /\ host'.method \in Wanting
           \/ task'[t].mode = "subagent",
           task[t].verified # None => task'[t].verified # None,
           SecretsKept, Asked(t)', Progress(t)', Fits(t)'
    PROVE  ElevationInv'
<1>0. ElevationTypes
  BY DEF ElevationInv
<1>1. task' \in [Tasks -> Task] /\ \A u \in Tasks \ {t} : task'[u] = task[u]
  BY <1>0 DEF ElevationTypes
<1>2. \A u \in Tasks : task'[u].mode = task[u].mode
  BY <1>1
<1>3. ElevationTypes'
  BY <1>0, <1>1, <1>2 DEF ElevationTypes, SecretsKept
<1>4. ASSUME NEW u \in Tasks \ {t} PROVE Asked(u)' /\ Progress(u)' /\ Fits(u)'
  <2>1. Asked(u) /\ Progress(u) /\ Fits(u) /\ task'[u] = task[u] /\ task[u].mode = task[t].mode
    BY <1>0, <1>1 DEF ElevationInv, ElevationTypes
  <2>2. OthersNever(u)' => OthersNever(u) /\ task'[t].verified = None
    BY <1>1 DEF OthersNever
  <2>3. Asked(u)'
    BY <2>1 DEF Asked, SecretsKept
  <2>4. Fits(u)'
    BY <2>1, <2>2 DEF Fits, Elevating!InInventory, Elevating!FoundByName
  <2>5. Progress(u)'
    <3>1. CASE host' = host
      BY <2>1, <2>2, <3>1 DEF Progress, Elevating!FoundByName
    <3>2. CASE task'[t].verified # None /\ host.method \in Wanting /\ host'.method \in Wanting
      <4>1. ~OthersNever(u)'
        BY <2>2, <3>2
      <4> QED BY <2>1, <3>2, <4>1 DEF Progress
    <3>3. CASE task'[t].mode = "subagent"
      BY <2>1, <3>3 DEF Progress
    <3> QED BY <3>1, <3>2, <3>3
  <2> QED BY <2>3, <2>4, <2>5
<1> QED BY <1>3, <1>4 DEF ElevationInv

LEMMA TaskGoes ==
    ASSUME ElevationInv, NEW t \in Tasks, task'[t] \in Task, task' = [task EXCEPT ![t] = task'[t]],
           UNCHANGED host, task'[t].mode = task[t].mode,
           task[t].verified # None => task'[t].verified # None,
           SecretsKept, Asked(t)', Progress(t)', Fits(t)'
    PROVE  ElevationInv'
BY OneTask DEF ElevationInv, ElevationTypes

(* What is typed of a task, and of what it is given.                       *)
LEMMA TaskFields ==
    ASSUME ElevationInv, NEW t \in Tasks
    PROVE  /\ task[t] \in Task /\ task \in [Tasks -> Task]
           /\ host \in [found : {"not", "name", "hostname", "both"}, method : Elevating!Methods]
           /\ host.found = "not" => host.method = "none"
           /\ UNCHANGED secrets => SecretsKept
           /\ Asked(t) /\ Progress(t) /\ Fits(t)
BY DEF ElevationInv, ElevationTypes, SecretsKept

LEMMA Ended ==
    ASSUME ElevationInv, NEW t \in Tasks, NEW o \in {"no credentials", "refused"}, Elevating!Ends(t, o)
    PROVE  /\ task'[t] \in Task /\ task' = [task EXCEPT ![t] = task'[t]]
           /\ task'[t].pc = "done" /\ task'[t].outcome = o
           /\ task'[t].mode = task[t].mode /\ task'[t].cmd = task[t].cmd
           /\ task'[t].service = task[t].service /\ task'[t].verified = task[t].verified
<1>1. task'[t] = [task[t] EXCEPT !.pc = "done", !.outcome = o] /\ task' = [task EXCEPT ![t] = task'[t]]
  BY TaskFields DEF Elevating!Ends
<1>2. task[t] \in Task
  BY TaskFields
<1> QED BY <1>1, <1>2 DEF Task

LEMMA Found == \A service \in Elevating!Services \cup {None} :
                  Elevating!Lookup(service) \in Elevating!Services \cup {None}
BY DEF Elevating!Lookup, Elevating!Fallback, Elevating!Services

LEMMA Forms ==
    ASSUME NEW cmd \in [prefix : Elevating!Prefixes, base : {"cmd", "-S cmd", "'cmd'"}],
           NEW method
    PROVE  /\ method \in Elevating!Methods
              => Elevating!Prepared(method, cmd) \in [prefix : Elevating!Prefixes, base : {"cmd", "-S cmd", "'cmd'"}]
           /\ method \in Wanting => Elevating!Prepared(method, cmd).prefix # "sudo"
           /\ Elevating!Transform(method, cmd) \in [prefix : Elevating!Prefixes, base : {"cmd", "-S cmd", "'cmd'"}]
           /\ Elevating!NeedsPassword(Elevating!Transform(method, cmd)) /\ ~Elevating!NeedsPassword(cmd)
              => cmd.prefix = "sudo" /\ method \in Wanting
           /\ method = "su" => Elevating!Transform(method, cmd).prefix # "sudo -S"
           /\ method = "sudo_password" => Elevating!Transform(method, cmd).prefix # "su -c"
<1>1. /\ method \in Elevating!Methods
         => Elevating!Prepared(method, cmd) \in [prefix : Elevating!Prefixes, base : {"cmd", "-S cmd", "'cmd'"}]
      /\ method \in Wanting => Elevating!Prepared(method, cmd).prefix # "sudo"
  BY DEF Elevating!Prepared, Elevating!Methods, Elevating!Prefixes, Elevating!Cmd, Wanting
<1>2. Elevating!Stripped(cmd) \in {"cmd", "-S cmd", "'cmd'"}
  BY DEF Elevating!Stripped
<1>3. \/ Elevating!Transform(method, cmd) = cmd
      \/ \E p \in Elevating!Prefixes, b \in {"cmd", "-S cmd", "'cmd'"} :
            Elevating!Transform(method, cmd) = [prefix |-> p, base |-> b]
  BY <1>2 DEF Elevating!Transform, Elevating!Prefixes, Elevating!Cmd
<1>4. Elevating!Transform(method, cmd) \in [prefix : Elevating!Prefixes, base : {"cmd", "-S cmd", "'cmd'"}]
  <2>1. CASE Elevating!Transform(method, cmd) = cmd
    BY <2>1
  <2>2. ASSUME NEW p \in Elevating!Prefixes, NEW b \in {"cmd", "-S cmd", "'cmd'"},
               Elevating!Transform(method, cmd) = [prefix |-> p, base |-> b]
        PROVE  Elevating!Transform(method, cmd) \in [prefix : Elevating!Prefixes, base : {"cmd", "-S cmd", "'cmd'"}]
    <3>1. [prefix |-> p, base |-> b] \in [prefix : Elevating!Prefixes, base : {"cmd", "-S cmd", "'cmd'"}]
      OBVIOUS
    <3> QED BY <2>2, <3>1
  <2> QED BY <1>3, <2>1, <2>2
<1>5. Elevating!Transform(method, cmd).prefix =
         CASE cmd.prefix \in {"sudo", "sudo -S"} /\ method = "su" -> "su -c"
           [] cmd.prefix = "su -c" /\ method = "sudo" -> "sudo"
           [] cmd.prefix = "su -c" /\ method = "sudo_password" -> "sudo -S"
           [] cmd.prefix = "sudo" /\ method = "sudo_password" -> "sudo -S"
           [] OTHER -> cmd.prefix
  BY DEF Elevating!Transform, Elevating!Cmd
<1>6. Elevating!NeedsPassword(Elevating!Transform(method, cmd)) /\ ~Elevating!NeedsPassword(cmd)
      => cmd.prefix = "sudo" /\ method \in Wanting
  BY <1>5 DEF Elevating!NeedsPassword, Wanting
<1>7. /\ method = "su" => Elevating!Transform(method, cmd).prefix # "sudo -S"
      /\ method = "sudo_password" => Elevating!Transform(method, cmd).prefix # "su -c"
  BY <1>5
<1> QED BY <1>1, <1>4, <1>6, <1>7

LEMMA ElevationPrepare ==
    ASSUME ElevationInv, NEW t \in Tasks, Elevating!Prepare(t) PROVE ElevationInv'
<1>0. task[t].pc = "start" /\ UNCHANGED host /\ SecretsKept
  BY TaskFields DEF Elevating!Prepare
<1>1. CASE task' = [task EXCEPT ![t].pc = "run"] /\ task[t].ref # None
  <2>1. /\ task'[t] \in Task /\ task' = [task EXCEPT ![t] = task'[t]]
        /\ task'[t].pc = "run" /\ task'[t].ref # None /\ task'[t].mode = task[t].mode
        /\ task'[t].verified = task[t].verified /\ task'[t].outcome = task[t].outcome
    BY <1>1, TaskFields, ZenonT(40) DEF Task
  <2>2. Asked(t)' /\ Progress(t)' /\ Fits(t)'
    BY <1>0, <2>1, TaskFields DEF Asked, Progress, Fits, Elevating!InInventory, Elevating!FoundByName
  <2> QED BY <1>0, <2>1, <2>2, TaskGoes
<1>2. CASE /\ task[t].ref = None
           /\ LET service == Elevating!ServiceOf(host.method)
              IN task' = [task EXCEPT ![t].cmd = Elevating!Prepared(host.method, @),
                                      ![t].service = service, ![t].ref = Elevating!Lookup(service),
                                      ![t].pc = IF service = None \/ Elevating!Lookup(service) # None
                                                THEN "run" ELSE "asking"]
  <2> DEFINE service == Elevating!ServiceOf(host.method)
             cmd == Elevating!Prepared(host.method, task[t].cmd)
             ref == Elevating!Lookup(service)
             where == IF service = None \/ ref # None THEN "run" ELSE "asking"
  <2>1. host.method \in Elevating!Methods
        /\ task[t].cmd \in [prefix : Elevating!Prefixes, base : {"cmd", "-S cmd", "'cmd'"}]
    BY TaskFields DEF Task
  <2>2. service \in Elevating!Services \cup {None} /\ (service = None \/ host.method \in Wanting)
    BY DEF Elevating!ServiceOf, Elevating!Services, Wanting
  <2>3. cmd \in [prefix : Elevating!Prefixes, base : {"cmd", "-S cmd", "'cmd'"}]
        /\ (host.method \in Wanting => cmd.prefix # "sudo")
    BY <2>1, Forms
  <2>4. ref \in Elevating!Services \cup {None} /\ where \in {"run", "asking"}
        /\ (where = "asking" => service # None)
    BY <2>2, Found
  <2>5. task' = [task EXCEPT ![t].cmd = cmd, ![t].service = service, ![t].ref = ref, ![t].pc = where]
    BY <1>2, TaskFields
  <2> HIDE DEF service, cmd, ref, where
  <2>6. task'[t] = [task[t] EXCEPT !.cmd = cmd, !.service = service, !.ref = ref, !.pc = where]
        /\ task' = [task EXCEPT ![t] = task'[t]]
    BY <2>5, TaskFields
  <2>7. /\ task'[t] \in Task /\ task'[t].pc = where /\ task'[t].cmd = cmd
        /\ task'[t].mode = task[t].mode
        /\ task'[t].verified = task[t].verified /\ task'[t].outcome = task[t].outcome
    BY <2>2, <2>3, <2>4, <2>6, TaskFields, ZenonT(40) DEF Task
  <2>s. task'[t].service = service
    BY <2>6, TaskFields DEF Task
  <2>8. Asked(t)' /\ Progress(t)' /\ Fits(t)'
    BY <1>0, <2>2, <2>3, <2>4, <2>7, <2>s, TaskFields
       DEF Asked, Progress, Fits, Elevating!InInventory, Elevating!FoundByName
  <2> QED BY <1>0, <2>6, <2>7, <2>8, TaskGoes
<1> QED BY <1>1, <1>2 DEF Elevating!Prepare

LEMMA ElevationCollect ==
    ASSUME ElevationInv, NEW t \in Tasks, Elevating!Collect(t) PROVE ElevationInv'
<1>0. task[t].pc = "start" /\ task[t].mode = "subagent" /\ UNCHANGED host /\ SecretsKept
  BY TaskFields, SMTT(30) DEF Elevating!Collect
<1>1. PICK service \in Elevating!Services, where \in {"run", "asking"} :
        \/ task' = [task EXCEPT ![t].pc = "run"]
        \/ task' = [task EXCEPT ![t].service = service, ![t].ref = Elevating!Lookup(service), ![t].pc = where]
  <2> DEFINE service == Elevating!ServiceFor(IF Elevating!InInventory THEN host.method ELSE None, task[t].cmd)
  <2>1. service \in Elevating!Services
    BY DEF Elevating!ServiceFor, Elevating!Services
  <2>2. \/ task' = [task EXCEPT ![t].pc = "run"]
        \/ task' = [task EXCEPT ![t].service = service, ![t].ref = Elevating!Lookup(service),
                                ![t].pc = IF Elevating!Lookup(service) # None THEN "run" ELSE "asking"]
    BY DEF Elevating!Collect
  <2> HIDE DEF service
  <2> QED BY <2>1, <2>2
<1>2. Elevating!Lookup(service) \in Elevating!Services \cup {None}
  BY Found
<1>a. /\ \/ task'[t] = [task[t] EXCEPT !.pc = "run"]
         \/ task'[t] = [task[t] EXCEPT !.service = service, !.ref = Elevating!Lookup(service), !.pc = where]
      /\ task' = [task EXCEPT ![t] = task'[t]]
  BY <1>1, TaskFields
<1>3. /\ task'[t] \in Task /\ task' = [task EXCEPT ![t] = task'[t]]
      /\ task'[t].pc \in {"run", "asking"} /\ task'[t].mode = task[t].mode
      /\ task'[t].pc = "asking" => task'[t].service \in Elevating!Services
      /\ task'[t].verified = task[t].verified
  <2>1. task[t] \in Task
    BY TaskFields
  <2> QED BY <1>2, <1>a, <2>1 DEF Task
<1>4. Asked(t)' /\ Progress(t)' /\ Fits(t)'
  BY <1>0, <1>3, TaskFields DEF Asked, Progress, Fits, Elevating!InInventory, Elevating!FoundByName
<1> QED BY <1>0, <1>3, <1>4, TaskGoes

LEMMA ElevationRequest ==
    ASSUME ElevationInv, NEW t \in Tasks, Elevating!Request(t) PROVE ElevationInv'
<1>0. task[t].pc = "asking" /\ UNCHANGED host /\ SecretsKept /\ task[t].verified = None
  BY TaskFields DEF Elevating!Request, Asked
<1>1. \/ task' = [task EXCEPT ![t].ref = task[t].service, ![t].pc = "run"]
      \/ Elevating!Ends(t, "no credentials")
      \/ task' = [task EXCEPT ![t].pc = "prompt"]
  BY DEF Elevating!Request
<1>2. /\ task'[t] \in Task /\ task' = [task EXCEPT ![t] = task'[t]]
      /\ task'[t].pc \in {"run", "done", "prompt"} /\ task'[t].mode = task[t].mode
      /\ task'[t].service = task[t].service
      /\ task'[t].cmd = task[t].cmd /\ task'[t].verified = None
      /\ task'[t].outcome \in {task[t].outcome, "no credentials"}
  <2>1. CASE task' = [task EXCEPT ![t].ref = task[t].service, ![t].pc = "run"]
    <3>1. task'[t] = [task[t] EXCEPT !.ref = task[t].service, !.pc = "run"]
          /\ task' = [task EXCEPT ![t] = task'[t]]
      BY <2>1, TaskFields
    <3>2. task[t] \in Task
      BY TaskFields
    <3> QED BY <1>0, <3>1, <3>2 DEF Task
  <2>2. CASE Elevating!Ends(t, "no credentials")
    BY <1>0, <2>2, Ended
  <2>3. CASE task' = [task EXCEPT ![t].pc = "prompt"]
    <3>1. task'[t] = [task[t] EXCEPT !.pc = "prompt"] /\ task' = [task EXCEPT ![t] = task'[t]]
      BY <2>3, TaskFields
    <3>2. task[t] \in Task
      BY TaskFields
    <3> QED BY <1>0, <3>1, <3>2 DEF Task
  <2> QED BY <1>1, <2>1, <2>2, <2>3
<1>3. Asked(t)' /\ Progress(t)' /\ Fits(t)'
  BY <1>0, <1>2, TaskFields DEF Asked, Progress, Fits, Elevating!InInventory, Elevating!FoundByName
<1> QED BY <1>0, <1>2, <1>3, TaskGoes

LEMMA ElevationPrompt ==
    ASSUME ElevationInv, NEW t \in Tasks, Elevating!Prompt(t) PROVE ElevationInv'
<1>0. /\ task[t].pc = "prompt" /\ UNCHANGED host /\ task[t].verified = None
      /\ task[t].service \in Elevating!Services
  BY TaskFields, ZenonT(40) DEF Elevating!Prompt, Asked
<1>1. PICK p \in Elevating!Passwords, m \in {None, "sudo", "su"} :
     /\ secrets' \in {secrets, [secrets EXCEPT ![task[t].service] = p]}
     /\ \/ Elevating!Ends(t, "no credentials")
        \/ task' = [task EXCEPT ![t].tries = @ + 1]
        \/ m # None /\ task' = [task EXCEPT ![t].typed = p, ![t].tries = 0, ![t].verified = m, ![t].pc = "persist"]
  BY DEF Elevating!Prompt, Elevating!Verified
<1>s. SecretsKept
  <2>1. secrets \in [Elevating!Services -> Elevating!Passwords \cup {None}] /\ p # None
    BY Missing DEF ElevationInv, ElevationTypes, Elevating!Passwords
  <2> QED BY <1>0, <1>1, <2>1 DEF SecretsKept
<1>2. CASE \/ Elevating!Ends(t, "no credentials")
           \/ task' = [task EXCEPT ![t].tries = @ + 1]
  <2>1. /\ task'[t] \in Task /\ task' = [task EXCEPT ![t] = task'[t]]
        /\ task'[t].pc \in {"done", "prompt"} /\ task'[t].mode = task[t].mode
        /\ task'[t].cmd = task[t].cmd /\ task'[t].verified = None
        /\ task'[t].outcome \in {task[t].outcome, "no credentials"}
        /\ task'[t].service = task[t].service
    <3>1. CASE Elevating!Ends(t, "no credentials")
      BY <1>0, <3>1, Ended
    <3>2. CASE task' = [task EXCEPT ![t].tries = @ + 1]
      <4> DEFINE n == task[t].tries + 1
      <4>1. task'[t] = [task[t] EXCEPT !.tries = n] /\ task' = [task EXCEPT ![t] = task'[t]]
        BY <3>2, TaskFields
      <4>2. task[t] \in Task
        BY TaskFields
      <4>3. task[t].tries \in Tries
        BY <4>2 DEF Task
      <4>4. n \in Tries
        BY <4>3 DEF Tries
      <4> HIDE DEF n
      <4> QED BY <1>0, <4>1, <4>2, <4>4 DEF Task
    <3> QED BY <1>2, <3>1, <3>2
  <2>2. Asked(t)' /\ Progress(t)' /\ Fits(t)'
    BY <1>0, <2>1, TaskFields DEF Asked, Progress, Fits, Elevating!InInventory, Elevating!FoundByName
  <2> QED BY <1>0, <1>s, <2>1, <2>2, TaskGoes
<1>3. CASE m # None /\ task' = [task EXCEPT ![t].typed = p, ![t].tries = 0, ![t].verified = m, ![t].pc = "persist"]
  <2>1. /\ task'[t] \in Task /\ task' = [task EXCEPT ![t] = task'[t]]
        /\ task'[t].pc = "persist" /\ task'[t].mode = task[t].mode
        /\ task'[t].cmd = task[t].cmd /\ task'[t].verified = m
        /\ task'[t].outcome = task[t].outcome
        /\ task'[t].service = task[t].service /\ task'[t].typed = p
    <3> DEFINE zero == 0
    <3>0. zero \in Tries
      BY DEF Tries
    <3>1. task'[t] = [task[t] EXCEPT !.typed = p, !.tries = zero, !.verified = m, !.pc = "persist"]
          /\ task' = [task EXCEPT ![t] = task'[t]]
      BY <1>3, TaskFields
    <3>2. task[t] \in Task
      BY TaskFields
    <3> HIDE DEF zero
    <3> QED BY <3>0, <3>1, <3>2 DEF Task
  <2>2. Asked(t)' /\ Progress(t)' /\ Fits(t)'
    <3>1. m # None /\ (task[t].mode = "specialist" => host'.method \in Wanting /\ task'[t].cmd.prefix # "sudo")
      BY <1>0, <1>3, <2>1, TaskFields DEF Progress
    <3>2. task'[t].mode = "specialist" /\ Elevating!InInventory' => task'[t].outcome # "hangs"
      BY <1>0, <2>1, TaskFields DEF Fits, Elevating!InInventory
    <3> QED BY <1>0, <2>1, <3>1, <3>2 DEF Asked, Progress, Fits, Elevating!InInventory, Elevating!FoundByName
  <2> QED BY <1>0, <1>s, <2>1, <2>2, TaskGoes
<1> QED BY <1>1, <1>2, <1>3

LEMMA ElevationPersist ==
    ASSUME ElevationInv, NEW t \in Tasks, Elevating!Persist(t) PROVE ElevationInv'
<1>0. task[t].pc = "persist" /\ task[t].verified # None /\ SecretsKept
  BY TaskFields DEF Elevating!Persist, Asked
<1>1. PICK lost \in BOOLEAN :
        /\ task' = [task EXCEPT ![t].pc = "store", ![t].lost = lost]
        /\ host' = IF Elevating!FoundByName /\ ~lost
                   THEN [host EXCEPT !.method = IF task[t].verified = "sudo" THEN "sudo_password" ELSE "su"]
                   ELSE host
  <2>1. PICK lost \in {FALSE, Elevating!FoundByName} :
          /\ host' = IF Elevating!FoundByName /\ ~lost
                     THEN [host EXCEPT !.method = IF task[t].verified = "sudo" THEN "sudo_password" ELSE "su"]
                     ELSE host
          /\ task' = [task EXCEPT ![t].pc = "store", ![t].lost = lost]
    BY DEF Elevating!Persist
  <2>2. Elevating!FoundByName \in BOOLEAN
    BY DEF Elevating!FoundByName
  <2>3. lost \in BOOLEAN
    BY <2>1, <2>2, Zenon
  <2> QED BY <2>1, <2>3
<1>2. /\ task'[t] \in Task /\ task' = [task EXCEPT ![t] = task'[t]]
      /\ task'[t].pc = "store" /\ task'[t].mode = task[t].mode
      /\ task'[t].cmd = task[t].cmd /\ task'[t].verified = task[t].verified
      /\ task'[t].outcome = task[t].outcome /\ task'[t].lost = lost
      /\ task'[t].service = task[t].service /\ task'[t].typed = task[t].typed
  <2>1. task'[t] = [task[t] EXCEPT !.pc = "store", !.lost = lost] /\ task' = [task EXCEPT ![t] = task'[t]]
    BY <1>1, TaskFields
  <2>2. task[t] \in Task
    BY TaskFields
  <2> QED BY <2>1, <2>2 DEF Task
<1>3. /\ host' \in [found : {"not", "name", "hostname", "both"}, method : Elevating!Methods]
      /\ host'.found = host.found
      /\ host.found = "not" => host' = host
      /\ host' = host \/ host'.method = IF task[t].verified = "sudo" THEN "sudo_password" ELSE "su"
      /\ Elevating!FoundByName /\ ~lost
         => host'.method = IF task[t].verified = "sudo" THEN "sudo_password" ELSE "su"
  <2>1. CASE Elevating!FoundByName /\ ~lost
    <3>1. host' = [host EXCEPT !.method = IF task[t].verified = "sudo" THEN "sudo_password" ELSE "su"]
      BY <1>1, <2>1
    <3> QED BY <2>1, <3>1, TaskFields DEF Elevating!Methods, Elevating!FoundByName
  <2>2. CASE ~(Elevating!FoundByName /\ ~lost)
    <3>1. host' = host
      BY <1>1, <2>2
    <3> QED BY <2>2, <3>1, TaskFields
  <2> QED BY <2>1, <2>2
<1>4. CASE task[t].mode = "specialist"
  <2>1. host.method \in Wanting /\ task[t].cmd.prefix # "sudo"
    BY <1>0, <1>4, TaskFields DEF Progress
  <2>2. host'.method \in Wanting
    BY <1>3, <2>1 DEF Wanting
  <2>3. Asked(t)' /\ Progress(t)' /\ Fits(t)'
    BY <1>0, <1>2, <1>3, <2>1, <2>2, TaskFields
       DEF Asked, Progress, Fits, Elevating!InInventory, Elevating!FoundByName
  <2> QED BY <1>0, <1>2, <1>3, <2>1, <2>2, <2>3, TaskFields, OneTask
<1>5. CASE task[t].mode = "subagent"
  <2>1. Asked(t)' /\ Progress(t)' /\ Fits(t)'
    BY <1>0, <1>2, <1>5, TaskFields DEF Asked, Progress, Fits, Elevating!InInventory, Elevating!FoundByName
  <2>2. host.found = "not" => host'.method = "none"
    BY <1>3, TaskFields
  <2> QED BY <1>0, <1>2, <1>3, <1>5, <2>1, <2>2, OneTask
<1>6. task[t].mode \in {"specialist", "subagent"}
  BY TaskFields DEF Task
<1> QED BY <1>4, <1>5, <1>6

LEMMA ElevationStore ==
    ASSUME ElevationInv, NEW t \in Tasks, Elevating!Store(t) PROVE ElevationInv'
<1>0. /\ task[t].pc = "store" /\ task[t].verified # None /\ UNCHANGED host
      /\ task[t].typed \in Elevating!Passwords /\ task[t].service \in Elevating!Services
  BY TaskFields DEF Elevating!Store, Asked
<1>1. PICK service \in Elevating!Services :
        /\ task' = [task EXCEPT ![t].ref = service, ![t].pc = "run"]
        /\ secrets' = [secrets EXCEPT ![service] = task[t].typed]
  <2>1. (IF task[t].verified = "su" THEN "root" ELSE task[t].service) \in Elevating!Services
    BY <1>0 DEF Elevating!Services
  <2> QED BY <2>1 DEF Elevating!Store
<1>2. /\ task'[t] \in Task /\ task' = [task EXCEPT ![t] = task'[t]]
      /\ task'[t].pc = "run" /\ task'[t].mode = task[t].mode
      /\ task'[t].cmd = task[t].cmd /\ task'[t].verified = task[t].verified
      /\ task'[t].outcome = task[t].outcome /\ task'[t].ref = service /\ task'[t].lost = task[t].lost
  <2>1. task'[t] = [task[t] EXCEPT !.ref = service, !.pc = "run"] /\ task' = [task EXCEPT ![t] = task'[t]]
    BY <1>1, TaskFields
  <2>2. task[t] \in Task
    BY TaskFields
  <2> QED BY <2>1, <2>2 DEF Task
<1>3. SecretsKept /\ secrets'[service] # None
  <2>1. secrets \in [Elevating!Services -> Elevating!Passwords \cup {None}] /\ task[t].typed # None
    BY <1>0, Missing DEF ElevationInv, ElevationTypes, Elevating!Passwords
  <2> QED BY <1>0, <1>1, <2>1 DEF SecretsKept
<1>4. OthersNever(t)' => OthersNever(t)
  BY <1>1, TaskFields DEF OthersNever
<1>5. Asked(t)' /\ Progress(t)' /\ Fits(t)'
  BY <1>0, <1>2, <1>3, <1>4, TaskFields
     DEF Asked, Progress, Fits, Elevating!InInventory, Elevating!FoundByName
<1> QED BY <1>0, <1>2, <1>3, <1>5, TaskGoes

LEMMA ElevationExecute ==
    ASSUME ElevationInv, NEW t \in Tasks, Elevating!Execute(t) PROVE ElevationInv'
<1> DEFINE cmd == task[t].cmd
           password == IF task[t].ref # None THEN secrets[task[t].ref] ELSE Elevating!AutoResolved(cmd)
           run == Elevating!Transform(Elevating!Known, cmd)
           o == Elevating!Answer(run, password)
<1>0. task[t].pc = "run" /\ UNCHANGED host /\ SecretsKept
  BY TaskFields DEF Elevating!Execute
<1>1. \/ Elevating!Ends(t, "refused") /\ password = None
      \/ /\ task' = [task EXCEPT ![t].cmd = run, ![t].pc = "done", ![t].outcome = o]
         /\ ~(password = None /\ (task[t].ref # None \/ Elevating!NeedsPassword(cmd)))
  BY DEF Elevating!Execute
<1>2. CASE Elevating!Ends(t, "refused") /\ password = None
  <2>1. /\ task'[t] \in Task /\ task' = [task EXCEPT ![t] = task'[t]]
        /\ task'[t].pc = "done" /\ task'[t].mode = task[t].mode
        /\ task'[t].verified = task[t].verified /\ task'[t].outcome = "refused"
    BY <1>2, Ended
  <2>2. task[t].verified = None
    BY <1>0, <1>2, Missing, TaskFields DEF Asked, Elevating!Services
  <2>3. Asked(t)' /\ Progress(t)' /\ Fits(t)'
    BY <2>1, <2>2 DEF Asked, Progress, Fits, Elevating!InInventory, Elevating!FoundByName
  <2> QED BY <1>0, <2>1, <2>3, TaskGoes
<1>3. CASE /\ task' = [task EXCEPT ![t].cmd = run, ![t].pc = "done", ![t].outcome = o]
           /\ ~(password = None /\ (task[t].ref # None \/ Elevating!NeedsPassword(cmd)))
  <2>1. cmd \in [prefix : Elevating!Prefixes, base : {"cmd", "-S cmd", "'cmd'"}]
    BY TaskFields DEF Task
  <2>2. run \in [prefix : Elevating!Prefixes, base : {"cmd", "-S cmd", "'cmd'"}]
    BY <2>1, Forms
  <2>3. o \in {"hangs", "broken", "ok", "denied"}
    BY DEF Elevating!Answer
  <2>4. /\ task'[t] \in Task /\ task' = [task EXCEPT ![t] = task'[t]]
        /\ task'[t].pc = "done" /\ task'[t].mode = task[t].mode /\ task'[t].cmd = run
        /\ task'[t].verified = task[t].verified /\ task'[t].outcome = o /\ task'[t].lost = task[t].lost
    <3> HIDE DEF run, o
    <3>1. task'[t] = [task[t] EXCEPT !.cmd = run, !.pc = "done", !.outcome = o]
          /\ task' = [task EXCEPT ![t] = task'[t]]
      BY <1>3, TaskFields
    <3>2. task[t] \in Task
      BY TaskFields
    <3> QED BY <2>2, <2>3, <3>1, <3>2 DEF Task
  <2>5. CASE task[t].mode = "specialist"
    <3>1. Elevating!InInventory => Elevating!Known = host.method
      BY DEF Elevating!Known
    <3>2. Elevating!InInventory => o # "hangs"
      <4>1. SUFFICES ASSUME Elevating!InInventory, o = "hangs" PROVE FALSE
        OBVIOUS
      <4>2. Elevating!NeedsPassword(run) /\ password = None
        BY <2>3, <4>1 DEF Elevating!Answer, Elevating!NeedsPassword
      <4>3. task[t].ref = None /\ ~Elevating!NeedsPassword(cmd)
        BY <1>3, <4>2
      <4>4. cmd.prefix = "sudo" /\ host.method \in Wanting
        BY <2>1, <3>1, <4>1, <4>2, <4>3, Forms
      <4> QED BY <1>0, <2>5, <4>3, <4>4, TaskFields DEF Progress
    <3>3. ASSUME task[t].verified # None, OthersNever(t)', Elevating!FoundByName, ~task[t].lost
          PROVE  /\ run.prefix = "su -c" => task[t].verified = "su"
                 /\ run.prefix = "sudo -S" => task[t].verified = "sudo"
      <4>1. OthersNever(t)
        BY <1>3, <3>3, TaskFields DEF OthersNever
      <4>2. host.method = (IF task[t].verified = "sudo" THEN "sudo_password" ELSE "su")
            /\ Elevating!InInventory
        BY <1>0, <2>5, <3>3, <4>1, TaskFields DEF Progress, Elevating!FoundByName, Elevating!InInventory
      <4>3. task[t].verified \in {"sudo", "su"}
        BY <3>3, TaskFields DEF Task
      <4> QED BY <2>1, <3>1, <4>2, <4>3, Forms
    <3>4. Asked(t)' /\ Fits(t)'
      <4> HIDE DEF run, o
      <4> QED BY <1>0, <2>4, <3>2, <3>3 DEF Asked, Fits, Elevating!InInventory, Elevating!FoundByName
    <3>5. Progress(t)'
      BY <1>0, <2>4, TaskFields DEF Progress
    <3> QED BY <1>0, <2>4, <3>4, <3>5, TaskGoes
  <2>6. CASE task[t].mode = "subagent"
    <3>1. Asked(t)' /\ Progress(t)' /\ Fits(t)'
      BY <1>0, <2>4, <2>6 DEF Asked, Progress, Fits, Elevating!InInventory, Elevating!FoundByName
    <3> QED BY <1>0, <2>4, <3>1, TaskGoes
  <2>7. task[t].mode \in {"specialist", "subagent"}
    BY TaskFields DEF Task
  <2> QED BY <2>5, <2>6, <2>7
<1> QED BY <1>1, <1>2, <1>3

ElevationSafe == part = "elevation" => ElevationInv

(* Where the method of a host is decided before and after prompts that     *)
(* concurrent calls share, no specialist's command is left waiting for a   *)
(* password on a host of the inventory, and a password just verified with  *)
(* sudo or su goes to that program where the calls name the host as the    *)
(* inventory does and the method could be saved, for every number of calls *)
(* (prepare_host_elevation, request_credentials, ssh_execute).             *)
THEOREM PasswordsReachTheirPrompt == Spec => []PasswordsFit
<1>1. Init => ElevationSafe
  BY Beginnings, ElevationBegins DEF ElevationSafe
<1>2. ElevationSafe /\ [Next]_vars => ElevationSafe'
  <2> SUFFICES ASSUME ElevationSafe, [Next]_vars, part' = "elevation" PROVE ElevationInv'
    BY DEF ElevationSafe
  <2>1. ElevationInv
    BY OnePart DEF ElevationSafe
  <2>2. CASE UNCHANGED elevationVars
    BY <2>1, <2>2 DEF elevationVars, ElevationInv, ElevationTypes, Asked, Progress, Fits, OthersNever,
                      Elevating!InInventory, Elevating!FoundByName, Elevating!Methods, Elevating!Services, Elevating!Passwords
  <2>3. CASE Elevating!ElevationNext
    BY <2>1, <2>3, ElevationPrepare, ElevationCollect, ElevationRequest, ElevationPrompt,
       ElevationPersist, ElevationStore, ElevationExecute DEF Elevating!ElevationNext, Elevating!ElevationStep
  <2> QED BY <2>2, <2>3, OnePart
<1>3. ElevationInv => Elevating!NothingHangs /\ Elevating!PasswordFitsCommand
  BY DEF ElevationInv, Fits, OthersNever, Elevating!NothingHangs, Elevating!PasswordFitsCommand
<1>4. ElevationSafe => PasswordsFit
  BY <1>3 DEF ElevationSafe, PasswordsFit
<1> QED BY <1>1, <1>2, <1>4, Safety, PTL
=============================================================================
