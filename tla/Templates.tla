------------------------------ MODULE Templates ------------------------------
(***************************************************************************)
(* The registry of infrastructure templates, shared by threads: templates  *)
(* come from loaders or are registered by hand, under "name:version" and,  *)
(* the latest of them, under the name alone; and their instantiation.  The *)
(* lock covers what changes the registry; a template is looked up without. *)
(***************************************************************************)
EXTENDS Naturals

CONSTANTS Threads, TemplateNames,
          MaxVersion, Loaders,
          MaxUses,     \* bound: calls in an execution
          Latest,      \* stands for the version in the key without one
          None

VARIABLES templates, manual,   \* name -> version or Latest -> version found there, or None
          dirs,      \* per loader: the templates on its disk
          loaders,   \* the registered loaders
          loaded, lock,
          thread,    \* per thread: the call under way
          outputs,   \* temporary directories of instances
          uses

templateVars == <<templates, manual, dirs, loaders, loaded, lock, thread, outputs, uses>>

Versions == 1..MaxVersion
Nothing == [n \in TemplateNames |-> [v \in Versions \union {Latest} |-> None]]
NoUse == [pc |-> "idle", name |-> None, version |-> None, left |-> {}, back |-> {}]

(* Mutant: what is registered last is the latest.                          *)
M_Register(ts, n, v) == [ts EXCEPT ![n][v] = v, ![n][Latest] = v]

(* _register *)
Register(ts, n, v) ==
    [ts EXCEPT ![n][v] = v, ![n][Latest] = IF @ = None \/ v > @ THEN v ELSE @]

Manual == {<<n, manual[n][k]>> : n \in TemplateNames, k \in Versions \union {Latest}}
              \ {<<n, None>> : n \in TemplateNames}

TemplatesInit ==
    /\ templates = Nothing /\ manual = Nothing
    /\ dirs \in [Loaders -> SUBSET (TemplateNames \X Versions)]
    /\ loaders = {} /\ loaded = FALSE /\ lock = None
    /\ thread = [t \in Threads |-> NoUse] /\ outputs = {} /\ uses = 0

Begin(t) == thread[t].pc = "idle" /\ uses < MaxUses /\ uses' = uses + 1
Step(t, pc) == thread' = [thread EXCEPT ![t].pc = pc]
Return(t) == thread' = [thread EXCEPT ![t] = NoUse]

-----------------------------------------------------------------------------
RegisterLoader(t, l) ==
    /\ Begin(t) /\ lock = None
    /\ loaders' = loaders \union {l} /\ loaded' = FALSE
    /\ UNCHANGED <<templates, manual, dirs, lock, thread, outputs>>

(* register marks the registry as loaded.                                  *)
RegisterManual(t, n, v) ==
    /\ Begin(t) /\ lock = None
    /\ templates' = Register(templates, n, v)
    /\ manual' = [manual EXCEPT ![n][v] = v, ![n][Latest] = v]
    /\ loaded' = TRUE
    /\ UNCHANGED <<dirs, loaders, lock, thread, outputs>>

(* Mutant: what was registered by hand is not registered again.            *)
M_Load(t, then) ==
    /\ templates' = Nothing /\ lock' = t
    /\ thread' = [thread EXCEPT ![t] = [@ EXCEPT !.pc = then, !.left = loaders]]

(* load_templates empties the registry, registers again what had been      *)
(* registered by hand, and then what each loader finds.                    *)
Load(t, then) ==
    /\ templates' = Nothing /\ lock' = t
    /\ thread' = [thread EXCEPT ![t] = [@ EXCEPT !.pc = then, !.left = loaders, !.back = Manual]]

Reload(t) ==
    /\ Begin(t) /\ lock = None /\ Load(t, "reloading")
    /\ UNCHANGED <<manual, dirs, loaders, loaded, outputs>>

RegisterNext(t, n, v) ==
    /\ lock = t /\ <<n, v>> \in thread[t].back
    /\ templates' = Register(templates, n, v)
    /\ thread' = [thread EXCEPT ![t].back = @ \ {<<n, v>>}]
    /\ UNCHANGED <<manual, dirs, loaders, loaded, lock, outputs, uses>>

(* load_all of one loader; one that raises is skipped, a template that     *)
(* cannot be parsed too (_load_from_dir).                                  *)
LoadFrom(t, l, found) ==
    /\ lock = t /\ thread[t].back = {} /\ l \in thread[t].left /\ found \subseteq dirs[l]
    /\ thread' = [thread EXCEPT ![t].left = @ \ {l}, ![t].back = found]
    /\ UNCHANGED <<templates, manual, dirs, loaders, loaded, lock, outputs, uses>>

Loaded(t) ==
    /\ lock = t /\ thread[t].back = {} /\ thread[t].left = {}
    /\ loaded' = TRUE /\ lock' = None
    /\ IF thread[t].pc = "reloading" THEN Return(t) ELSE Step(t, "found")
    /\ UNCHANGED <<templates, manual, dirs, loaders, outputs, uses>>

(* get: load_templates(), then the lookup without the lock, which another  *)
(* thread may have taken to load again.                                    *)
GetTemplate(t, n, v) ==
    /\ Begin(t)
    /\ thread' = [thread EXCEPT ![t] = [NoUse EXCEPT !.pc = "get", !.name = n, !.version = v]]
    /\ UNCHANGED <<templates, manual, dirs, loaders, loaded, lock, outputs>>

EnsureLoaded(t) ==
    /\ thread[t].pc = "get" /\ lock = None
    /\ IF loaded THEN Step(t, "found") /\ UNCHANGED <<templates, lock>>
                 ELSE Load(t, "loading")
    /\ UNCHANGED <<manual, dirs, loaders, loaded, outputs, uses>>

(* TemplateNotFoundError, or instantiate: the variables, the provider and  *)
(* the backend are checked, then files are rendered into a new directory;  *)
(* when one fails the directory stays for the cleanup.                     *)
Instantiate(t, valid) ==
    /\ thread[t].pc = "found"
    /\ IF templates[thread[t].name][thread[t].version] # None /\ valid
       THEN outputs' = outputs \union {t} /\ Step(t, "render")
       ELSE UNCHANGED outputs /\ Return(t)
    /\ UNCHANGED <<templates, manual, dirs, loaders, loaded, lock, uses>>

Render(t) ==
    /\ thread[t].pc = "render" /\ Return(t)
    /\ UNCHANGED <<templates, manual, dirs, loaders, loaded, lock, outputs, uses>>

Cleanup(t) ==
    /\ t \in outputs /\ thread[t].pc = "idle"
    /\ outputs' = outputs \ {t}
    /\ UNCHANGED <<templates, manual, dirs, loaders, loaded, lock, thread, uses>>

(* unregister: all versions, and a reload is due when nothing is left.     *)
Unregister(t, n) ==
    /\ Begin(t) /\ lock = None
    /\ templates' = [templates EXCEPT ![n] = Nothing[n]]
    /\ manual' = [manual EXCEPT ![n] = [k \in DOMAIN @ |-> IF templates[n][k] = None THEN @[k] ELSE None]]
    /\ loaded' = (loaded /\ templates' # Nothing)
    /\ UNCHANGED <<dirs, loaders, lock, thread, outputs>>

ClearRegistry(t) ==
    /\ Begin(t) /\ lock = None
    /\ templates' = Nothing /\ manual' = Nothing /\ loaded' = FALSE
    /\ UNCHANGED <<dirs, loaders, lock, thread, outputs>>

TemplatesNext ==
    \E t \in Threads :
       \/ \E l \in Loaders : \/ RegisterLoader(t, l)
                            \/ \E found \in SUBSET dirs[l] : LoadFrom(t, l, found)
       \/ \E n \in TemplateNames :
             \/ \E v \in Versions : RegisterManual(t, n, v) \/ RegisterNext(t, n, v)
             \/ \E k \in Versions \union {Latest} : GetTemplate(t, n, k)
             \/ Unregister(t, n)
       \/ Reload(t) \/ Loaded(t) \/ EnsureLoaded(t)
       \/ \E valid \in BOOLEAN : Instantiate(t, valid)
       \/ Render(t) \/ Cleanup(t) \/ ClearRegistry(t)

-----------------------------------------------------------------------------
(* "Unversioned key always points to highest semantic version", in every   *)
(* order of registrations, loads and removals (docs/architecture.md;       *)
(* _register, load_templates, unregister).                                 *)
LatestIsHighest ==
    lock = None => \A n \in TemplateNames, v \in Versions :
        templates[n][v] # None => templates[n][Latest] # None /\ templates[n][Latest] >= v

(* "Manual registrations preserved on reload": what was registered by hand *)
(* is found under its version, except by a lookup while another thread     *)
(* loads (register, load_templates, unregister).                           *)
ManualRemains ==
    lock = None => \A n \in TemplateNames, v \in Versions : manual[n][v] # None => templates[n][v] # None
=============================================================================
