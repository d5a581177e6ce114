------------------------------ MODULE Services ------------------------------
(***************************************************************************)
(* What the commands of the user and the tools of the agents rest on: the  *)
(* model that is asked, the verdict on a task, the questions to the user,  *)
(* the names he uses, the inventory, the way into a host, the report on    *)
(* it, and what is kept in files, in the keyring, in the database and as   *)
(* templates.  None shares state with another, so an execution follows one *)
(* of them.                                                                *)
(***************************************************************************)
EXTENDS Naturals, FiniteSets, Sequences

CONSTANTS Emptied,                                  \* Provider
          MaxTasks,                                 \* Routing
          Callers, Words, MaxSameQuestion, MaxAsked,\* Questions
          Width, Qualified, Keywords, MaxParts,     \* References
          Stems, Addresses, Operators, MaxEdits,    \* Inventory
          Logins, Machines, Keys, MaxLogins,        \* Login
          Names, MaxHosts, MaxChecks,               \* Scan
          Tools, Entries, MaxCommands, Contents,
          Binary, Mangled, Torn,                    \* RemoteFiles
          Elevations, OtherNames, Values,           \* SecretStore
          Clients, Resources, Configs, MaxRequests, \* ResourceState
          Threads, TemplateNames, MaxVersion,
          Loaders, MaxUses, Latest,                 \* Templates
          None

VARIABLES part,
          configFile, config, env, apiKeys, client, command,
          entered,                                                \* Provider
          extractor, fallback, unattended, task, tasks, center,
          unasked,                                                \* Routing
          terminal, yes, responses, counts, prompt, call, asked,
          typed, given,                                           \* Questions
          inventory, names, secrets, legacy, line,                \* References
          hosts, variables, operator, exported, edits, doubled,
          misled,                                                 \* Inventory
          interactive, hasAgent, defaultKey, encrypted, keyOf,
          phrases, callback, passwords, login, logins, untried, stranded,
          cancelled, settled, refused,                            \* Login
          kind, width, system, security, host, found, sections,
          report,                                                 \* Scan
          file, bak, last, stamped, source, crontab, tool,
          calls, exposed, missed, wanted,                         \* RemoteFiles
          keyring, index, secure, memory, listed, pending,
          saving, written, doubt,                                 \* SecretStore
          table, snapshot, taken, request, requests, good,
          contested,                                              \* ResourceState
          templates, manual, dirs, loaders, loaded, lock,
          thread, outputs, uses                                   \* Templates

Choosing == INSTANCE Provider WITH file <- configFile, keyring <- apiKeys
Classifying == INSTANCE Routing WITH auto <- unattended
Asking == INSTANCE Questions WITH interactive <- terminal, auto <- yes
Resolving == INSTANCE References
Listing == INSTANCE Inventory
Connecting == INSTANCE Login
Scanning == INSTANCE Scan
Editing == INSTANCE RemoteFiles
Keeping == INSTANCE SecretStore
Tracking == INSTANCE ResourceState
Instantiating == INSTANCE Templates

(* What the proofs need of the constants: None and the other values that   *)
(* stand for something that is absent are unlike what they stand beside;   *)
(* there is a key, and none is called as the file that all keys are in.    *)
ASSUME ReferenceAssumption ==
    /\ MaxParts \in Nat /\ Width \in [DOMAIN Width -> Nat]
    /\ DOMAIN Width \intersect {"word", "address", "typed", "name", "value", "masked"} = {}
ASSUME BaseAssumption == None \notin {"openrouter", "local", "cloud"}
ASSUME OperationAssumption == None \notin {"provision", "update", "destroy", "plan"}
ASSUME MergeAssumption == None \notin [data : Listing!Fields, priority : 1..4]
ASSUME KeyAssumption == Keys # {} /\ None \notin Keys /\ "id_ed25519" \notin Keys
ASSUME ContentAssumption ==
    Torn \notin Contents \union {Mangled, None} /\ None \notin Contents \union {Mangled}
ASSUME ValueAssumption ==
    /\ None \notin Values \union Elevations \union OtherNames
    /\ \A some \in SUBSET (Elevations \union OtherNames) : some # None
ASSUME RowAssumption ==
    None \notin [status : {"pending", "updating", "active", "deleted", "failed"}, expected : Configs,
                 actual : Configs \union {None}, previous : Configs \union {None}, error : BOOLEAN]
ASSUME VersionAssumption ==
    MaxVersion \in Nat /\ Latest \notin 1..MaxVersion /\ None \notin 1..MaxVersion \union Threads

providerVars == <<configFile, config, env, apiKeys, client, command, entered>>
routingVars == <<extractor, fallback, unattended, task, tasks, center, unasked>>
questionVars == <<terminal, yes, responses, counts, prompt, call, asked,
                  typed, given>>
referenceVars == <<inventory, names, secrets, legacy, line>>
inventoryVars == <<hosts, variables, operator, exported, edits, doubled,
                   misled>>
loginVars == <<interactive, hasAgent, defaultKey, encrypted, keyOf, phrases,
               callback, passwords, login, logins, untried, stranded,
               cancelled, settled, refused>>
scanVars == <<kind, width, system, security, host, found, sections, report>>
filesVars == <<file, bak, last, stamped, source, crontab, tool, calls,
               exposed, missed, wanted>>
secretVars == <<keyring, index, secure, memory, listed, pending, saving,
                written, doubt>>
stateVars == <<table, snapshot, taken, request, requests, good, contested>>
templateVars == <<templates, manual, dirs, loaders, loaded, lock, thread,
                  outputs, uses>>
vars == <<part, providerVars, routingVars, questionVars, referenceVars,
          inventoryVars, loginVars, scanVars, filesVars, secretVars,
          stateVars, templateVars>>

NoProvider == /\ configFile = None /\ config = None /\ env = None
              /\ apiKeys = None /\ client = None /\ command = None
              /\ entered = None
NoRouting == /\ extractor = None /\ fallback = None /\ unattended = None
             /\ task = None /\ tasks = None /\ center = None
             /\ unasked = None
NoQuestions == /\ terminal = None /\ yes = None /\ responses = None
               /\ counts = None /\ prompt = None /\ call = None
               /\ asked = None /\ typed = None /\ given = None
NoReferences == /\ inventory = None /\ names = None /\ secrets = None
                /\ legacy = None /\ line = None
NoInventory == /\ hosts = None /\ variables = None /\ operator = None
               /\ exported = None /\ edits = None /\ doubled = None
               /\ misled = None
NoLogin == /\ interactive = None /\ hasAgent = None /\ defaultKey = None
           /\ encrypted = None /\ keyOf = None /\ phrases = None
           /\ callback = None /\ passwords = None /\ login = None
           /\ logins = None /\ untried = None
           /\ stranded = None /\ cancelled = None /\ settled = None
           /\ refused = None
NoScan == /\ kind = None /\ width = None /\ system = None
          /\ security = None /\ host = None /\ found = None
          /\ sections = None /\ report = None
NoFiles == /\ file = None /\ bak = None /\ last = None
           /\ stamped = None /\ source = None /\ crontab = None
           /\ tool = None /\ calls = None /\ exposed = None
           /\ missed = None /\ wanted = None
NoSecrets == /\ keyring = None /\ index = None /\ secure = None
             /\ memory = None /\ listed = None /\ pending = None
             /\ saving = None /\ written = None /\ doubt = None
NoState == /\ table = None /\ snapshot = None /\ taken = None
           /\ request = None /\ requests = None /\ good = None
           /\ contested = None
NoTemplates == /\ templates = None /\ manual = None /\ dirs = None
               /\ loaders = None /\ loaded = None /\ lock = None
               /\ thread = None /\ outputs = None /\ uses = None

Init == /\ part \in {"provider", "routing", "questions", "references", "inventory", "login",
                  "scan", "files", "secrets", "state", "templates"}
        /\ IF part = "provider" THEN Choosing!ProviderInit ELSE NoProvider
        /\ IF part = "routing" THEN Classifying!RoutingInit ELSE NoRouting
        /\ IF part = "questions" THEN Asking!QuestionsInit ELSE NoQuestions
        /\ IF part = "references" THEN Resolving!ReferencesInit ELSE NoReferences
        /\ IF part = "inventory" THEN Listing!InventoryInit ELSE NoInventory
        /\ IF part = "login" THEN Connecting!LoginInit ELSE NoLogin
        /\ IF part = "scan" THEN Scanning!ScanInit ELSE NoScan
        /\ IF part = "files" THEN Editing!FilesInit ELSE NoFiles
        /\ IF part = "secrets" THEN Keeping!SecretsInit ELSE NoSecrets
        /\ IF part = "state" THEN Tracking!StateInit ELSE NoState
        /\ IF part = "templates" THEN Instantiating!TemplatesInit ELSE NoTemplates

Choose == /\ part = "provider" /\ Choosing!ProviderNext
          /\ UNCHANGED <<part, routingVars, questionVars, referenceVars,
                         inventoryVars, loginVars, scanVars, filesVars,
                         secretVars, stateVars, templateVars>>
Classify == /\ part = "routing" /\ Classifying!RoutingNext
            /\ UNCHANGED <<part, providerVars, questionVars, referenceVars,
                           inventoryVars, loginVars, scanVars, filesVars,
                           secretVars, stateVars, templateVars>>
Ask == /\ part = "questions" /\ Asking!QuestionsNext
       /\ UNCHANGED <<part, providerVars, routingVars, referenceVars,
                      inventoryVars, loginVars, scanVars, filesVars,
                      secretVars, stateVars, templateVars>>
Resolve == /\ part = "references" /\ Resolving!ReferencesNext
           /\ UNCHANGED <<part, providerVars, routingVars, questionVars,
                          inventoryVars, loginVars, scanVars, filesVars,
                          secretVars, stateVars, templateVars>>
List == /\ part = "inventory" /\ Listing!InventoryNext
        /\ UNCHANGED <<part, providerVars, routingVars, questionVars,
                       referenceVars, loginVars, scanVars, filesVars,
                       secretVars, stateVars, templateVars>>
Connect == /\ part = "login" /\ Connecting!LoginNext
           /\ UNCHANGED <<part, providerVars, routingVars, questionVars,
                          referenceVars, inventoryVars, scanVars, filesVars,
                          secretVars, stateVars, templateVars>>
ScanHosts == /\ part = "scan" /\ Scanning!ScanNext
             /\ UNCHANGED <<part, providerVars, routingVars, questionVars,
                            referenceVars, inventoryVars, loginVars,
                            filesVars, secretVars, stateVars, templateVars>>
Edit == /\ part = "files" /\ Editing!FilesNext
        /\ UNCHANGED <<part, providerVars, routingVars, questionVars,
                       referenceVars, inventoryVars, loginVars, scanVars,
                       secretVars, stateVars, templateVars>>
Keep == /\ part = "secrets" /\ Keeping!SecretsNext
        /\ UNCHANGED <<part, providerVars, routingVars, questionVars,
                       referenceVars, inventoryVars, loginVars, scanVars,
                       filesVars, stateVars, templateVars>>
Track == /\ part = "state" /\ Tracking!StateNext
         /\ UNCHANGED <<part, providerVars, routingVars, questionVars,
                        referenceVars, inventoryVars, loginVars, scanVars,
                        filesVars, secretVars, templateVars>>
Instantiate == /\ part = "templates" /\ Instantiating!TemplatesNext
               /\ UNCHANGED <<part, providerVars, routingVars, questionVars,
                              referenceVars, inventoryVars, loginVars,
                              scanVars, filesVars, secretVars, stateVars>>

Next == Choose \/ Classify \/ Ask \/ Resolve \/ List \/ Connect
        \/ ScanHosts \/ Edit \/ Keep \/ Track \/ Instantiate

Spec == Init /\ [][Next]_vars

-----------------------------------------------------------------------------
(* What is asked goes where the user was told, and is taken for what it is:*)
(* a request of the agent goes to the address that is shown, with its      *)
(* provider's key (Provider: /model, the wizard, saves that may fail and   *)
(* restarts against the environment); a task is taken for a change only    *)
(* when a model or most of its words say so, and its flag for destruction  *)
(* stands unless a model has spoken (Routing: extract, classify and their  *)
(* fallbacks).                                                             *)
NothingUnexpected ==
    /\ part = "provider" => Choosing!GoesWhereShown
    /\ part = "routing" => Classifying!UnansweredIsSafe

(* What was put away can be had back: a write cut short leaves what it     *)
(* replaces in the backup, and the crontab keeps the entries of others     *)
(* (RemoteFiles); a secret that is listed can be read (SecretStore); and   *)
(* the rollback of an update leads to the last configuration that was      *)
(* active (ResourceState).                                                 *)
KeptCanBeHad ==
    /\ part = "files" => Editing!CopyRemains /\ Editing!EntriesKept
    /\ part = "secrets" => Keeping!ListedAreReadable
    /\ part = "state" => Tracking!RollbackIsLastGood

(* The registries agree with what was put into them: while no thread loads,*)
(* the template without a version is the highest one and those registered  *)
(* by hand are there (Templates, among threads); names of hosts differ by  *)
(* more than case, and the wizard's merge keeps the value of the most      *)
(* trusted source (Inventory, among operators).                            *)
RegistriesAgree ==
    /\ part = "templates" => Instantiating!LatestIsHighest /\ Instantiating!ManualRemains
    /\ part = "inventory" => Listing!OneHostPerName /\ Listing!MergeKeepsTrusted

(* What is typed for one thing is used for that thing: a passphrase for    *)
(* the key it opens, but for one that the callback of /ssh stored for a    *)
(* jump host before it was tried, a tunnel for the connection it was opened*)
(* for (Login), the value of a secret for its reference (References).      *)
UsedForItsOwn ==
    /\ part = "login" => Connecting!PhraseFitsKey /\ Connecting!TunnelsEnd
    /\ part = "references" => Resolving!ReferencesReplaced

(* What is reported was found, and what is answered was asked: the issues  *)
(* and hosts a scan counts are those of its checks, two false alarms       *)
(* excepted (Scan), and a call gets the answer of the user to its own      *)
(* question (Questions).                                                   *)
ReportedIsFound ==
    /\ part = "scan" => Scanning!CountsAreTrue
    /\ part = "questions" => Asking!AnswersAreTheirs
=============================================================================
