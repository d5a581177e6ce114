---------------------------- MODULE ServicesProofs ----------------------------
(***************************************************************************)
(* Theorems about Services.  An execution follows one part, so each part   *)
(* has an inductive invariant of its own, for any number of callers,       *)
(* operators, logins, hosts, tools, clients and threads, and of requests,  *)
(* and for commands of any number of parts; the theorems at the end put    *)
(* them together.                                                          *)
(***************************************************************************)
EXTENDS Services, FiniteSetTheorems, SequenceTheorems, WellFoundedInduction, TLAPS

-----------------------------------------------------------------------------
(* An execution follows one part, which stays the same.                    *)
Parts == {"provider", "routing", "questions", "references", "inventory", "login", "scan",
          "files", "secrets", "state", "templates"}

(* A step is one of the part that is followed, or changes nothing of it.   *)
LEMMA OnePart ==
    ASSUME part \in Parts, [Next]_vars
    PROVE  /\ part' = part
           /\ part = "provider" => Choosing!ProviderNext \/ UNCHANGED providerVars
           /\ part = "routing" => Classifying!RoutingNext \/ UNCHANGED routingVars
           /\ part = "questions" => Asking!QuestionsNext \/ UNCHANGED questionVars
           /\ part = "references" => Resolving!ReferencesNext \/ UNCHANGED referenceVars
           /\ part = "inventory" => Listing!InventoryNext \/ UNCHANGED inventoryVars
           /\ part = "login" => Connecting!LoginNext \/ UNCHANGED loginVars
           /\ part = "scan" => Scanning!ScanNext \/ UNCHANGED scanVars
           /\ part = "files" => Editing!FilesNext \/ UNCHANGED filesVars
           /\ part = "secrets" => Keeping!SecretsNext \/ UNCHANGED secretVars
           /\ part = "state" => Tracking!StateNext \/ UNCHANGED stateVars
           /\ part = "templates" => Instantiating!TemplatesNext \/ UNCHANGED templateVars
BY Zenon DEF Next, vars, Choose, Classify, Ask, Resolve, List, Connect, ScanHosts, Edit, Keep, Track,
       Instantiate, Parts

(* The part that is followed starts as its module says.                    *)
LEMMA OneStart ==
    ASSUME Init
    PROVE  /\ part \in Parts
           /\ part = "provider" => Choosing!ProviderInit
           /\ part = "routing" => Classifying!RoutingInit
           /\ part = "questions" => Asking!QuestionsInit
           /\ part = "references" => Resolving!ReferencesInit
           /\ part = "inventory" => Listing!InventoryInit
           /\ part = "login" => Connecting!LoginInit
           /\ part = "scan" => Scanning!ScanInit
           /\ part = "files" => Editing!FilesInit
           /\ part = "secrets" => Keeping!SecretsInit
           /\ part = "state" => Tracking!StateInit
           /\ part = "templates" => Instantiating!TemplatesInit
BY DEF Init, Parts

-----------------------------------------------------------------------------
(* Sets of numbers have a least element, and one that is highest.          *)
Below == OpToRel(<, Nat)
(* The relation that the library knows to be well founded.                 *)
LEMMA BelowIsLess == \A x, y \in Nat : x < y => <<x, y>> \in Below
BY DEF Below, OpToRel

(* Every nonempty set of numbers has a least one.                          *)
LEMMA Least ==
    ASSUME NEW T \in SUBSET Nat, T # {}
    PROVE  \E x \in T : \A y \in T : x <= y
<1>1. IsWellFoundedOn(Below, Nat)
      BY NatLessThanWellFounded DEF Below
<1>2. PICK x \in T : \A y \in T : ~(<<y, x>> \in Below)
      BY <1>1, WFMin, Zenon
<1>3. ASSUME NEW y \in T PROVE x <= y
      <2>1. x \in Nat /\ y \in Nat
            OBVIOUS
      <2>2. y < x => <<y, x>> \in Below
            BY <2>1, BelowIsLess
      <2>3. QED
            BY <1>2, <2>1, <2>2
<1>4. QED
      BY <1>3

(* Every nonempty set of numbers up to some number has a highest.          *)
LEMMA Highest ==
    ASSUME NEW top \in Nat, NEW vs \in SUBSET (1..top), vs # {}
    PROVE  \E m \in vs : \A w \in vs : w <= m
<1> DEFINE Gaps == {top - v : v \in vs}
<1>1. Gaps \in SUBSET Nat
      OBVIOUS
<1>2. Gaps # {}
      OBVIOUS
<1>3. PICK x \in Gaps : \A y \in Gaps : x <= y
      BY <1>1, <1>2, Least
<1>4. PICK m \in vs : x = top - m
      OBVIOUS
<1>5. ASSUME NEW w \in vs PROVE w <= m
      <2>1. x <= top - w
            BY <1>3
      <2>2. QED
            BY <1>4, <2>1
<1>6. QED
      BY <1>5

-----------------------------------------------------------------------------
(* Provider: where the requests of the agent go.                           *)
Bases == {"openrouter", "local", "cloud"}
Configurations == [provider : Choosing!Providers, model : Choosing!Models, base : Bases \union {None}]
Environments == [key : [Choosing!Keyed -> Choosing!Keyed \union {None}],
                 openaiBase : {"openrouter", None}, ollamaBase : Bases \union {None}]
Commands == [pc : {"idle", "key", "change", "pull", "model", "open", "write"}, provider : Choosing!Providers \union {None},
             model : Choosing!Models \union {None}]

(* The key of openrouter is its own, and openai's variables are its own    *)
(* until the process has been configured for openrouter.                   *)
OwnVariables(e, been) ==
    /\ e \in Environments
    /\ e.key["openrouter"] \in {"openrouter", None}
    /\ "openrouter" \notin been => e.openaiBase = None /\ e.key["openai"] \in {"openai", None}

(* Where the agent's requests go, once its model was built and its         *)
(* configuration saved.                                                    *)
Built ==
    /\ client = [to |-> client.to, key |-> client.key, fresh |-> client.fresh]
    /\ client.fresh =>
          /\ config.provider \in {"openrouter", "ollama"} => client.to = config.base /\ config.base \in Bases
          /\ config.provider = "openrouter" => client.key \in {"openrouter", None}
          /\ config.provider = "ollama" => client.key = None
          /\ config.provider = "openai" /\ "openrouter" \notin entered =>
                client.to = "openai" /\ client.key \in {"openai", None}

ProviderInv ==
    /\ configFile \in {None, Emptied} \/ configFile \in Configurations
    /\ config = None \/ (config \in Configurations /\ config.provider \in entered)
    /\ OwnVariables(env, entered)
    /\ command \in Commands
    /\ command.pc # "idle" => config \in Configurations /\ config.provider \in entered
    /\ command.pc \in {"key", "change"} => command.provider \in Choosing!Providers
    /\ command.pc \in {"pull", "model"} => command.model \in Choosing!Models
    /\ config # None /\ command.pc \notin {"open", "write"} => Built
    /\ config # None \/ command.pc # "idle" => client = [to |-> client.to, key |-> client.key, fresh |-> client.fresh]

(* No command is under way.                                                *)
LEMMA NoCommandType == Choosing!NoCommand \in Commands /\ Choosing!NoCommand.pc = "idle"
BY DEF Choosing!NoCommand, Commands

(* A fresh environment has the keys and the base URL of its shell only.    *)
LEMMA ShellOwns ==
    ASSUME NEW keys, NEW shell \in {None, "local", "cloud"}, NEW been
    PROVE  OwnVariables(Choosing!ShellEnv(keys, shell), been)
BY DEF OwnVariables, Environments, Bases, Choosing!ShellEnv, Choosing!Keyed

(* A key taken from the keyring is the one of its provider.                *)
LEMMA KeyOwns ==
    ASSUME NEW e, NEW been, NEW p, NEW stored, OwnVariables(e, been)
    PROVE  OwnVariables(Choosing!WithKey(e, p, stored), been)
<1>1. CASE p \in Choosing!Keyed /\ e.key[p] = None /\ p \in stored
      <2> DEFINE f == [e EXCEPT !.key[p] = p]
      <2>1. Choosing!WithKey(e, p, stored) = f
            BY <1>1 DEF Choosing!WithKey
      <2>2. e \in Environments /\ e.key \in [Choosing!Keyed -> Choosing!Keyed \union {None}]
            BY DEF OwnVariables, Environments
      <2>3. f \in Environments
            BY <1>1, <2>2 DEF Environments
      <2>4. /\ f.openaiBase = e.openaiBase
            /\ \A k \in Choosing!Keyed : f.key[k] = IF k = p THEN p ELSE e.key[k]
            BY <1>1, <2>2 DEF Environments
      <2>5. QED
            BY <2>1, <2>3, <2>4 DEF OwnVariables, Choosing!Keyed
<1>2. CASE ~(p \in Choosing!Keyed /\ e.key[p] = None /\ p \in stored)
      BY <1>2 DEF Choosing!WithKey
<1>3. QED
      BY <1>1, <1>2

(* Ollama is asked at an address of its own.                               *)
LEMMA Basing ==
    ASSUME NEW c \in Configurations, NEW e \in Environments
    PROVE  Choosing!OllamaBase(c, e) \in Bases
BY DEF Choosing!OllamaBase, Choosing!RequiresKey, Configurations, Environments, Bases

(* The configuration is completed for its provider, and stays with it.     *)
LEMMA Configuring ==
    ASSUME NEW c \in Configurations, NEW e \in Environments
    PROVE  /\ Choosing!ConfigFor(c, e) \in Configurations
           /\ Choosing!ConfigFor(c, e).provider = c.provider
           /\ c.provider = "openrouter" => Choosing!ConfigFor(c, e).base = "openrouter"
           /\ c.provider = "ollama" => Choosing!ConfigFor(c, e).base = Choosing!OllamaBase(c, e)
<1>1. CASE c.provider = "openrouter"
      BY <1>1 DEF Choosing!ConfigFor, Configurations, Bases
<1>2. CASE c.provider = "ollama"
      <2>1. Choosing!ConfigFor(c, e) = [c EXCEPT !.base = Choosing!OllamaBase(c, e)]
            BY <1>2 DEF Choosing!ConfigFor
      <2>2. QED
            BY <1>2, <2>1, Basing DEF Configurations
<1>3. CASE c.provider \notin {"openrouter", "ollama"}
      BY <1>3 DEF Choosing!ConfigFor
<1>4. QED
      BY <1>1, <1>2, <1>3

(* Setting up the environment for a provider keeps the keys of others.     *)
LEMMA EnvOwns ==
    ASSUME NEW c \in Configurations, NEW e, NEW been, NEW stored, OwnVariables(e, been)
    PROVE  LET f == Choosing!EnvFor(c, e, stored) IN
           /\ OwnVariables(f, been \union {c.provider})
           /\ c.provider = "ollama" => f.ollamaBase = Choosing!OllamaBase(c, e)
           /\ c.provider = "openrouter" => f.key["openrouter"] = e.key["openrouter"]
<1> DEFINE f == Choosing!EnvFor(c, e, stored)
<1>0. e \in Environments /\ e.key \in [Choosing!Keyed -> Choosing!Keyed \union {None}]
      BY DEF OwnVariables, Environments
<1>1. CASE c.provider = "openrouter"
      <2> DEFINE key == IF e.key["openai"] # None THEN e.key["openai"]
                        ELSE IF e.key["openrouter"] # None THEN e.key["openrouter"]
                        ELSE IF "openrouter" \in stored THEN "openrouter" ELSE None
      <2>1. f = [e EXCEPT !.openaiBase = "openrouter", !.key = [e.key EXCEPT !["openai"] = key]]
            BY <1>0, <1>1 DEF Choosing!EnvFor, Environments
      <2>2. key \in Choosing!Keyed \union {None}
            BY <1>0 DEF Choosing!Keyed
      <2>3. [e.key EXCEPT !["openai"] = key] \in [Choosing!Keyed -> Choosing!Keyed \union {None}]
            BY <1>0, <2>2
      <2> HIDE DEF key
      <2>4. f \in Environments /\ f.key["openrouter"] = e.key["openrouter"]
            BY <1>0, <2>1, <2>3 DEF Environments, Choosing!Keyed
      <2>5. QED
            BY <1>1, <2>4 DEF OwnVariables
<1>2. CASE c.provider = "ollama"
      <2>1. f = [e EXCEPT !.ollamaBase = Choosing!OllamaBase(c, e)]
            BY <1>2 DEF Choosing!EnvFor
      <2>2. QED
            BY <1>0, <1>2, <2>1, Basing DEF Environments, OwnVariables
<1>3. CASE c.provider \notin {"openrouter", "ollama"}
      BY <1>3 DEF Choosing!EnvFor, OwnVariables
<1>4. QED
      BY <1>1, <1>2, <1>3

(* A client has its three fields.                                          *)
LEMMA ClientShape ==
    ASSUME NEW prefix, NEW e
    PROVE  LET new == Choosing!Client(prefix, e) IN new = [to |-> new.to, key |-> new.key, fresh |-> new.fresh]
BY DEF Choosing!Client

(* A new agent asks the provider of its configuration, with its key.       *)
LEMMA AgentBuilt ==
    ASSUME NEW c \in Configurations, NEW e, NEW stored, OwnVariables(e, entered), Choosing!BuildAgent(c, e, stored)
    PROVE  /\ config' \in Configurations /\ config'.provider \in entered'
           /\ OwnVariables(env', entered') /\ Built'
           /\ client' = [to |-> client'.to, key |-> client'.key, fresh |-> client'.fresh]
<1>0. client' = [to |-> client'.to, key |-> client'.key, fresh |-> client'.fresh]
      BY ClientShape DEF Choosing!BuildAgent
<1>1. /\ config' = Choosing!ConfigFor(c, e) /\ env' = Choosing!EnvFor(c, e, stored)
      /\ client' = Choosing!Client(c.provider, env') /\ entered' = entered \union {c.provider}
      BY DEF Choosing!BuildAgent
<1>2. e \in Environments /\ c.provider \in Choosing!Providers
      BY DEF OwnVariables, Configurations
<1>3. /\ config' \in Configurations /\ config'.provider = c.provider
      /\ c.provider = "openrouter" => config'.base = "openrouter"
      /\ c.provider = "ollama" => config'.base = Choosing!OllamaBase(c, e)
      BY <1>1, <1>2, Configuring
<1>4. /\ OwnVariables(env', entered')
      /\ c.provider = "ollama" => env'.ollamaBase = Choosing!OllamaBase(c, e)
      BY <1>1, EnvOwns
<1>5. CASE c.provider = "openrouter"
      <2>1. client'.to = "openrouter" /\ client'.key = env'.key["openrouter"]
            BY <1>1, <1>5 DEF Choosing!Client, Choosing!Keyed
      <2>2. QED
            BY <1>0, <1>1, <1>3, <1>4, <1>5, <2>1 DEF Built, OwnVariables, Bases
<1>6. CASE c.provider = "ollama"
      <2>1. client'.to = env'.ollamaBase /\ client'.key = None
            BY <1>1, <1>6 DEF Choosing!Client, Choosing!Keyed
      <2>2. config'.base \in Bases
            BY <1>2, <1>3, <1>6, Basing
      <2>3. QED
            BY <1>0, <1>1, <1>3, <1>4, <1>6, <2>1, <2>2 DEF Built
<1>7. CASE c.provider = "openai"
      <2>1. /\ client'.to = IF env'.openaiBase = None THEN "openai" ELSE env'.openaiBase
            /\ client'.key = env'.key["openai"]
            BY <1>1, <1>7 DEF Choosing!Client, Choosing!Keyed
      <2>2. QED
            BY <1>0, <1>1, <1>3, <1>4, <1>7, <2>1 DEF Built, OwnVariables
<1>8. QED
      BY <1>0, <1>2, <1>5, <1>6, <1>7 DEF Choosing!Providers, Choosing!Keyed

(* What is loaded is a configuration, whatever the file has.               *)
LEMMA ConfigLoaded ==
    ASSUME ProviderInv, NEW override \in Choosing!Override
    PROVE  Choosing!Loaded(override) \in Configurations
<1>1. Choosing!Default \in Configurations
      BY DEF Choosing!Default, Configurations, Choosing!Providers, Choosing!Keyed, Choosing!Models, Bases
<1>2. (IF configFile \in {None, Emptied} THEN Choosing!Default ELSE configFile) \in Configurations
      BY <1>1 DEF ProviderInv
<1>3. ASSUME NEW c \in Configurations PROVE Choosing!Overridden(c, override) \in Configurations
      BY DEF Choosing!Overridden, Choosing!Override, Configurations
<1>4. QED
      BY <1>2, <1>3 DEF Choosing!Loaded

(* The invariant holds at the start.                                       *)
LEMMA ProviderStart == Choosing!ProviderInit => ProviderInv
<1> SUFFICES ASSUME Choosing!ProviderInit PROVE ProviderInv
    OBVIOUS
<1>1. OwnVariables(env, entered)
      BY ShellOwns DEF Choosing!ProviderInit
<1>2. QED
      BY <1>1, NoCommandType DEF Choosing!ProviderInit, ProviderInv

(* Every step keeps it.                                                    *)
LEMMA ProviderStep == ASSUME ProviderInv, Choosing!ProviderNext PROVE ProviderInv'
<1>0. command \in Commands
      BY DEF ProviderInv
<1>1. ASSUME NEW o \in Choosing!Override, Choosing!Start(o) PROVE ProviderInv'
      <2> DEFINE c == Choosing!Loaded(o)
      <2>1. Choosing!BuildAgent(c, Choosing!WithKey(env, c.provider, apiKeys), apiKeys)
            BY <1>1 DEF Choosing!Start
      <2>2. UNCHANGED <<configFile, apiKeys, command>>
            BY <1>1 DEF Choosing!Start
      <2>3. c \in Configurations
            BY ConfigLoaded
      <2> HIDE DEF c
      <2>4. OwnVariables(Choosing!WithKey(env, c.provider, apiKeys), entered)
            BY KeyOwns DEF ProviderInv
      <2>5. QED
            BY <2>1, <2>2, <2>3, <2>4, AgentBuilt DEF ProviderInv
<1>2. ASSUME NEW p \in Choosing!Providers, NEW ok \in BOOLEAN, Choosing!Wizard(p, ok) PROVE ProviderInv'
      <2>0. PICK given1 \in BOOLEAN :
               \E stored :
                  LET c == IF given1 THEN [Choosing!Default EXCEPT !.provider = p] ELSE Choosing!Default
                      e == IF given1 THEN Choosing!WithKey(env, p, stored) ELSE env IN
                  /\ configFile' = IF given1 THEN c ELSE None
                  /\ Choosing!BuildAgent(c, Choosing!WithKey(e, c.provider, stored), stored)
                  /\ command' = command
            BY <1>2 DEF Choosing!Wizard
      <2>1. PICK stored :
               LET c == IF given1 THEN [Choosing!Default EXCEPT !.provider = p] ELSE Choosing!Default
                   e == IF given1 THEN Choosing!WithKey(env, p, stored) ELSE env IN
               /\ configFile' = IF given1 THEN c ELSE None
               /\ Choosing!BuildAgent(c, Choosing!WithKey(e, c.provider, stored), stored)
               /\ command' = command
            BY <2>0
      <2> DEFINE c == IF given1 THEN [Choosing!Default EXCEPT !.provider = p] ELSE Choosing!Default
                 e == IF given1 THEN Choosing!WithKey(env, p, stored) ELSE env
      <2>2. c \in Configurations
            BY DEF Choosing!Default, Configurations, Choosing!Providers, Choosing!Keyed, Choosing!Models, Bases
      <2>3. OwnVariables(e, entered)
            BY KeyOwns DEF ProviderInv
      <2>4. /\ configFile' = c \/ configFile' = None
            /\ Choosing!BuildAgent(c, Choosing!WithKey(e, c.provider, stored), stored)
            /\ command' = command
            BY <2>1
      <2> HIDE DEF c, e
      <2>5. QED
            BY <2>2, <2>3, <2>4, KeyOwns, AgentBuilt DEF ProviderInv
<1>3. ASSUME NEW p \in Choosing!Providers, Choosing!ModelProvider(p) PROVE ProviderInv'
      <2>1. /\ config # None /\ command.pc = "idle" /\ UNCHANGED <<configFile, config, env, client, entered>>
            /\ command' \in Commands /\ command'.pc \in {"key", "change"} /\ command'.provider = p
            BY <1>3 DEF Choosing!ModelProvider, Choosing!NoCommand, Commands
      <2>2. QED
            BY <2>1 DEF ProviderInv, Built
<1>4. ASSUME NEW ok \in BOOLEAN, Choosing!TypeKey(ok) PROVE ProviderInv'
      <2>1. command.pc = "key" /\ UNCHANGED <<configFile, config, client, entered>>
            BY <1>4 DEF Choosing!TypeKey
      <2>2. CASE ok
            <3>1. /\ env' = Choosing!WithKey(env, command.provider, apiKeys')
                  /\ command' = [command EXCEPT !.pc = "change"]
                  BY <1>4, <2>2 DEF Choosing!TypeKey
            <3>2. OwnVariables(env', entered')
                  BY <2>1, <3>1, KeyOwns DEF ProviderInv
            <3>3. command' \in Commands /\ command'.pc = "change" /\ command'.provider = command.provider
                  BY <1>0, <3>1 DEF Commands
            <3>4. QED
                  BY <2>1, <3>2, <3>3 DEF ProviderInv, Built
      <2>3. CASE ~ok
            BY <1>4, <2>1, <2>3, NoCommandType DEF Choosing!TypeKey, ProviderInv, Built
      <2>4. QED
            BY <2>2, <2>3
<1>5. ASSUME Choosing!ChangeProvider PROVE ProviderInv'
      <2> DEFINE p == command.provider
                 c == [provider |-> p, model |-> "local", base |-> IF p = "ollama" THEN "local" ELSE None]
                 e == Choosing!WithKey(env, p, apiKeys)
      <2>1. /\ command.pc = "change" /\ configFile' = configFile /\ command' = [command EXCEPT !.pc = "open"]
            /\ config' = Choosing!ConfigFor(c, e) /\ env' = Choosing!EnvFor(c, e, apiKeys)
            /\ entered' = entered \union {p} /\ client' = client
            BY <1>5 DEF Choosing!ChangeProvider
      <2>2. c \in Configurations /\ c.provider = p
            BY <2>1 DEF ProviderInv, Configurations, Choosing!Models, Bases
      <2>3. OwnVariables(e, entered)
            BY KeyOwns DEF ProviderInv
      <2>4. e \in Environments
            BY <2>3 DEF OwnVariables
      <2> HIDE DEF c, e
      <2>5. OwnVariables(env', entered') /\ config' \in Configurations /\ config'.provider = p
            BY <2>1, <2>2, <2>3, <2>4, EnvOwns, Configuring
      <2>6. command' \in Commands /\ command'.pc = "open"
            BY <1>0, <2>1 DEF Commands
      <2>7. QED
            BY <2>1, <2>5, <2>6 DEF ProviderInv
<1>6. ASSUME NEW m \in Choosing!Models, Choosing!ModelName(m) PROVE ProviderInv'
      <2>1. /\ config # None /\ command.pc = "idle" /\ UNCHANGED <<configFile, config, env, client, entered>>
            /\ command' \in Commands /\ command'.pc \in {"pull", "model"} /\ command'.model = m
            BY <1>6 DEF Choosing!ModelName, Choosing!NoCommand, Commands
      <2>2. QED
            BY <2>1 DEF ProviderInv, Built
<1>7. ASSUME NEW ok \in BOOLEAN, Choosing!Pull(ok) PROVE ProviderInv'
      <2>1. /\ command.pc = "pull" /\ UNCHANGED <<configFile, config, env, client, entered>>
            /\ command' = IF ok THEN [command EXCEPT !.pc = "model"] ELSE Choosing!NoCommand
            BY <1>7 DEF Choosing!Pull
      <2>2. /\ command' \in Commands /\ command'.pc \in {"idle", "model"}
            /\ command'.pc = "model" => command'.model = command.model
            BY <1>0, <2>1, NoCommandType DEF Commands
      <2>3. QED
            BY <2>1, <2>2 DEF ProviderInv, Built
<1>8. ASSUME Choosing!ChangeModel PROVE ProviderInv'
      <2> DEFINE c == [config EXCEPT !.model = command.model]
      <2>1. /\ command.pc = "model" /\ configFile' = configFile /\ command' = [command EXCEPT !.pc = "open"]
            /\ config' = Choosing!ConfigFor(c, env) /\ env' = Choosing!EnvFor(c, env, apiKeys)
            /\ entered' = entered /\ client' = client
            BY <1>8 DEF Choosing!ChangeModel
      <2>2. c \in Configurations /\ c.provider = config.provider
            BY <2>1 DEF ProviderInv, Configurations
      <2>3. OwnVariables(env, entered) /\ env \in Environments
            BY DEF ProviderInv, OwnVariables
      <2>4. config.provider \in entered
            BY <2>1 DEF ProviderInv
      <2> HIDE DEF c
      <2>5. /\ OwnVariables(env', entered \union {c.provider})
            /\ config' \in Configurations /\ config'.provider = config.provider
            BY <2>1, <2>2, <2>3, EnvOwns, Configuring
      <2>6. entered \union {c.provider} = entered'
            BY <2>1, <2>2, <2>4
      <2>7. command' \in Commands /\ command'.pc = "open"
            BY <1>0, <2>1 DEF Commands
      <2>8. QED
            BY <2>1, <2>4, <2>5, <2>6, <2>7 DEF ProviderInv
<1>9. ASSUME Choosing!SaveAndReload PROVE ProviderInv'
      <2>1. /\ command.pc = "write" /\ configFile' = config /\ command' = Choosing!NoCommand
            /\ Choosing!BuildAgent(config, env, apiKeys)
            BY <1>9 DEF Choosing!SaveAndReload
      <2>2. config \in Configurations
            BY <2>1 DEF ProviderInv
      <2>3. OwnVariables(env, entered)
            BY DEF ProviderInv
      <2>4. QED
            BY <2>1, <2>2, <2>3, AgentBuilt, NoCommandType DEF ProviderInv
<1>10. ASSUME NEW o \in Choosing!Override, NEW p \in Choosing!Providers, NEW b \in {"local", "cloud"},
              Choosing!ConfigSet(o, p, b)
       PROVE  ProviderInv'
      <2> DEFINE c == Choosing!Loaded(o)
      <2>1. /\ configFile' \in {Emptied, [c EXCEPT !.provider = p], [c EXCEPT !.base = b]}
            /\ UNCHANGED <<config, env, client, command, entered>>
            BY <1>10 DEF Choosing!ConfigSet
      <2>2. c \in Configurations
            BY ConfigLoaded
      <2>3. [c EXCEPT !.provider = p] \in Configurations /\ [c EXCEPT !.base = b] \in Configurations
            BY <2>2 DEF Configurations, Bases
      <2> HIDE DEF c
      <2>4. QED
            BY <2>1, <2>3 DEF ProviderInv, Built
<1>11. ASSUME NEW keys \in SUBSET Choosing!Keyed, NEW shell \in {None, "local", "cloud"}, Choosing!Exit(keys, shell)
       PROVE  ProviderInv'
      <2>1. /\ config' = None /\ command' = Choosing!NoCommand /\ env' = Choosing!ShellEnv(keys, shell)
            /\ configFile' = configFile
            BY <1>11 DEF Choosing!Exit
      <2>2. QED
            BY <2>1, ShellOwns, NoCommandType DEF ProviderInv
<1>12. ASSUME Choosing!OpenFile PROVE ProviderInv'
      <2>1. /\ command.pc = "open" /\ configFile' = Emptied /\ command' = [command EXCEPT !.pc = "write"]
            /\ UNCHANGED <<config, env, client, entered>>
            BY <1>12 DEF Choosing!OpenFile
      <2>2. command' \in Commands /\ command'.pc = "write"
            BY <1>0, <2>1 DEF Commands
      <2>3. QED
            BY <2>1, <2>2 DEF ProviderInv
<1>13. ASSUME Choosing!SaveFails PROVE ProviderInv'
      <2>1. /\ command.pc \in {"open", "write"} /\ command' = Choosing!NoCommand
            /\ client' = [client EXCEPT !.fresh = FALSE] /\ UNCHANGED <<configFile, config, env, entered>>
            BY <1>13 DEF Choosing!SaveFails
      <2>2. QED
            BY <2>1, NoCommandType DEF ProviderInv, Built
<1>14. ASSUME NEW p \in Choosing!Providers, Choosing!WizardFails(p) PROVE ProviderInv'
      <2>1. config = None /\ configFile' \in {None, Emptied} /\ UNCHANGED <<config, env, client, command, entered>>
            BY <1>14 DEF Choosing!WizardFails
      <2>2. QED
            BY <2>1 DEF ProviderInv, Built
<1>15. ASSUME Choosing!SaveSetting PROVE ProviderInv'
      BY <1>15 DEF Choosing!SaveSetting, ProviderInv, Built
<1>16. QED
      BY <1>1, <1>2, <1>3, <1>4, <1>5, <1>6, <1>7, <1>8, <1>9, <1>10, <1>11, <1>12, <1>13, <1>14, <1>15 DEF Choosing!ProviderNext

(* It says what is promised.                                               *)
LEMMA ProviderKept == ProviderInv => Choosing!GoesWhereShown
<1> SUFFICES ASSUME ProviderInv, Choosing!Idle, client.fresh
             PROVE  LET own == config.provider # "openai" \/ "openrouter" \notin entered IN
                    /\ own => client.key \in {config.provider, None}
                    /\ own /\ (config.provider # "openai" \/ config.base = None) => client.to = Choosing!Shown
                    /\ own /\ config.provider = "openai" => client.to = "openai"
    BY DEF Choosing!GoesWhereShown
<1>1. config \in Configurations /\ Built
      BY DEF ProviderInv, Choosing!Idle
<1>2. config.provider \in {"openai", "openrouter", "ollama"}
      BY <1>1 DEF Configurations, Choosing!Providers, Choosing!Keyed
<1>3. QED
      BY <1>1, <1>2, BaseAssumption DEF Built, Choosing!Shown, Bases

(* Steps of other parts keep it.                                           *)
LEMMA ProviderStays == ASSUME ProviderInv, UNCHANGED providerVars PROVE ProviderInv'
BY DEF ProviderInv, providerVars, OwnVariables, Built

-----------------------------------------------------------------------------
(* Routing: the verdict on a task.                                         *)
(* Before a task has been routed, the agent has been told nothing of it.   *)
RoutingInv ==
    /\ task.pc \in {"idle", "extract", "extracted", "routed", "ask"}
    /\ task = [pc |-> task.pc, text |-> task.text, result |-> task.result, flagged |-> task.flagged,
               answered |-> task.answered]
    /\ task.pc \in {"idle", "extract", "extracted"} => center = None
    /\ task.pc \in {"extract", "extracted", "routed", "ask"} => task.text \in Classifying!Tasks
    /\ task.pc \in {"idle", "extract"} => task.result = None
    /\ Classifying!UnansweredIsSafe

(* The rules take for a change only what has more words for one.           *)
LEMMA RulesAreSafe ==
    ASSUME NEW t \in Classifying!Tasks, t.operation = None
    PROVE  /\ Classifying!Regex(t).mode = "remediation" => t.change > t.diag
           /\ Classifying!Regex(t).destructive = t.deletes
<1>1. t.change \in 0..2 /\ t.diag \in 0..2 /\ t.deletes \in BOOLEAN
      BY DEF Classifying!Tasks
<1>2. t.operation \notin {"provision", "update", "destroy", "plan"}
      BY OperationAssumption
<1>3. /\ Classifying!Regex(t).mode = Classifying!Center(t.change + 0, t.diag + 0)
      /\ Classifying!Regex(t).destructive = (t.deletes \/ t.operation = "destroy")
      BY <1>2 DEF Classifying!Regex, Classifying!Verdict
<1>4. QED
      BY <1>1, <1>2, <1>3 DEF Classifying!Center

(* The invariant holds at the start.                                       *)
LEMMA RoutingStart == Classifying!RoutingInit => RoutingInv
BY DEF Classifying!RoutingInit, RoutingInv, Classifying!NoTask, Classifying!UnansweredIsSafe

(* Every step keeps it.                                                    *)
LEMMA RoutingStep == ASSUME RoutingInv, Classifying!RoutingNext PROVE RoutingInv'
<1> USE DEF RoutingInv, Classifying!UnansweredIsSafe
<1>1. ASSUME NEW t \in Classifying!Tasks, Classifying!Route(t) PROVE RoutingInv'
      <2>1. CASE t.fast
            BY <1>1, <2>1 DEF Classifying!Route, Classifying!NoTask, Classifying!Verdict
      <2>2. CASE ~t.fast
            BY <1>1, <2>2 DEF Classifying!Route, Classifying!NoTask
      <2>3. QED
            BY <2>1, <2>2
<1>2. ASSUME NEW ok \in BOOLEAN, Classifying!Initialize(ok) PROVE RoutingInv'
      BY <1>2 DEF Classifying!Initialize
<1>3. ASSUME NEW v \in Classifying!Verdicts, Classifying!ExtractByModel(v) PROVE RoutingInv'
      BY <1>3 DEF Classifying!ExtractByModel, Classifying!Extracted
<1>4. ASSUME Classifying!ExtractByRules PROVE RoutingInv'
      <2> DEFINE v == Classifying!Regex(task.text)
      <2>1. /\ task.pc = "extract" /\ center' = center
            /\ task' = [task EXCEPT !.pc = "extracted", !.result = v, !.flagged = Classifying!Flags(v),
                                    !.answered = FALSE]
            BY <1>4 DEF Classifying!ExtractByRules, Classifying!Extracted
      <2>2. task.text.operation = None =>
               /\ v.mode = "remediation" => task.text.change > task.text.diag
               /\ v.destructive = task.text.deletes
            BY <2>1, RulesAreSafe
      <2> HIDE DEF v
      <2>3. QED
            BY <2>1, <2>2
<1>5. ASSUME NEW mode \in Classifying!Modes, Classifying!AskFallback(mode) PROVE RoutingInv'
      BY <1>5 DEF Classifying!AskFallback, Classifying!Verdict
<1>6. ASSUME Classifying!KeepVerdict \/ Classifying!Command PROVE RoutingInv'
      BY <1>6 DEF Classifying!KeepVerdict, Classifying!Command
<1>7. ASSUME Classifying!Answer \/ Classifying!EndTask PROVE RoutingInv'
      BY <1>7 DEF Classifying!Answer, Classifying!EndTask, Classifying!NoTask
<1>8. ASSUME NEW mode \in {"diagnostic", "remediation"}, NEW sure \in {40, 60, 90} \union {None},
             Classifying!Classify(mode, sure)
      PROVE  RoutingInv'
      <2>1. task.pc = "routed" /\ task' = task
            BY <1>8 DEF Classifying!Classify
      <2>2. ~center'.answered => center'.mode = Classifying!Center(task.text.change, task.text.diag)
            BY <1>8 DEF Classifying!Classify
      <2>3. task.text.change \in 0..2 /\ task.text.diag \in 0..2
            BY <2>1 DEF Classifying!Tasks
      <2>4. ~center'.answered /\ center'.mode = "remediation" => task.text.change > task.text.diag
            BY <2>2, <2>3 DEF Classifying!Center
      <2>5. QED
            BY <2>1, <2>4
<1>9. QED
      BY <1>1, <1>2, <1>3, <1>4, <1>5, <1>6, <1>7, <1>8 DEF Classifying!RoutingNext

(* It says what is promised.                                               *)
LEMMA RoutingKept == RoutingInv => Classifying!UnansweredIsSafe
BY DEF RoutingInv

(* Steps of other parts keep it.                                           *)
LEMMA RoutingStays == ASSUME RoutingInv, UNCHANGED routingVars PROVE RoutingInv'
BY DEF RoutingInv, routingVars, Classifying!UnansweredIsSafe

-----------------------------------------------------------------------------
(* Questions: whose answer a call gets.                                    *)
(* An answer is the words it was given for, their form and a number.       *)
Given(w, form, a) ==
    /\ a[3] # 0 => a \in typed
    /\ a[1] = w
    /\ a[2] = "secret" => form = "secret"
    /\ form = "confirm" => a[2] = "confirm"
    /\ form = "choice" <=> a[2] = "choice"

(* What is kept was typed, or is the default, for its words, in the open or*)
(* as a choice; what a call has been answered was typed for it.            *)
KeptAnswer(w, choice, a) == \E form \in {"open", "choice"} : \E n :
    /\ a = <<w, form, n>> /\ (form = "choice" <=> choice)
    /\ n # 0 => a \in typed

KeptInv == \A f \in Words \X BOOLEAN : responses[f] # None => KeptAnswer(f[1], f[2], responses[f])
CallInv(c) ==
    /\ call[c].pc \in {"waiting", "asking", "answered"} =>
          call[c].words \in Words /\ call[c].kind \in Asking!Kinds
    /\ call[c].pc = "answered" => /\ \E n : call[c].default = <<call[c].words, call[c].kind, n>>
                                  /\ call[c].default \in typed
GivenInv(c) == given[c] # None /\ Len(given[c]) = 4 => Given(given[c][1], given[c][2], given[c][4])

QuestionsInv ==
    /\ DOMAIN responses = Words \X BOOLEAN /\ responses = [f \in DOMAIN responses |-> responses[f]]
    /\ call = [c \in Callers |-> call[c]] /\ given = [c \in Callers |-> given[c]]
    /\ KeptInv
    /\ \A c \in Callers : CallInv(c) /\ GivenInv(c)

(* The invariant holds at the start.                                       *)
LEMMA QuestionsStart == Asking!QuestionsInit => QuestionsInv
BY DEF Asking!QuestionsInit, QuestionsInv, KeptInv, CallInv, GivenInv, Asking!Fingerprints, Asking!NoCall

(* What was typed stays typed, so kept answers stay what they are.         *)
LEMMA StaysKept ==
    ASSUME NEW w, NEW choice, NEW a, typed \subseteq typed', KeptAnswer(w, choice, a)
    PROVE  KeptAnswer(w, choice, a)'
BY DEF KeptAnswer

(* And so do those that were given.                                        *)
LEMMA StaysGiven ==
    ASSUME NEW w, NEW form, NEW a, typed \subseteq typed', Given(w, form, a)
    PROVE  Given(w, form, a)'
BY DEF Given

(* A step of one caller leaves what the others have.                       *)
LEMMA OthersStay ==
    ASSUME QuestionsInv, typed \subseteq typed', NEW d \in Callers, call'[d] = call[d], given'[d] = given[d]
    PROVE  CallInv(d)' /\ GivenInv(d)'
<1>1. CallInv(d) /\ GivenInv(d)
      BY DEF QuestionsInv
<1>2. CallInv(d)'
      BY <1>1 DEF CallInv
<1>3. GivenInv(d)'
      <2> SUFFICES ASSUME given[d] # None /\ Len(given[d]) = 4
                   PROVE  Given(given[d][1], given[d][2], given[d][4])'
          BY DEF GivenInv
      <2>1. Given(given[d][1], given[d][2], given[d][4])
            BY <1>1 DEF GivenInv
      <2>2. QED
            BY <2>1 DEF Given
<1>4. QED
      BY <1>2, <1>3

(* And what is kept, while it adds nothing to it.                          *)
LEMMA KeptStay ==
    ASSUME KeptInv, typed \subseteq typed', responses' = responses
    PROVE  KeptInv'
BY StaysKept DEF KeptInv

(* A call comes to a question, or on with it.                              *)
LEMMA Called ==
    ASSUME QuestionsInv, NEW c \in Callers, NEW q, call' = [call EXCEPT ![c] = q],
           UNCHANGED <<responses, given>>, typed \subseteq typed', CallInv(c)'
    PROVE  QuestionsInv'
<1>1. /\ call' = [d \in Callers |-> call'[d]] /\ \A d \in Callers \ {c} : call'[d] = call[d]
      BY DEF QuestionsInv
<1>2. \A d \in Callers : GivenInv(d)'
      <2> TAKE d \in Callers
      <2>1. GivenInv(d)
            BY DEF QuestionsInv
      <2>2. QED
            BY <2>1, StaysGiven DEF GivenInv
<1>3. KeptInv'
      BY KeptStay DEF QuestionsInv
<1>4. \A d \in Callers \ {c} : CallInv(d)'
      BY <1>1, OthersStay
<1>5. QED
      BY <1>1, <1>2, <1>3, <1>4 DEF QuestionsInv

(* A call returns: with a message of three parts, or with an answer.       *)
LEMMA Returned ==
    ASSUME QuestionsInv, NEW c \in Callers, NEW answer, Asking!Return(c, answer), typed' = typed,
           DOMAIN responses' = Words \X BOOLEAN /\ responses' = [f \in DOMAIN responses' |-> responses'[f]],
           KeptInv', Len(answer) = 4 => Given(answer[1], answer[2], answer[4])
    PROVE  QuestionsInv'
<1>1. /\ call' = [d \in Callers |-> call'[d]] /\ given' = [d \in Callers |-> given'[d]]
      /\ call'[c].pc = "idle" /\ given'[c] = answer
      /\ \A d \in Callers \ {c} : call'[d] = call[d] /\ given'[d] = given[d]
      BY DEF Asking!Return, Asking!NoCall, QuestionsInv
<1>2. CallInv(c)'
      BY <1>1 DEF CallInv
<1>3. GivenInv(c)'
      BY <1>1, StaysGiven DEF GivenInv
<1>4. \A d \in Callers \ {c} : CallInv(d)' /\ GivenInv(d)'
      BY <1>1, OthersStay
<1>5. QED
      BY <1>1, <1>2, <1>3, <1>4 DEF QuestionsInv

(* What is kept from now on under the words of a question.                 *)
LEMMA KeptNow ==
    ASSUME QuestionsInv, NEW w \in Words, NEW choice \in BOOLEAN, NEW a, KeptAnswer(w, choice, a),
           responses' = [responses EXCEPT ![<<w, choice>>] = a], typed' = typed
    PROVE  /\ DOMAIN responses' = Words \X BOOLEAN /\ responses' = [f \in DOMAIN responses' |-> responses'[f]]
           /\ KeptInv'
<1>1. /\ DOMAIN responses' = Words \X BOOLEAN /\ responses' = [f \in DOMAIN responses' |-> responses'[f]]
      /\ responses'[<<w, choice>>] = a
      /\ \A f \in Words \X BOOLEAN : f # <<w, choice>> => responses'[f] = responses[f]
      BY DEF QuestionsInv
<1>2. ASSUME NEW f \in Words \X BOOLEAN, responses'[f] # None PROVE KeptAnswer(f[1], f[2], responses[f])'
      <2>1. CASE f = <<w, choice>>
            BY <1>1, <2>1, StaysKept
      <2>2. CASE f # <<w, choice>>
            <3>1. KeptAnswer(f[1], f[2], responses[f])
                  BY <1>1, <1>2, <2>2 DEF QuestionsInv, KeptInv
            <3>2. QED
                  BY <1>1, <2>2, <3>1, StaysKept
      <2>3. QED
            BY <2>1, <2>2
<1>3. QED
      BY <1>1, <1>2 DEF KeptInv

(* Every step keeps it.                                                    *)
LEMMA QuestionsStep == ASSUME QuestionsInv, Asking!QuestionsNext PROVE QuestionsInv'
<1> PICK c \in Callers :
       \/ \E w \in Words : \/ Asking!RequestConfirmation(c, w)
                           \/ \E form \in Asking!Kinds, default \in BOOLEAN : Asking!AskUser(c, w, form, default)
       \/ Asking!Show(c) \/ Asking!Type(c) \/ Asking!Interrupt(c) \/ Asking!Keep(c)
    BY DEF Asking!QuestionsNext
<1>0. CallInv(c) /\ KeptInv /\ DOMAIN call = Callers
      BY DEF QuestionsInv
<1>1. ASSUME NEW w \in Words, NEW form \in Asking!Kinds, NEW default \in BOOLEAN, Asking!Wait(c, w, form, default),
             UNCHANGED <<responses, typed>>
      PROVE  QuestionsInv'
      <2> DEFINE q == [pc |-> "waiting", words |-> w, kind |-> form, default |-> default]
      <2>1. call' = [call EXCEPT ![c] = q] /\ call'[c] = q /\ given' = given
            BY <1>0, <1>1 DEF Asking!Wait
      <2>2. CallInv(c)'
            BY <2>1 DEF CallInv
      <2>3. QED
            BY <1>1, <2>1, <2>2, Called
<1>2. ASSUME NEW w \in Words, NEW form, NEW answer, Asking!Return(c, <<w, form, answer>>), UNCHANGED <<responses, typed>>
      PROVE  QuestionsInv'
      <2>1. Len(<<w, form, answer>>) # 4
            OBVIOUS
      <2>2. /\ DOMAIN responses' = Words \X BOOLEAN /\ responses' = [f \in DOMAIN responses' |-> responses'[f]]
            /\ KeptInv'
            BY <1>2, KeptStay DEF QuestionsInv
      <2>3. QED
            BY <1>2, <2>1, <2>2, Returned
<1>3. ASSUME NEW w \in Words, Asking!RequestConfirmation(c, w) PROVE QuestionsInv'
      <2>1. UNCHANGED <<responses, typed>>
            BY <1>3 DEF Asking!RequestConfirmation
      <2>2. QED
            BY <1>1, <1>2, <1>3, <2>1 DEF Asking!RequestConfirmation, Asking!Kinds
<1>4. ASSUME NEW w \in Words, NEW form \in Asking!Kinds, NEW default \in BOOLEAN,
             Asking!AskUser(c, w, form, default)
      PROVE  QuestionsInv'
      <2> DEFINE f == <<w, form = "choice">>
      <2>1. form # "confirm" /\ typed' = typed /\ f \in Words \X BOOLEAN
            BY <1>4 DEF Asking!AskUser
      <2>2. CASE Asking!Return(c, <<w, form, "answer", responses[f]>>) /\ responses[f] # None /\ responses' = responses
            <3>1. KeptAnswer(w, form = "choice", responses[f])
                  BY <1>0, <2>1, <2>2 DEF KeptInv
            <3>2. Given(w, form, responses[f])
                  BY <2>1, <3>1 DEF KeptAnswer, Given
            <3> DEFINE answer == <<w, form, "answer", responses[f]>>
            <3>3. answer[1] = w /\ answer[2] = form /\ answer[4] = responses[f]
                  OBVIOUS
            <3>4. Given(answer[1], answer[2], answer[4])
                  BY <3>2, <3>3
            <3>5. /\ DOMAIN responses' = Words \X BOOLEAN /\ responses' = [g \in DOMAIN responses' |-> responses'[g]]
                  /\ KeptInv'
                  BY <2>1, <2>2, KeptStay DEF QuestionsInv
            <3> HIDE DEF answer
            <3>6. Asking!Return(c, answer)
                  BY <2>2 DEF answer
            <3>7. QED
                  BY <2>1, <3>4, <3>5, <3>6, Returned
      <2>3. ASSUME NEW answer, Asking!Return(c, <<w, form, answer>>), responses' = responses PROVE QuestionsInv'
            BY <1>2, <2>1, <2>3
      <2>4. CASE /\ Asking!Return(c, <<w, form, "default">>) /\ form = "open"
                 /\ responses' = [responses EXCEPT ![f] = <<w, form, 0>>]
            <3>1. KeptAnswer(w, form = "choice", <<w, form, 0>>)
                  BY <2>4 DEF KeptAnswer
            <3>2. /\ DOMAIN responses' = Words \X BOOLEAN /\ responses' = [g \in DOMAIN responses' |-> responses'[g]]
                  /\ KeptInv'
                  BY <2>1, <2>4, <3>1, KeptNow
            <3>3. Len(<<w, form, "default">>) # 4
                  OBVIOUS
            <3>4. QED
                  BY <2>1, <2>4, <3>2, <3>3, Returned
      <2>5. CASE Asking!Wait(c, w, form, default) /\ responses' = responses
            BY <1>1, <2>1, <2>5
      <2>6. QED
            BY <1>4, <2>2, <2>3, <2>4, <2>5 DEF Asking!AskUser, Asking!Fingerprint, Asking!Default
<1>5. ASSUME Asking!Show(c) PROVE QuestionsInv'
      <2> DEFINE q == [call[c] EXCEPT !.pc = "asking"]
      <2>1. call[c].pc = "waiting" /\ call' = [call EXCEPT ![c] = q] /\ UNCHANGED <<responses, given, typed>>
            BY <1>5 DEF Asking!Show
      <2>2. CallInv(c)'
            BY <1>0, <2>1 DEF CallInv
      <2>3. QED
            BY <2>1, <2>2, Called
<1>6. ASSUME Asking!Type(c) PROVE QuestionsInv'
      <2> DEFINE a == <<call[c].words, call[c].kind, Asking!Cardinality(typed) + 1>>
                 q == [call[c] EXCEPT !.pc = "answered", !.default = a]
      <2>1. call[c].pc = "asking" /\ call' = [call EXCEPT ![c] = q] /\ UNCHANGED <<responses, given>>
            BY <1>6 DEF Asking!Type
      <2>2. typed' = typed \cup {a}
            BY <1>6 DEF Asking!Type
      <2>3. CallInv(c)'
            BY <1>0, <2>1, <2>2 DEF CallInv
      <2>4. QED
            BY <2>1, <2>2, <2>3, Called
<1>7. ASSUME Asking!Interrupt(c) PROVE QuestionsInv'
      <2>1. /\ UNCHANGED <<responses, typed>> /\ Asking!Return(c, <<call[c].words, call[c].kind, "cancelled">>)
            /\ call[c].words \in Words
            BY <1>0, <1>7 DEF Asking!Interrupt, CallInv
      <2>2. QED
            BY <1>2, <2>1
<1>8. ASSUME Asking!Keep(c) PROVE QuestionsInv'
      <2> DEFINE w == call[c].words
                 form == call[c].kind
                 a == call[c].default
                 answer == <<w, form, "answer", a>>
      <2>1. /\ call[c].pc = "answered" /\ Asking!Return(c, answer) /\ typed' = typed
            /\ responses' = IF form \in {"open", "choice"} THEN [responses EXCEPT ![<<w, form = "choice">>] = a]
                            ELSE responses
            BY <1>8 DEF Asking!Keep, Asking!Fingerprint
      <2>2. w \in Words /\ form \in Asking!Kinds /\ a \in typed /\ \E n : a = <<w, form, n>>
            BY <1>0, <2>1 DEF CallInv
      <2>3. Given(w, form, a)
            BY <2>2 DEF Given
      <2>4. form \in {"open", "choice"} => KeptAnswer(w, form = "choice", a)
            BY <2>2 DEF KeptAnswer
      <2>5. /\ DOMAIN responses' = Words \X BOOLEAN /\ responses' = [g \in DOMAIN responses' |-> responses'[g]]
            /\ KeptInv'
            <3>1. CASE form \in {"open", "choice"}
                  BY <2>1, <2>2, <2>4, <3>1, KeptNow
            <3>2. CASE form \notin {"open", "choice"}
                  BY <2>1, <3>2, KeptStay DEF QuestionsInv
            <3>3. QED
                  BY <3>1, <3>2
      <2>6. answer[1] = w /\ answer[2] = form /\ answer[4] = a
            OBVIOUS
      <2>7. Given(answer[1], answer[2], answer[4])
            BY <2>3, <2>6
      <2> HIDE DEF answer
      <2>8. QED
            BY <2>1, <2>5, <2>7, Returned
<1>9. QED
      BY <1>3, <1>4, <1>5, <1>6, <1>7, <1>8

(* It says what is promised.                                               *)
LEMMA QuestionsKept == QuestionsInv => Asking!AnswersAreTheirs
BY DEF QuestionsInv, GivenInv, Asking!AnswersAreTheirs, Given

(* Steps of other parts keep it.                                           *)
LEMMA QuestionsStays == ASSUME QuestionsInv, UNCHANGED questionVars PROVE QuestionsInv'
BY DEF QuestionsInv, questionVars, KeptAnswer, Given, KeptInv, CallInv, GivenInv

-----------------------------------------------------------------------------
(* References: the text of a command, by its pieces.                       *)
(* A character: of what it is, and which one.                             *)
Cell == (Resolving!Refs \union {"word", "address", "typed", "name", "value", "masked"}) \X Nat

Flat(s) == Resolving!FlattenSeq(s)

(* f gives, for each place of s, the text up to it.                        *)
Gathers(f, s) == f = [i \in 1..Len(s) |-> IF i = 1 THEN s[i] ELSE f[i - 1] \o s[i]]

(* FlattenSeq is the last of the texts gathered piece by piece,            *)
LEMMA FlatIs == ASSUME NEW s, Len(s) # 0 PROVE Flat(s) = (CHOOSE f : Gathers(f, s))[Len(s)]
BY DEF Flat, Resolving!FlattenSeq, Gathers

(* and empty without a piece.                                              *)
LEMMA FlatEmpty == Flat(<<>>) = <<>>
BY DEF Flat, Resolving!FlattenSeq

Gathered(f, s, k) == \A i \in 1..k : f[i] = IF i = 1 THEN s[i] ELSE f[i - 1] \o s[i]

(* The texts up to each piece exist.                                       *)
LEMMA GatherExists ==
    ASSUME NEW s \in Seq(Seq(Cell))
    PROVE  \E f \in [1..Len(s) -> Seq(Cell)] : Gathers(f, s)
<1> DEFINE Bad == {k \in 0..Len(s) : ~ \E f \in [1..k -> Seq(Cell)] : Gathered(f, s, k)}
<1>1. SUFFICES Bad = {}
      <2>1. Len(s) \in 0..Len(s)
            OBVIOUS
      <2>2. PICK f \in [1..Len(s) -> Seq(Cell)] : Gathered(f, s, Len(s))
            BY <1>1, <2>1
      <2>3. f = [i \in 1..Len(s) |-> IF i = 1 THEN s[i] ELSE f[i - 1] \o s[i]]
            BY <2>2 DEF Gathered
      <2>4. QED
            BY <2>2, <2>3 DEF Gathers
<1>2. SUFFICES ASSUME Bad # {} PROVE FALSE
      OBVIOUS
<1>3. PICK k \in Bad : \A j \in Bad : k <= j
      <2>1. Bad \in SUBSET Nat
            OBVIOUS
      <2>2. QED
            BY <1>2, <2>1, Least
<1>4. k # 0
      <2>1. ASSUME k = 0 PROVE FALSE
            <3> DEFINE f == [i \in 1..0 |-> <<>>]
            <3>1. f \in [1..0 -> Seq(Cell)] /\ Gathered(f, s, 0)
                  BY DEF Gathered
            <3>2. QED
                  BY <2>1, <3>1
      <2>2. QED
            BY <2>1
<1>5. k \in 1..Len(s) /\ k - 1 \in 0..Len(s) /\ k - 1 \notin Bad
      <2>1. k \in 0..Len(s) /\ Len(s) \in Nat
            BY <1>3
      <2>2. k \in 1..Len(s) /\ k - 1 \in 0..Len(s) /\ ~(k <= k - 1)
            BY <1>4, <2>1
      <2>3. QED
            BY <1>3, <2>2
<1>6. PICK f \in [1..(k - 1) -> Seq(Cell)] : Gathered(f, s, k - 1)
      BY <1>5
<1> DEFINE final == IF k = 1 THEN s[k] ELSE f[k - 1] \o s[k]
           g == [i \in 1..k |-> IF i = k THEN final ELSE f[i]]
<1>7. final \in Seq(Cell)
      <2>1. s[k] \in Seq(Cell)
            BY <1>5
      <2>2. k # 1 => f[k - 1] \in Seq(Cell)
            BY <1>5, <1>6
      <2>3. QED
            BY <2>1, <2>2
<1>8. g \in [1..k -> Seq(Cell)]
      BY <1>5, <1>6, <1>7
<1>9. ASSUME NEW i \in 1..k PROVE g[i] = IF i = 1 THEN s[i] ELSE g[i - 1] \o s[i]
      <2>1. CASE i = k
            <3>1. k # 1 => g[k - 1] = f[k - 1]
                  BY <1>5
            <3>2. QED
                  BY <2>1, <3>1
      <2>2. CASE i # k
            <3>1. i \in 1..(k - 1) /\ g[i] = f[i] /\ (i # 1 => g[i - 1] = f[i - 1])
                  BY <1>5, <2>2
            <3>2. QED
                  BY <1>6, <3>1 DEF Gathered
      <2>3. QED
            BY <2>1, <2>2
<1>10. QED
      BY <1>3, <1>8, <1>9 DEF Gathered

(* Texts of pieces that begin alike begin alike.                           *)
LEMMA GatherUnique ==
    ASSUME NEW s, NEW t, NEW f, NEW g, NEW k \in Nat, k <= Len(s), k <= Len(t), Len(s) \in Nat, Len(t) \in Nat,
           \A i \in 1..k : s[i] = t[i], Gathers(f, s), Gathers(g, t)
    PROVE  \A i \in 1..k : f[i] = g[i]
<1> DEFINE Bad == {i \in 1..k : f[i] # g[i]}
<1>1. SUFFICES ASSUME Bad # {} PROVE FALSE
      OBVIOUS
<1>2. PICK i \in Bad : \A j \in Bad : i <= j
      <2>1. Bad \in SUBSET Nat
            OBVIOUS
      <2>2. QED
            BY <1>1, <2>1, Least
<1>3. /\ i \in 1..Len(s) /\ i \in 1..Len(t) /\ s[i] = t[i]
      /\ f[i] = IF i = 1 THEN s[i] ELSE f[i - 1] \o s[i]
      /\ g[i] = IF i = 1 THEN t[i] ELSE g[i - 1] \o t[i]
      <2>1. i \in 1..Len(s) /\ i \in 1..Len(t) /\ s[i] = t[i]
            BY <1>2
      <2>2. f[i] = IF i = 1 THEN s[i] ELSE f[i - 1] \o s[i]
            BY <2>1 DEF Gathers
      <2>3. g[i] = IF i = 1 THEN t[i] ELSE g[i - 1] \o t[i]
            BY <2>1 DEF Gathers
      <2>4. QED
            BY <2>1, <2>2, <2>3
<1>4. i # 1 => f[i - 1] = g[i - 1]
      <2>1. i \in 1..k
            BY <1>2
      <2>2. ASSUME i # 1, f[i - 1] # g[i - 1] PROVE FALSE
            <3>1. i - 1 \in Bad
                  BY <2>1, <2>2
            <3>2. QED
                  BY <1>2, <2>1, <3>1
      <2>3. QED
            BY <2>2
<1>5. QED
      BY <1>2, <1>3, <1>4

UpTo(s, k) == Flat(SubSeq(s, 1, k))

(* A text grows by a piece at a time.                                      *)
LEMMA Grows ==
    ASSUME NEW s \in Seq(Seq(Cell))
    PROVE  /\ \A k \in 0..Len(s) : UpTo(s, k) \in Seq(Cell)
           /\ UpTo(s, 0) = <<>> /\ UpTo(s, Len(s)) = Flat(s)
           /\ \A k \in 1..Len(s) : UpTo(s, k) = UpTo(s, k - 1) \o s[k]
<1>1. PICK f \in [1..Len(s) -> Seq(Cell)] : Gathers(f, s)
      BY GatherExists
<1>2. UpTo(s, 0) = <<>>
      <2>1. SubSeq(s, 1, 0) = <<>>
            BY SubSeqEmpty
      <2>2. QED
            BY <2>1, FlatEmpty DEF UpTo
<1>3. UpTo(s, Len(s)) = Flat(s)
      BY SubSeqFull DEF UpTo
<1>4. ASSUME NEW k \in 1..Len(s) PROVE UpTo(s, k) = f[k]
      <2> DEFINE t == SubSeq(s, 1, k)
      <2>1. k \in Nat \ {0} /\ Len(s) \in Nat /\ k <= Len(s)
            OBVIOUS
      <2>2. t \in Seq(Seq(Cell)) /\ Len(t) = k /\ \A i \in 1..k : t[i] = s[i]
            BY <2>1
      <2> HIDE DEF t
      <2>3. PICK g \in [1..Len(t) -> Seq(Cell)] : Gathers(g, t)
            BY <2>2, GatherExists
      <2> DEFINE h == CHOOSE h : Gathers(h, t)
      <2>4. Gathers(h, t)
            BY <2>3
      <2>5. Flat(t) = h[Len(t)]
            BY <2>1, <2>2, FlatIs
      <2> HIDE DEF h
      <2>6. \A i \in 1..k : h[i] = f[i]
            <3>1. k <= Len(t) /\ Len(t) \in Nat /\ k \in Nat
                  BY <2>1, <2>2
            <3>2. k <= Len(s) /\ Len(s) \in Nat /\ \A i \in 1..k : t[i] = s[i]
                  BY <2>1, <2>2
            <3>3. QED
                  BY <1>1, <2>4, <3>1, <3>2, GatherUnique, SMTT(30)
      <2>7. QED
            BY <2>1, <2>2, <2>5, <2>6 DEF UpTo, t
<1>5. ASSUME NEW k \in 1..Len(s) PROVE UpTo(s, k) = UpTo(s, k - 1) \o s[k]
      <2>1. f[k] = IF k = 1 THEN s[k] ELSE f[k - 1] \o s[k]
            BY <1>1 DEF Gathers
      <2>2. CASE k = 1
            <3>1. s[1] \in Seq(Cell)
                  BY <2>2
            <3>2. <<>> \o s[1] = s[1]
                  BY <3>1, ConcatEmptySeq
            <3>3. UpTo(s, k) = s[1] /\ UpTo(s, k - 1) = <<>>
                  BY <1>2, <1>4, <2>1, <2>2
            <3>4. QED
                  BY <2>2, <3>2, <3>3
      <2>3. CASE k # 1
            <3>1. k - 1 \in 1..Len(s)
                  BY <2>3
            <3>2. QED
                  BY <1>4, <2>1, <2>3, <3>1
      <2>4. QED
            BY <2>2, <2>3
<1>6. ASSUME NEW k \in 0..Len(s) PROVE UpTo(s, k) \in Seq(Cell)
      <2>1. CASE k = 0
            BY <1>2, <2>1, EmptySeq
      <2>2. CASE k # 0
            <3>1. k \in 1..Len(s)
                  BY <2>2
            <3>2. QED
                  BY <1>1, <1>4, <3>1
      <2>3. QED
            BY <2>1, <2>2
<1>7. QED
      BY <1>2, <1>3, <1>5, <1>6

(* Pieces that are alike up to the k-th make the same text up to it.       *)
LEMMA Agree ==
    ASSUME NEW s \in Seq(Seq(Cell)), NEW t \in Seq(Seq(Cell)), NEW k \in Nat, k <= Len(s), k <= Len(t),
           \A i \in 1..k : s[i] = t[i]
    PROVE  UpTo(s, k) = UpTo(t, k)
<1>1. /\ SubSeq(s, 1, k) \in Seq(Seq(Cell)) /\ Len(SubSeq(s, 1, k)) = k
      /\ SubSeq(t, 1, k) \in Seq(Seq(Cell)) /\ Len(SubSeq(t, 1, k)) = k
      OBVIOUS
<1>2. \A i \in 1..k : SubSeq(s, 1, k)[i] = SubSeq(t, 1, k)[i]
      OBVIOUS
<1>3. SubSeq(s, 1, k) = SubSeq(t, 1, k)
      BY <1>1, <1>2, SeqEqual
<1>4. QED
      BY <1>3 DEF UpTo

(* Pieces that are alike behind the k-th make the same text behind it.     *)
LEMMA Rest ==
    ASSUME NEW s \in Seq(Seq(Cell)), NEW t \in Seq(Seq(Cell)), Len(s) = Len(t), NEW k \in 0..Len(s),
           \A i \in (k + 1)..Len(s) : s[i] = t[i]
    PROVE  \A i \in k..Len(s) :
              \E w \in Seq(Cell) : UpTo(s, i) = UpTo(s, k) \o w /\ UpTo(t, i) = UpTo(t, k) \o w
<1> DEFINE Good(i) == \E w \in Seq(Cell) : UpTo(s, i) = UpTo(s, k) \o w /\ UpTo(t, i) = UpTo(t, k) \o w
           Bad == {i \in k..Len(s) : ~Good(i)}
<1>1. SUFFICES ASSUME Bad # {} PROVE FALSE
      OBVIOUS
<1>2. PICK i \in Bad : \A j \in Bad : i <= j
      <2>1. Bad \in SUBSET Nat
            OBVIOUS
      <2>2. QED
            BY <1>1, <2>1, Least
<1>3. i \in k..Len(s) /\ ~Good(i)
      BY <1>2
<1>4. k \in Nat /\ Len(s) \in Nat /\ i \in Nat
      BY <1>3
<1>5. Good(k)
      <2>1. UpTo(s, k) \in Seq(Cell) /\ UpTo(t, k) \in Seq(Cell)
            BY Grows
      <2>2. UpTo(s, k) = UpTo(s, k) \o <<>> /\ UpTo(t, k) = UpTo(t, k) \o <<>>
            BY <2>1, ConcatEmptySeq
      <2>3. <<>> \in Seq(Cell)
            OBVIOUS
      <2>4. QED
            BY <2>2, <2>3
<1>6. i # k
      BY <1>3, <1>5
<1>7. i - 1 \in k..Len(s) /\ i \in 1..Len(s) /\ i \in (k + 1)..Len(s) /\ ~(i <= i - 1)
      BY <1>3, <1>4, <1>6
<1>8. Good(i - 1)
      <2>1. i - 1 \notin Bad
            BY <1>2, <1>7
      <2>2. QED
            BY <2>1, <1>7
<1> HIDE DEF Bad
<1>9. PICK w \in Seq(Cell) : UpTo(s, i - 1) = UpTo(s, k) \o w /\ UpTo(t, i - 1) = UpTo(t, k) \o w
      BY <1>8
<1>10. s[i] = t[i] /\ s[i] \in Seq(Cell)
      BY <1>7
<1>11. UpTo(s, i) = UpTo(s, i - 1) \o s[i] /\ UpTo(t, i) = UpTo(t, i - 1) \o t[i]
      BY <1>7, Grows
<1>12. UpTo(s, k) \in Seq(Cell) /\ UpTo(t, k) \in Seq(Cell)
      BY Grows
<1>13. /\ (UpTo(s, k) \o w) \o s[i] = UpTo(s, k) \o (w \o s[i])
       /\ (UpTo(t, k) \o w) \o s[i] = UpTo(t, k) \o (w \o s[i])
      <2>1. UpTo(s, k) \in Seq(Cell) /\ UpTo(t, k) \in Seq(Cell) /\ w \in Seq(Cell) /\ s[i] \in Seq(Cell)
            BY <1>10, <1>12
      <2>2. \A a, b, c \in Seq(Cell) : (a \o b) \o c = a \o (b \o c)
            BY ConcatAssociative, SMTT(30)
      <2>3. QED
            BY <1>10, <2>1, <2>2, ZenonT(40)
<1>14. w \o s[i] \in Seq(Cell)
      BY <1>10, ConcatProperties
<1>15. Good(i)
      BY <1>9, <1>10, <1>11, <1>13, <1>14
<1>16. QED
      BY <1>3, <1>15

(* A text with more pieces is not shorter.                                 *)
LEMMA Longer ==
    ASSUME NEW s \in Seq(Seq(Cell)), NEW i \in 0..Len(s), NEW j \in i..Len(s)
    PROVE  Len(UpTo(s, i)) <= Len(UpTo(s, j))
<1>1. PICK w \in Seq(Cell) : UpTo(s, j) = UpTo(s, i) \o w
      <2>1. \A m \in i..Len(s) : \E w \in Seq(Cell) : UpTo(s, m) = UpTo(s, i) \o w
            BY Rest
      <2>2. QED
            BY <2>1
<1>2. UpTo(s, i) \in Seq(Cell)
      BY Grows
<1>3. Len(UpTo(s, j)) = Len(UpTo(s, i)) + Len(w) /\ Len(w) \in Nat /\ Len(UpTo(s, i)) \in Nat
      BY <1>1, <1>2, ConcatProperties
<1>4. QED
      BY <1>3

(* What is before, in and behind the middle one of three texts.            *)
LEMMA Around ==
    ASSUME NEW a \in Seq(Cell), NEW b \in Seq(Cell), NEW c \in Seq(Cell), NEW s, s = (a \o b) \o c
    PROVE  /\ Len(s) = Len(a) + Len(b) + Len(c)
           /\ SubSeq(s, 1, Len(a)) = a /\ SubSeq(s, Len(a) + Len(b) + 1, Len(s)) = c
           /\ \A q \in 1..Len(b) : s[Len(a) + q] = b[q]
<1> DEFINE d == a \o b
<1>1. d \in Seq(Cell) /\ Len(d) = Len(a) + Len(b) /\ Len(a) \in Nat /\ Len(b) \in Nat /\ Len(c) \in Nat
      BY ConcatProperties
<1>2. \A i \in 1..Len(a) + Len(b) : d[i] = IF i <= Len(a) THEN a[i] ELSE b[i - Len(a)]
      BY ConcatProperties
<1>0. s = d \o c
      OBVIOUS
<1> HIDE DEF d
<1>3. s \in Seq(Cell) /\ Len(s) = Len(d) + Len(c)
      BY <1>0, <1>1, ConcatProperties
<1>4. \A i \in 1..Len(d) + Len(c) : s[i] = IF i <= Len(d) THEN d[i] ELSE c[i - Len(d)]
      BY <1>0, <1>1, ConcatProperties
<1>5. SubSeq(s, 1, Len(a)) = a
      <2> DEFINE u == SubSeq(s, 1, Len(a))
      <2>1. u \in Seq(Cell) /\ Len(u) = Len(a) /\ \A i \in 1..Len(a) : u[i] = s[i]
            BY <1>1, <1>3
      <2>2. ASSUME NEW i \in 1..Len(a) PROVE u[i] = a[i]
            <3>1. i \in 1..Len(a) + Len(b) /\ i \in 1..Len(d) + Len(c) /\ i <= Len(a) /\ i <= Len(d)
                  BY <1>1
            <3>2. s[i] = d[i] /\ d[i] = a[i] /\ u[i] = s[i]
                  BY <1>2, <1>4, <2>1, <3>1
            <3>3. QED
                  BY <3>2
      <2> HIDE DEF u
      <2>3. u = a
            BY <2>1, <2>2, SeqEqual
      <2>4. QED
            BY <2>3 DEF u
<1>6. SubSeq(s, Len(a) + Len(b) + 1, Len(s)) = c
      <2> DEFINE m == Len(a) + Len(b) + 1
                 u == SubSeq(s, m, Len(s))
      <2>1. u \in Seq(Cell) /\ Len(u) = Len(c) /\ \A i \in 1..Len(c) : u[i] = s[m + i - 1]
            <3>1. m \in Nat \ {0} /\ Len(s) \in Nat /\ Len(s) = m + Len(c) - 1 /\ m <= Len(s) + 1
                  BY <1>1, <1>3
            <3>2. u \in Seq(Cell) /\ Len(u) = Len(s) - m + 1 /\ \A i \in 1..Len(s) - m + 1 : u[i] = s[m + i - 1]
                  BY <1>3, <3>1
            <3>3. Len(s) - m + 1 = Len(c)
                  BY <1>1, <3>1
            <3>4. QED
                  BY <3>2, <3>3
      <2>2. ASSUME NEW i \in 1..Len(c) PROVE u[i] = c[i]
            <3>1. m + i - 1 \in 1..Len(d) + Len(c) /\ ~(m + i - 1 <= Len(d)) /\ m + i - 1 - Len(d) = i
                  BY <1>1
            <3>2. s[m + i - 1] = c[i]
                  BY <1>4, <3>1
            <3>3. QED
                  BY <2>1, <3>2
      <2> HIDE DEF u
      <2>3. u = c
            BY <2>1, <2>2, SeqEqual
      <2>4. QED
            BY <2>3 DEF u
<1>7. \A q \in 1..Len(b) : s[Len(a) + q] = b[q]
      BY <1>1, <1>2, <1>4
<1>8. Len(s) = Len(a) + Len(b) + Len(c)
      BY <1>1, <1>3
<1>9. QED
      BY <1>5, <1>6, <1>7, <1>8

(* A piece that is cut out of the text, at the place it has in a text that *)
(* begins alike, and replaced is a piece that is replaced.                 *)
LEMMA CutPiece ==
    ASSUME NEW base \in Seq(Seq(Cell)), NEW now \in Seq(Seq(Cell)), Len(base) = Len(now),
           NEW k \in 1..Len(base), \A i \in 1..k : now[i] = base[i], NEW by \in Seq(Cell)
    PROVE  LET a == Len(UpTo(base, k - 1)) IN
           SubSeq(Flat(now), 1, a) \o by \o SubSeq(Flat(now), a + Len(base[k]) + 1, Len(Flat(now)))
           = Flat([now EXCEPT ![k] = by])
<1> DEFINE new == [now EXCEPT ![k] = by]
           a == UpTo(base, k - 1)
<1>1. new \in Seq(Seq(Cell)) /\ Len(new) = Len(now) /\ \A i \in 1..Len(now) : new[i] = IF i = k THEN by ELSE now[i]
      BY ExceptSeq
<1> HIDE DEF new
<1>2. k \in Nat \ {0} /\ Len(now) \in Nat /\ k \in 1..Len(now) /\ k - 1 \in Nat /\ k - 1 \in 0..Len(now)
      OBVIOUS
<1>3. UpTo(now, k - 1) = a /\ UpTo(new, k - 1) = a
      <2>1. ASSUME NEW i \in 1..(k - 1) PROVE now[i] = base[i] /\ new[i] = base[i]
            <3>1. i \in 1..k /\ i \in 1..Len(now) /\ i # k
                  BY <1>2
            <3>2. now[i] = base[i] /\ new[i] = now[i]
                  BY <1>1, <3>1
            <3>3. QED
                  BY <3>2
      <2>2. k - 1 <= Len(base) /\ k - 1 <= Len(now) /\ k - 1 <= Len(new)
            BY <1>1, <1>2
      <2>3. QED
            BY <1>1, <1>2, <2>1, <2>2, Agree
<1>4. a \in Seq(Cell) /\ base[k] \in Seq(Cell)
      <2>1. k - 1 \in 0..Len(base) /\ base[k] \in Seq(Cell)
            BY <1>2
      <2>2. UpTo(base, k - 1) \in Seq(Cell)
            BY <2>1, Grows
      <2>3. QED
            BY <2>1, <2>2
<1> HIDE DEF a
<1>5. PICK w \in Seq(Cell) : UpTo(now, Len(now)) = UpTo(now, k) \o w /\ UpTo(new, Len(now)) = UpTo(new, k) \o w
      <2>1. k \in 0..Len(now) /\ Len(now) \in k..Len(now) /\ \A i \in (k + 1)..Len(now) : now[i] = new[i]
            BY <1>1, <1>2
      <2>2. QED
            BY <1>1, <2>1, Rest
<1>6. UpTo(now, k) = a \o base[k] /\ UpTo(new, k) = a \o by
      <2>1. now[k] = base[k] /\ new[k] = by
            <3>1. k \in 1..k
                  BY <1>2
            <3>2. QED
                  BY <1>1, <1>2, <3>1
      <2>2. UpTo(now, k) = UpTo(now, k - 1) \o now[k] /\ UpTo(new, k) = UpTo(new, k - 1) \o new[k]
            BY <1>1, <1>2, Grows
      <2>3. QED
            BY <1>3, <2>1, <2>2
<1>7. Flat(now) = (a \o base[k]) \o w /\ Flat(new) = (a \o by) \o w
      <2>1. Flat(now) = UpTo(now, Len(now)) /\ Flat(new) = UpTo(new, Len(new))
            BY <1>1, Grows
      <2>2. QED
            BY <1>1, <1>5, <1>6, <2>1
<1>8. SubSeq(Flat(now), 1, Len(a)) = a /\ SubSeq(Flat(now), Len(a) + Len(base[k]) + 1, Len(Flat(now))) = w
      <2> DEFINE b == base[k]
                 t == Flat(now)
      <2>1. b \in Seq(Cell) /\ t = (a \o b) \o w
            BY <1>4, <1>7
      <2> HIDE DEF b, t
      <2>2. a \in Seq(Cell) /\ b \in Seq(Cell) /\ w \in Seq(Cell) /\ t = (a \o b) \o w
            BY <1>4, <2>1
      <2>3. SubSeq(t, 1, Len(a)) = a /\ SubSeq(t, Len(a) + Len(b) + 1, Len(t)) = w
            BY <2>2, Around, SMTT(60)
      <2>4. QED
            BY <2>3 DEF b, t
<1>9. QED
      BY <1>7, <1>8 DEF new, a

(* Where a piece is in the text, and that the text has nothing else.       *)
LEMMA Places ==
    ASSUME NEW s \in Seq(Seq(Cell))
    PROVE  /\ \A k \in 1..Len(s) : \A q \in 1..Len(s[k]) :
                 /\ Len(UpTo(s, k - 1)) + q \in 1..Len(Flat(s))
                 /\ Flat(s)[Len(UpTo(s, k - 1)) + q] = s[k][q]
           /\ \A p \in 1..Len(Flat(s)) :
                 \E k \in 1..Len(s) : \E q \in 1..Len(s[k]) : p = Len(UpTo(s, k - 1)) + q
<1>0. Len(s) \in Nat
      OBVIOUS
<1>1. ASSUME NEW k \in 1..Len(s)
      PROVE  \A q \in 1..Len(s[k]) : /\ Len(UpTo(s, k - 1)) + q \in 1..Len(Flat(s))
                                     /\ Flat(s)[Len(UpTo(s, k - 1)) + q] = s[k][q]
      <2> DEFINE a == UpTo(s, k - 1)
                 b == s[k]
      <2>1. k \in 0..Len(s) /\ k - 1 \in 0..Len(s) /\ Len(s) \in k..Len(s)
            OBVIOUS
      <2>2. a \in Seq(Cell) /\ b \in Seq(Cell)
            <3>1. UpTo(s, k - 1) \in Seq(Cell)
                  BY <2>1, Grows
            <3>2. s[k] \in Seq(Cell)
                  OBVIOUS
            <3>3. QED
                  BY <3>1, <3>2
      <2>3. PICK c \in Seq(Cell) : UpTo(s, Len(s)) = UpTo(s, k) \o c
            BY <2>1, Rest
      <2>4. Flat(s) = (a \o b) \o c
            <3>1. UpTo(s, Len(s)) = Flat(s) /\ UpTo(s, k) = UpTo(s, k - 1) \o s[k]
                  BY Grows
            <3>2. QED
                  BY <2>3, <3>1
      <2> HIDE DEF a, b
      <2>5. Len(Flat(s)) = Len(a) + Len(b) + Len(c) /\ \A q \in 1..Len(b) : Flat(s)[Len(a) + q] = b[q]
            BY <2>2, <2>4, Around
      <2>6. Len(a) \in Nat /\ Len(b) \in Nat /\ Len(c) \in Nat
            BY <2>2
      <2>7. \A q \in 1..Len(b) : Len(a) + q \in 1..Len(Flat(s))
            BY <2>5, <2>6
      <2>8. QED
            BY <2>5, <2>7 DEF a, b
<1>2. ASSUME NEW p \in 1..Len(Flat(s))
      PROVE  \E k \in 1..Len(s) : \E q \in 1..Len(s[k]) : p = Len(UpTo(s, k - 1)) + q
      <2> DEFINE T == {k \in 0..Len(s) : p <= Len(UpTo(s, k))}
      <2>0. Flat(s) \in Seq(Cell) /\ Len(Flat(s)) \in Nat /\ p \in Nat \ {0}
            <3>1. Len(s) \in 0..Len(s)
                  BY <1>0
            <3>2. Flat(s) \in Seq(Cell)
                  BY <3>1, Grows
            <3>3. QED
                  BY <3>2
      <2>1. Len(s) \in T
            <3>0. Len(s) \in 0..Len(s)
                  BY <1>0
            <3>1. Len(s) \in 0..Len(s) /\ UpTo(s, Len(s)) = Flat(s)
                  BY <3>0, Grows
            <3>2. p <= Len(Flat(s))
                  BY <2>0
            <3>3. QED
                  BY <3>1, <3>2
      <2>2. PICK k \in T : \A j \in T : k <= j
            <3>1. T \in SUBSET Nat
                  OBVIOUS
            <3>2. QED
                  BY <2>1, <3>1, Least
      <2>3. k \in 0..Len(s) /\ p <= Len(UpTo(s, k))
            BY <2>2
      <2>4. k # 0
            <3>1. UpTo(s, 0) = <<>> /\ Len(<<>>) = 0
                  BY Grows
            <3>2. QED
                  BY <2>0, <2>3, <3>1
      <2>5. k \in 1..Len(s) /\ k - 1 \in 0..Len(s) /\ ~(k <= k - 1)
            BY <1>0, <2>3, <2>4
      <2>6. ~(p <= Len(UpTo(s, k - 1)))
            BY <2>2, <2>5
      <2>7. /\ UpTo(s, k) = UpTo(s, k - 1) \o s[k]
            /\ UpTo(s, k - 1) \in Seq(Cell) /\ s[k] \in Seq(Cell)
            <3>1. s[k] \in Seq(Cell)
                  BY <2>5
            <3>2. UpTo(s, k) = UpTo(s, k - 1) \o s[k] /\ UpTo(s, k - 1) \in Seq(Cell)
                  BY <2>5, Grows
            <3>3. QED
                  BY <3>1, <3>2
      <2>8. /\ Len(UpTo(s, k)) = Len(UpTo(s, k - 1)) + Len(s[k])
            /\ Len(UpTo(s, k - 1)) \in Nat /\ Len(s[k]) \in Nat
            BY <2>7, ConcatProperties
      <2> DEFINE q == p - Len(UpTo(s, k - 1))
      <2>9. q \in 1..Len(s[k]) /\ p = Len(UpTo(s, k - 1)) + q
            <3> DEFINE a == Len(UpTo(s, k - 1))
                       b == Len(s[k])
            <3>1. p <= a + b /\ ~(p <= a) /\ a \in Nat /\ b \in Nat /\ p \in Nat
                  BY <2>0, <2>3, <2>6, <2>8
            <3> HIDE DEF a, b
            <3>2. p - a \in 1..b /\ p = a + (p - a)
                  BY <3>1
            <3>3. QED
                  BY <3>2 DEF a, b
      <2>10. QED
            BY <2>5, <2>9
<1>3. QED
      BY <1>1, <1>2

(* Max is the highest of them.                                             *)
LEMMA MaxIsHighest ==
    ASSUME NEW top \in Nat, NEW vs \in SUBSET (1..top), vs # {}
    PROVE  Resolving!Max(vs) \in vs /\ \A w \in vs : w <= Resolving!Max(vs)
<1>1. PICK m \in vs : \A w \in vs : w <= m
      BY Highest
<1>2. \A w \in vs : m >= w
      <2>1. \A w \in vs : m \in Nat /\ w \in Nat
            OBVIOUS
      <2>2. QED
            BY <1>1, <2>1
<1> DEFINE n == Resolving!Max(vs)
<1>3. n \in vs /\ \A w \in vs : n >= w
      BY <1>2 DEF Resolving!Max
<1> HIDE DEF n
<1>4. n \in Nat /\ \A w \in vs : w \in Nat
      BY <1>3
<1>5. \A w \in vs : w <= n
      BY <1>3, <1>4
<1>6. QED
      BY <1>3, <1>5 DEF n

(* A mark is the "@" of a reference.                                       *)
Mark(c) == c[1] \in Resolving!Refs /\ c[2] = 1
IsRef(w) == \E r \in Resolving!Refs : w = Resolving!Written(r)
Plain(w) == \A q \in 1..Len(w) : ~Mark(w[q])
Pieces == {s \in Seq(Seq(Cell)) : \A i \in 1..Len(s) : IsRef(s[i]) \/ Plain(s[i])}
At(s, i) == 1 + Len(UpTo(s, i - 1))

(* The cells of one thing, numbered.                                       *)
LEMMA CellsAre ==
    ASSUME NEW what \in Resolving!Refs \union {"word", "address", "typed", "name", "value", "masked"}, NEW n \in Nat
    PROVE  /\ Resolving!Cells(what, n) \in Seq(Cell) /\ Len(Resolving!Cells(what, n)) = n
           /\ \A q \in 1..n : Resolving!Cells(what, n)[q] = <<what, q>>
<1> DEFINE s == [i \in 1..n |-> <<what, i>>]
<1>1. \A i \in 1..n : <<what, i>> \in Cell
      BY DEF Cell
<1>2. s \in Seq(Cell) /\ Len(s) = n /\ \A q \in 1..n : s[q] = <<what, q>>
      BY <1>1, IsASeq
<1>3. QED
      BY <1>2 DEF Resolving!Cells

(* A reference has its mark at its beginning, and no other.                *)
LEMMA WrittenIs ==
    ASSUME NEW r \in Resolving!Refs
    PROVE  LET s == Resolving!Written(r) IN
           /\ s \in Seq(Cell) /\ Len(s) = Width[r] + 1 /\ Width[r] \in Nat /\ 1 \in 1..Len(s)
           /\ s[1] = <<r, 1>> /\ Mark(s[1]) /\ \A q \in 1..Len(s) : q # 1 => ~Mark(s[q])
<1>1. Width[r] \in Nat /\ r # "word"
      BY ReferenceAssumption DEF Resolving!Refs
<1>2. Width[r] + 1 \in Nat /\ 1 \in 1..(Width[r] + 1)
      BY <1>1
<1>3. Resolving!Written(r) = Resolving!Cells(r, Width[r] + 1)
      BY <1>1 DEF Resolving!Written, Resolving!Word
<1> DEFINE s == Resolving!Written(r)
<1>4. s \in Seq(Cell) /\ Len(s) = Width[r] + 1 /\ \A q \in 1..(Width[r] + 1) : s[q] = <<r, q>>
      BY <1>2, <1>3, CellsAre
<1> HIDE DEF s
<1>5. \A q \in 1..(Width[r] + 1) : Mark(<<r, q>>) <=> q = 1
      BY DEF Mark
<1>6. s[1] = <<r, 1>> /\ Mark(s[1]) /\ \A q \in 1..Len(s) : q # 1 => ~Mark(s[q])
      BY <1>2, <1>4, <1>5
<1>7. QED
      BY <1>1, <1>2, <1>4, <1>6 DEF s

(* A piece without a mark is no reference.                                 *)
LEMMA PlainIsNoRef == ASSUME NEW w, Plain(w) PROVE ~IsRef(w)
BY WrittenIs DEF Plain, IsRef

(* What is no reference has no mark.                                       *)
LEMMA CellsArePlain ==
    ASSUME NEW what \in {"word", "address", "typed", "name", "value", "masked"}, NEW n \in Nat
    PROVE  Plain(Resolving!Cells(what, n)) /\ Resolving!Cells(what, n) \in Seq(Cell)
<1>1. what \notin Resolving!Refs
      BY ReferenceAssumption DEF Resolving!Refs
<1>2. /\ Resolving!Cells(what, n) \in Seq(Cell) /\ Len(Resolving!Cells(what, n)) = n
      /\ \A q \in 1..n : Resolving!Cells(what, n)[q] = <<what, q>>
      BY CellsAre
<1>3. \A q \in 1..n : ~Mark(<<what, q>>)
      BY <1>1 DEF Mark
<1>4. QED
      BY <1>2, <1>3 DEF Plain

(* The places of the references in a text are their marks, in their order. *)
LEMMA InOrder ==
    ASSUME NEW s \in Seq(Seq(Cell)), NEW i \in 1..Len(s), NEW j \in 1..Len(s), i < j, IsRef(s[i])
    PROVE  At(s, i) < At(s, j)
<1>1. i \in Nat /\ j \in Nat /\ Len(s) \in Nat
      OBVIOUS
<1>2. i \in 0..Len(s) /\ j - 1 \in i..Len(s) /\ i - 1 \in 0..Len(s) /\ j - 1 \in 0..Len(s)
      BY <1>1
<1>3. Len(UpTo(s, i)) <= Len(UpTo(s, j - 1))
      BY <1>2, Longer
<1>4. UpTo(s, i) = UpTo(s, i - 1) \o s[i] /\ UpTo(s, i - 1) \in Seq(Cell) /\ UpTo(s, j - 1) \in Seq(Cell)
      BY <1>2, Grows
<1>5. s[i] \in Seq(Cell) /\ 1 \in 1..Len(s[i])
      BY WrittenIs DEF IsRef
<1>6. Len(UpTo(s, i)) = Len(UpTo(s, i - 1)) + Len(s[i]) /\ Len(UpTo(s, i - 1)) \in Nat /\ Len(s[i]) \in Nat \ {0}
      BY <1>4, <1>5, ConcatProperties
<1>7. Len(UpTo(s, j - 1)) \in Nat
      BY <1>4
<1> DEFINE a == Len(UpTo(s, i - 1))
           b == Len(UpTo(s, j - 1))
           c == Len(UpTo(s, i))
           d == Len(s[i])
<1>11. a \in Nat /\ b \in Nat /\ d \in Nat \ {0} /\ c <= b /\ c = a + d
      BY <1>3, <1>6, <1>7
<1> HIDE DEF a, b, c, d
<1>8. a \in Nat /\ b \in Nat /\ a < b
      BY <1>11
<1>9. 1 + a < 1 + b
      BY <1>8
<1>10. QED
      BY <1>9 DEF At, a, b

(* The matches are the beginnings of the references, and nothing else.     *)
LEMMA Marks ==
    ASSUME NEW s \in Pieces
    PROVE  /\ \A i \in 1..Len(s) : \A r \in Resolving!Refs :
                 s[i] = Resolving!Written(r) =>
                    At(s, i) \in Resolving!Matches(Flat(s)) /\ Resolving!RefAt(Flat(s), At(s, i)) = r
           /\ \A p \in Resolving!Matches(Flat(s)) : \E i \in 1..Len(s) : IsRef(s[i]) /\ p = At(s, i)
           /\ \E top \in Nat : Resolving!Matches(Flat(s)) \in SUBSET (1..top)
<1>1. s \in Seq(Seq(Cell))
      BY DEF Pieces
<1>2. \A p : p \in Resolving!Matches(Flat(s)) <=> p \in 1..Len(Flat(s)) /\ Mark(Flat(s)[p])
      BY DEF Resolving!Matches, Mark
<1>3. ASSUME NEW i \in 1..Len(s), NEW r \in Resolving!Refs, s[i] = Resolving!Written(r)
      PROVE  At(s, i) \in Resolving!Matches(Flat(s)) /\ Resolving!RefAt(Flat(s), At(s, i)) = r
      <2>1. 1 \in 1..Len(s[i]) /\ s[i][1] = <<r, 1>> /\ Mark(s[i][1])
            BY <1>3, WrittenIs
      <2>2. Len(UpTo(s, i - 1)) + 1 \in 1..Len(Flat(s)) /\ Flat(s)[Len(UpTo(s, i - 1)) + 1] = s[i][1]
            BY <1>1, <2>1, Places
      <2>3. Len(UpTo(s, i - 1)) + 1 = At(s, i)
            <3>1. i - 1 \in 0..Len(s)
                  OBVIOUS
            <3>2. UpTo(s, i - 1) \in Seq(Cell)
                  BY <1>1, <3>1, Grows
            <3>3. Len(UpTo(s, i - 1)) \in Nat
                  BY <3>2
            <3>4. QED
                  BY <3>3 DEF At
      <2>4. QED
            BY <1>2, <2>1, <2>2, <2>3, SMTT(30) DEF Resolving!RefAt
<1>4. ASSUME NEW p \in Resolving!Matches(Flat(s)) PROVE \E i \in 1..Len(s) : IsRef(s[i]) /\ p = At(s, i)
      <2>1. p \in 1..Len(Flat(s)) /\ Mark(Flat(s)[p])
            BY <1>2
      <2>2. PICK i \in 1..Len(s) : \E q \in 1..Len(s[i]) : p = Len(UpTo(s, i - 1)) + q
            BY <1>1, <2>1, Places
      <2>3. PICK q \in 1..Len(s[i]) : p = Len(UpTo(s, i - 1)) + q
            BY <2>2
      <2>4. Mark(s[i][q])
            BY <1>1, <2>1, <2>3, Places
      <2>5. PICK r \in Resolving!Refs : s[i] = Resolving!Written(r)
            BY <2>4 DEF Pieces, Plain, IsRef
      <2>6. q = 1
            BY <2>4, <2>5, WrittenIs
      <2>7. p = At(s, i)
            <3>1. i - 1 \in 0..Len(s)
                  OBVIOUS
            <3>2. UpTo(s, i - 1) \in Seq(Cell)
                  BY <1>1, <3>1, Grows
            <3>3. Len(UpTo(s, i - 1)) \in Nat
                  BY <3>2
            <3>4. QED
                  BY <2>3, <2>6, <3>3 DEF At
      <2>8. QED
            BY <2>5, <2>7 DEF IsRef
<1>5. Len(Flat(s)) \in Nat /\ Resolving!Matches(Flat(s)) \in SUBSET (1..Len(Flat(s)))
      <2>1. Len(s) \in 0..Len(s)
            BY <1>1
      <2>2. Flat(s) \in Seq(Cell)
            BY <1>1, <2>1, Grows
      <2>3. Len(Flat(s)) \in Nat
            BY <2>2
      <2>4. QED
            BY <1>2, <2>3
<1>6. QED
      BY <1>3, <1>4, <1>5

(* A pass over the references of s, from the last one: those that are left *)
(* are as they were, the others as in g.                                   *)
Mixed(s, g, left) == [i \in 1..Len(s) |-> IF IsRef(s[i]) /\ At(s, i) \notin left THEN g[i] ELSE s[i]]
Passing(s, left) == /\ left \in SUBSET Resolving!Matches(Flat(s))
                    /\ \A p \in Resolving!Matches(Flat(s)) \ left : \A q \in left : q < p
(* The next match is the last one that is left, piece k, reference r.      *)
IsNext(s, left, p, k, r) == /\ p \in left /\ (\A q \in left : q <= p) /\ Passing(s, left \ {p})
                            /\ k \in 1..Len(s) /\ p = At(s, k)
                            /\ r \in Resolving!Refs /\ s[k] = Resolving!Written(r) /\ Resolving!RefAt(Flat(s), p) = r
(* Cutting it out, or leaving what stands for itself, is one step of it.   *)
Cuts(s, left, p, g, h, k) ==
    /\ Resolving!Cut(Flat(Mixed(s, g, left)), Flat(s), p, h[k]) = Flat(Mixed(s, h, left \ {p}))
    /\ h[k] = s[k] => Flat(Mixed(s, g, left)) = Flat(Mixed(s, h, left \ {p}))
Alike(s) == {g \in Seq(Seq(Cell)) : Len(g) = Len(s)}

(* As many pieces as before.                                               *)
LEMMA MixedIs ==
    ASSUME NEW s \in Pieces, NEW g \in Alike(s), NEW left
    PROVE  /\ Mixed(s, g, left) \in Seq(Seq(Cell)) /\ Len(Mixed(s, g, left)) = Len(s)
           /\ \A i \in 1..Len(s) : Mixed(s, g, left)[i] = IF IsRef(s[i]) /\ At(s, i) \notin left THEN g[i] ELSE s[i]
<1>1. s \in Seq(Seq(Cell)) /\ Len(s) \in Nat /\ g \in Seq(Seq(Cell)) /\ Len(g) = Len(s)
      BY DEF Pieces, Alike
<1>2. \A i \in 1..Len(s) : s[i] \in Seq(Cell) /\ g[i] \in Seq(Cell)
      BY <1>1
<1> DEFINE m(i) == IF IsRef(s[i]) /\ At(s, i) \notin left THEN g[i] ELSE s[i]
<1>3. \A i \in 1..Len(s) : m(i) \in Seq(Cell)
      BY <1>2
<1>4. Mixed(s, g, left) = [i \in 1..Len(s) |-> m(i)]
      BY DEF Mixed
<1> HIDE DEF m
<1> DEFINE f == [i \in 1..Len(s) |-> m(i)]
<1>5. f \in Seq(Seq(Cell)) /\ Len(f) = Len(s) /\ \A i \in 1..Len(s) : f[i] = m(i)
      BY <1>1, <1>3, IsASeq
<1>6. QED
      BY <1>4, <1>5 DEF m

(* While all are left, the text is as it was.                              *)
LEMMA MixedAll ==
    ASSUME NEW s \in Pieces, NEW g \in Alike(s)
    PROVE  Flat(Mixed(s, g, Resolving!Matches(Flat(s)))) = Flat(s)
<1> DEFINE m == Mixed(s, g, Resolving!Matches(Flat(s)))
<1>1. m \in Seq(Seq(Cell)) /\ Len(m) = Len(s) /\ s \in Seq(Seq(Cell))
      BY MixedIs DEF Pieces
<1>2. \A i \in 1..Len(s) : m[i] = s[i]
      BY MixedIs, Marks, SMTT(30) DEF IsRef
<1> HIDE DEF m
<1>3. m = s
      BY <1>1, <1>2, SeqEqual
<1>4. QED
      BY <1>3 DEF m

(* When none is left, the text has everything replaced.                    *)
LEMMA MixedNone ==
    ASSUME NEW s \in Pieces, NEW g \in Alike(s), \A i \in 1..Len(s) : ~IsRef(s[i]) => g[i] = s[i]
    PROVE  Flat(Mixed(s, g, {})) = Flat(g)
<1> DEFINE m == Mixed(s, g, {})
<1>1. m \in Seq(Seq(Cell)) /\ Len(m) = Len(g) /\ g \in Seq(Seq(Cell))
      BY MixedIs DEF Alike
<1>2. \A i \in 1..Len(g) : m[i] = g[i]
      <2>1. Len(g) = Len(s)
            BY DEF Alike
      <2>2. \A i \in 1..Len(s) : m[i] = IF IsRef(s[i]) /\ At(s, i) \notin {} THEN g[i] ELSE s[i]
            BY MixedIs
      <2> HIDE DEF m
      <2>3. QED
            BY <2>1, <2>2
<1> HIDE DEF m
<1>3. m = g
      BY <1>1, <1>2, SeqEqual
<1>4. QED
      BY <1>3 DEF m

(* While some are left there is a next one.                                *)
LEMMA NextIs ==
    ASSUME NEW s \in Pieces, NEW left, Passing(s, left), left # {}
    PROVE  \E k, r : IsNext(s, left, Resolving!Max(left), k, r)
<1> DEFINE p == Resolving!Max(left)
<1>1. PICK top \in Nat : Resolving!Matches(Flat(s)) \in SUBSET (1..top)
      BY Marks
<1>2. left \in SUBSET (1..top)
      BY <1>1 DEF Passing
<1>3. p \in left /\ \A w \in left : w <= p
      BY <1>2, MaxIsHighest
<1> HIDE DEF p
<1>4. Passing(s, left \ {p})
      <2>1. ASSUME NEW q \in left \ {p} PROVE q < p
            BY <1>2, <1>3
      <2>2. QED
            BY <1>3, <2>1 DEF Passing
<1>5. PICK k \in 1..Len(s) : IsRef(s[k]) /\ p = At(s, k)
      BY <1>3, Marks DEF Passing
<1>6. PICK r \in Resolving!Refs : s[k] = Resolving!Written(r)
      BY <1>5 DEF IsRef
<1>7. Resolving!RefAt(Flat(s), p) = r
      BY <1>5, <1>6, Marks
<1>8. IsNext(s, left, p, k, r)
      BY <1>3, <1>4, <1>5, <1>6, <1>7 DEF IsNext
<1>9. QED
      BY <1>8 DEF p

(* No two references are at the same place.                                *)
LEMMA OneAt ==
    ASSUME NEW s \in Pieces, NEW i \in 1..Len(s), NEW k \in 1..Len(s), i # k, IsRef(s[i]), IsRef(s[k])
    PROVE  At(s, i) # At(s, k)
<1>1. s \in Seq(Seq(Cell)) /\ i \in Nat /\ k \in Nat
      BY DEF Pieces
<1>2. PICK top \in Nat : Resolving!Matches(Flat(s)) \in SUBSET (1..top)
      BY Marks
<1>3. At(s, i) \in Nat /\ At(s, k) \in Nat
      <2>1. At(s, i) \in Resolving!Matches(Flat(s)) /\ At(s, k) \in Resolving!Matches(Flat(s))
            BY Marks DEF IsRef
      <2>2. QED
            BY <1>2, <2>1
<1>4. i < k => At(s, i) < At(s, k)
      BY <1>1, InOrder
<1>5. k < i => At(s, k) < At(s, i)
      BY <1>1, InOrder
<1>6. QED
      BY <1>1, <1>3, <1>4, <1>5

(* A match is cut out by its position in the text before the pass.         *)
LEMMA CutMark ==
    ASSUME NEW s \in Pieces, NEW left, Passing(s, left), NEW p, NEW k, NEW r, IsNext(s, left, p, k, r),
           NEW g \in Alike(s), NEW h \in Alike(s), \A i \in 1..Len(s) : i # k => g[i] = h[i]
    PROVE  Cuts(s, left, p, g, h, k)
<1> DEFINE now == Mixed(s, g, left)
           next == Mixed(s, h, left \ {p})
           new == [now EXCEPT ![k] = h[k]]
<1>0. /\ p \in left /\ (\A q \in left : q <= p) /\ k \in 1..Len(s) /\ p = At(s, k)
      /\ r \in Resolving!Refs /\ s[k] = Resolving!Written(r) /\ Resolving!RefAt(Flat(s), p) = r
      BY DEF IsNext
<1>1. s \in Seq(Seq(Cell)) /\ Len(s) \in Nat /\ h \in Seq(Seq(Cell)) /\ Len(h) = Len(s) /\ h[k] \in Seq(Cell)
      BY <1>0 DEF Pieces, Alike
<1>2. IsRef(s[k]) /\ Resolving!RefAt(Flat(s), p) = r
      BY <1>0 DEF IsRef
<1>3. /\ now \in Seq(Seq(Cell)) /\ Len(now) = Len(s)
      /\ \A i \in 1..Len(s) : now[i] = IF IsRef(s[i]) /\ At(s, i) \notin left THEN g[i] ELSE s[i]
      BY MixedIs
<1>4. /\ next \in Seq(Seq(Cell)) /\ Len(next) = Len(s)
      /\ \A i \in 1..Len(s) : next[i] = IF IsRef(s[i]) /\ At(s, i) \notin left \ {p} THEN h[i] ELSE s[i]
      BY MixedIs
<1>5. \A i \in 1..Len(s) : IsRef(s[i]) => At(s, i) \in Resolving!Matches(Flat(s))
      BY Marks DEF IsRef
<1>6. PICK top \in Nat : Resolving!Matches(Flat(s)) \in SUBSET (1..top)
      BY Marks
<1>7. \A i \in 1..Len(s) : i # k /\ IsRef(s[i]) => At(s, i) # p
      BY <1>0, <1>2, OneAt
<1>8. ASSUME NEW i \in 1..k PROVE now[i] = s[i]
      <2>1. i \in 1..Len(s) /\ i \in Nat /\ k \in Nat
            BY <1>0, <1>1
      <2>2. CASE IsRef(s[i]) /\ At(s, i) \notin left
            <3>1. p < At(s, i)
                  BY <1>0, <1>5, <2>1, <2>2 DEF Passing
            <3>2. i < k
                  <4>1. i # k
                        BY <1>0, <2>2
                  <4>2. QED
                        BY <2>1, <4>1
            <3>3. At(s, i) < p
                  BY <1>0, <1>1, <2>1, <2>2, <3>2, InOrder
            <3>4. At(s, i) \in Nat /\ p \in Nat
                  BY <1>0, <1>5, <1>6, <2>1, <2>2 DEF Passing
            <3>5. QED
                  BY <3>1, <3>3, <3>4
      <2>3. QED
            BY <1>3, <2>1, <2>2
<1> HIDE DEF now, next
<1>9. new \in Seq(Seq(Cell)) /\ Len(new) = Len(now) /\ \A i \in 1..Len(now) : new[i] = IF i = k THEN h[k] ELSE now[i]
      BY <1>0, <1>1, <1>3, ExceptSeq
<1>10. new = next
      <2>1. ASSUME NEW i \in 1..Len(s) PROVE new[i] = next[i]
            <3>1. CASE i = k
                  BY <1>0, <1>2, <1>3, <1>4, <1>9, <3>1
            <3>2. CASE i # k
                  <4>1. new[i] = now[i] /\ g[i] = h[i]
                        BY <1>3, <1>9, <3>2
                  <4>2. IsRef(s[i]) => (At(s, i) \notin left <=> At(s, i) \notin left \ {p})
                        BY <1>7, <3>2
                  <4>3. QED
                        BY <1>3, <1>4, <4>1, <4>2
            <3>3. QED
                  BY <3>1, <3>2
      <2> HIDE DEF new
      <2>2. QED
            BY <1>3, <1>4, <1>9, <2>1, SeqEqual
<1>11. Resolving!Cut(Flat(now), Flat(s), p, h[k]) = Flat(next)
      <2> DEFINE a == Len(UpTo(s, k - 1))
      <2>1. SubSeq(Flat(now), 1, a) \o h[k] \o SubSeq(Flat(now), a + Len(s[k]) + 1, Len(Flat(now))) = Flat(new)
            <3>1. k \in 1..Len(s) /\ Len(s) = Len(now)
                  BY <1>0, <1>3
            <3>2. QED
                  BY <1>1, <1>3, <1>8, <3>1, CutPiece
      <2>2. a \in Nat
            <3>1. k - 1 \in 0..Len(s)
                  BY <1>0, <1>1
            <3>2. UpTo(s, k - 1) \in Seq(Cell)
                  BY <1>1, <3>1, Grows
            <3>3. QED
                  BY <3>2
      <2>3. Len(s[k]) = Width[r] + 1 /\ Width[r] \in Nat
            BY <1>0, WrittenIs
      <2>4. p = 1 + a
            BY <1>0 DEF At
      <2> HIDE DEF a, new
      <2>5. p - 1 = a /\ p + Width[Resolving!RefAt(Flat(s), p)] + 1 = a + Len(s[k]) + 1
            <3> DEFINE b == Len(s[k])
                       c == Width[r]
            <3>1. b = c + 1 /\ c \in Nat /\ a \in Nat /\ p = 1 + a
                  BY <2>2, <2>3, <2>4
            <3> HIDE DEF b, c
            <3>2. p - 1 = a /\ p + c + 1 = a + b + 1
                  BY <3>1
            <3>3. QED
                  BY <1>2, <3>2 DEF b, c
      <2>6. QED
            BY <1>10, <2>1, <2>5 DEF Resolving!Cut
<1>12. h[k] = s[k] => now = next
      <2>1. ASSUME h[k] = s[k] PROVE new = now
            <3>1. now[k] = s[k]
                  <4>1. k \in 1..k
                        BY <1>0, <1>1
                  <4>2. QED
                        BY <1>8, <4>1
            <3>2. \A i \in 1..Len(now) : new[i] = now[i]
                  BY <1>9, <2>1, <3>1
            <3> HIDE DEF new
            <3>3. QED
                  BY <1>3, <1>9, <3>2, SeqEqual
      <2>2. QED
            BY <1>10, <2>1
<1>13. QED
      BY <1>11, <1>12 DEF Cuts, now, next

Parted == Seq(Resolving!Refs \union {"word"})
Replies == {None, Resolving!Typed}

(* The pieces that a command has as it is written, after the hosts, and    *)
(* after the secrets.                                                      *)
Before(parts) == [i \in 1..Len(parts) |-> Resolving!Written(parts[i])]
ReplyTo(parts, replies, i) == IF parts[i] = "word" THEN None ELSE replies[At(Before(parts), i)]
HostAs(what, reply, known, dns) ==
    IF what = "word" THEN Resolving!Written("word")
    ELSE IF what \in known THEN Resolving!Address(what)
    ELSE IF what \in dns THEN Resolving!Cells("name", Width[what])
    ELSE IF reply # None THEN reply ELSE Resolving!Written(what)
Hosted(parts, replies, known, dns) ==
    [i \in 1..Len(parts) |-> HostAs(parts[i], ReplyTo(parts, replies, i), known, dns)]
SecretAs(what, values, shown) ==
    IF values[what] = None THEN Resolving!Written(what)
    ELSE IF shown THEN Resolving!Mask ELSE Resolving!Value(what, values[what])
Revealed(parts, replies, known, dns, values, shown) ==
    [i \in 1..Len(parts) |->
        IF IsRef(Hosted(parts, replies, known, dns)[i]) THEN SecretAs(parts[i], values, shown)
        ELSE Hosted(parts, replies, known, dns)[i]]

(* A word has no mark.                                                     *)
LEMMA WordIs == Plain(Resolving!Written("word")) /\ Resolving!Written("word") \in Seq(Cell)
<1>1. Resolving!Written("word") = Resolving!Cells("word", 1)
      BY DEF Resolving!Written, Resolving!Word
<1>2. QED
      BY <1>1, CellsArePlain

(* A reference is one.                                                     *)
LEMMA WrittenIsRef ==
    ASSUME NEW r \in Resolving!Refs
    PROVE  IsRef(Resolving!Written(r)) /\ Resolving!Written(r) \in Seq(Cell) /\ r # "word"
BY WrittenIs, ReferenceAssumption DEF IsRef, Resolving!Refs

(* A command as it is written is made of references and plain pieces.      *)
LEMMA BeforeIs ==
    ASSUME NEW parts \in Parted
    PROVE  /\ Before(parts) \in Pieces /\ Len(Before(parts)) = Len(parts)
           /\ \A i \in 1..Len(parts) : /\ Before(parts)[i] = Resolving!Written(parts[i])
                                       /\ IsRef(Before(parts)[i]) <=> parts[i] \in Resolving!Refs
                                       /\ parts[i] \in Resolving!Refs <=> parts[i] # "word"
<1>1. Len(parts) \in Nat /\ \A i \in 1..Len(parts) : parts[i] \in Resolving!Refs \union {"word"}
      BY DEF Parted
<1>2. ASSUME NEW i \in 1..Len(parts)
      PROVE  /\ Resolving!Written(parts[i]) \in Seq(Cell)
             /\ IsRef(Resolving!Written(parts[i])) \/ Plain(Resolving!Written(parts[i]))
             /\ IsRef(Resolving!Written(parts[i])) <=> parts[i] \in Resolving!Refs
             /\ parts[i] \in Resolving!Refs <=> parts[i] # "word"
      <2>1. CASE parts[i] = "word"
            BY <2>1, WordIs, PlainIsNoRef, WrittenIsRef
      <2>2. CASE parts[i] \in Resolving!Refs
            BY <2>2, WrittenIsRef
      <2>3. QED
            BY <1>1, <2>1, <2>2
<1> DEFINE w(i) == Resolving!Written(parts[i])
           f == [i \in 1..Len(parts) |-> w(i)]
<1>3. \A i \in 1..Len(parts) : w(i) \in Seq(Cell)
      BY <1>2
<1> HIDE DEF w
<1>4. f \in Seq(Seq(Cell)) /\ Len(f) = Len(parts) /\ \A i \in 1..Len(parts) : f[i] = w(i)
      BY <1>1, <1>3, IsASeq
<1>5. Before(parts) = f
      BY DEF Before, w
<1> HIDE DEF f
<1>6. f \in Pieces
      BY <1>2, <1>4 DEF Pieces, w
<1>7. QED
      BY <1>2, <1>4, <1>5, <1>6 DEF w

(* An address has no mark,                                                 *)
LEMMA AddressIs == ASSUME NEW r PROVE Plain(Resolving!Address(r)) /\ Resolving!Address(r) \in Seq(Cell)
BY CellsArePlain DEF Resolving!Address

(* nor has one that is typed,                                              *)
LEMMA TypedIs == Plain(Resolving!Typed) /\ Resolving!Typed \in Seq(Cell)
BY CellsArePlain DEF Resolving!Typed

(* nor the name itself.                                                    *)
LEMMA NameIs ==
    ASSUME NEW r \in Resolving!Refs
    PROVE  Plain(Resolving!Cells("name", Width[r])) /\ Resolving!Cells("name", Width[r]) \in Seq(Cell)
BY CellsArePlain, WrittenIs

(* The mask is a text,                                                     *)
LEMMA MaskIs == Resolving!Mask \in Seq(Cell)
<1>1. <<"masked", 1>> \in Cell
      BY DEF Cell
<1>2. QED
      BY <1>1 DEF Resolving!Mask

(* and so is a value.                                                      *)
LEMMA ValueIs == ASSUME NEW r, NEW n \in Nat PROVE Resolving!Value(r, n) \in Seq(Cell)
BY CellsArePlain DEF Resolving!Value

(* After the hosts, it is still: references that nobody knew remain.       *)
LEMMA HostedIs ==
    ASSUME NEW parts \in Parted, NEW replies \in [Resolving!Matches(Flat(Before(parts))) -> Replies],
           NEW known, NEW dns
    PROVE  LET s == Hosted(parts, replies, known, dns) IN
           /\ s \in Pieces /\ s \in Alike(Before(parts)) /\ Len(s) = Len(parts)
           /\ \A i \in 1..Len(parts) :
                /\ s[i] = HostAs(parts[i], ReplyTo(parts, replies, i), known, dns)
                /\ ~IsRef(Before(parts)[i]) => s[i] = Before(parts)[i]
                /\ IsRef(s[i]) => parts[i] \in Resolving!Refs /\ s[i] = Resolving!Written(parts[i])
<1> DEFINE w(i) == HostAs(parts[i], ReplyTo(parts, replies, i), known, dns)
           f == [i \in 1..Len(parts) |-> w(i)]
<1>1. Len(parts) \in Nat /\ \A i \in 1..Len(parts) : parts[i] \in Resolving!Refs \union {"word"}
      BY DEF Parted
<1>2. ASSUME NEW i \in 1..Len(parts)
      PROVE  /\ w(i) \in Seq(Cell) /\ (IsRef(w(i)) \/ Plain(w(i)))
             /\ ~IsRef(Before(parts)[i]) => w(i) = Before(parts)[i]
             /\ IsRef(w(i)) => parts[i] \in Resolving!Refs /\ w(i) = Resolving!Written(parts[i])
      <2>1. CASE parts[i] = "word"
            <3>1. w(i) = Resolving!Written("word")
                  BY <2>1 DEF HostAs
            <3>2. Before(parts)[i] = Resolving!Written("word")
                  BY <2>1, BeforeIs
            <3> HIDE DEF w
            <3>3. QED
                  BY <3>1, <3>2, WordIs, PlainIsNoRef
      <2>2. CASE parts[i] \in Resolving!Refs
            <3>1. parts[i] # "word" /\ IsRef(Before(parts)[i])
                  BY <2>2, BeforeIs
            <3>2. ReplyTo(parts, replies, i) \in Replies
                  <4>1. At(Before(parts), i) \in Resolving!Matches(Flat(Before(parts)))
                        BY <2>2, BeforeIs, Marks
                  <4>2. QED
                        BY <3>1, <4>1 DEF ReplyTo
            <3>3. w(i) \in {Resolving!Address(parts[i]), Resolving!Cells("name", Width[parts[i]]), Resolving!Typed,
                            Resolving!Written(parts[i])}
                  BY <3>1, <3>2 DEF HostAs, Replies
            <3>4. CASE w(i) = Resolving!Written(parts[i])
                  BY <2>2, <3>1, <3>4, WrittenIsRef
            <3>5. CASE w(i) # Resolving!Written(parts[i])
                  <4> HIDE DEF w
                  <4>1. Plain(w(i)) /\ w(i) \in Seq(Cell)
                        BY <2>2, <3>3, <3>5, AddressIs, NameIs, TypedIs
                  <4>2. QED
                        BY <3>1, <4>1, PlainIsNoRef
            <3>6. QED
                  BY <3>4, <3>5
      <2>3. QED
            BY <1>1, <2>1, <2>2
<1>3. \A i \in 1..Len(parts) : w(i) \in Seq(Cell)
      BY <1>2
<1> HIDE DEF w
<1>4. f \in Seq(Seq(Cell)) /\ Len(f) = Len(parts) /\ \A i \in 1..Len(parts) : f[i] = w(i)
      BY <1>1, <1>3, IsASeq
<1>5. Hosted(parts, replies, known, dns) = f
      BY DEF Hosted, w
<1> HIDE DEF f
<1>6. f \in Pieces
      BY <1>2, <1>4 DEF Pieces
<1>7. f \in Alike(Before(parts))
      BY <1>4, BeforeIs DEF Alike
<1>8. \A i \in 1..Len(parts) :
         /\ f[i] = HostAs(parts[i], ReplyTo(parts, replies, i), known, dns)
         /\ ~IsRef(Before(parts)[i]) => f[i] = Before(parts)[i]
         /\ IsRef(f[i]) => parts[i] \in Resolving!Refs /\ f[i] = Resolving!Written(parts[i])
      <2>1. \A i \in 1..Len(parts) : f[i] = HostAs(parts[i], ReplyTo(parts, replies, i), known, dns)
            BY <1>4 DEF w
      <2>2. QED
            BY <1>2, <1>4, <2>1
<1>9. QED
      BY <1>4, <1>5, <1>6, <1>7, <1>8

(* After the secrets, their values or the mask are in their places.        *)
LEMMA RevealedIs ==
    ASSUME NEW parts \in Parted, NEW replies \in [Resolving!Matches(Flat(Before(parts))) -> Replies],
           NEW known, NEW dns, NEW values \in [Resolving!Refs -> Nat \union {None}], NEW shown
    PROVE  LET s == Hosted(parts, replies, known, dns)
               t == Revealed(parts, replies, known, dns, values, shown) IN
           /\ t \in Alike(s) /\ Len(t) = Len(parts)
           /\ \A i \in 1..Len(parts) : t[i] = IF IsRef(s[i]) THEN SecretAs(parts[i], values, shown) ELSE s[i]
<1> DEFINE s == Hosted(parts, replies, known, dns)
           w(i) == IF IsRef(s[i]) THEN SecretAs(parts[i], values, shown) ELSE s[i]
           f == [i \in 1..Len(parts) |-> w(i)]
<1>1. Len(parts) \in Nat
      BY DEF Parted
<1>2. Revealed(parts, replies, known, dns, values, shown) = f
      BY DEF Revealed
<1>3. s \in Seq(Seq(Cell)) /\ Len(s) = Len(parts) /\ \A i \in 1..Len(parts) : IsRef(s[i]) => parts[i] \in Resolving!Refs
      BY HostedIs DEF Pieces
<1> HIDE DEF s
<1>4. ASSUME NEW i \in 1..Len(parts) PROVE w(i) \in Seq(Cell)
      <2>1. s[i] \in Seq(Cell)
            BY <1>3
      <2>2. ASSUME NEW r \in Resolving!Refs PROVE SecretAs(r, values, shown) \in Seq(Cell)
            <3>1. values[r] # None => values[r] \in Nat
                  OBVIOUS
            <3>2. QED
                  BY <3>1, MaskIs, ValueIs, WrittenIsRef DEF SecretAs
      <2>3. QED
            BY <1>3, <2>1, <2>2
<1> HIDE DEF w
<1>5. f \in Seq(Seq(Cell)) /\ Len(f) = Len(parts) /\ \A i \in 1..Len(parts) : f[i] = w(i)
      BY <1>1, <1>4, IsASeq
<1> HIDE DEF f
<1>6. f \in Alike(s)
      BY <1>3, <1>5 DEF Alike
<1>7. QED
      BY <1>2, <1>5, <1>6 DEF s, w

LineTyped(l) == /\ l.parts \in Parted /\ l.hosts \in SUBSET (Resolving!Refs \ Qualified)
                /\ l.answers \in [Resolving!Matches(Flat(Before(l.parts))) -> Replies]

HostPass(l, dns) ==
    LET s == Before(l.parts) IN
    /\ l.text = Flat(s) /\ Passing(s, l.left)
    /\ \A p \in l.left : l.answers[p] = None
    /\ l.resolved = Flat(Mixed(s, Hosted(l.parts, l.answers, l.hosts, dns), l.left))

SecretPass(l, dns) ==
    LET s == Hosted(l.parts, l.answers, l.hosts, dns)
        t(shown) == Revealed(l.parts, l.answers, l.hosts, dns, l.values, shown) IN
    /\ l.text = Flat(s) /\ Passing(s, l.left)
    /\ l.values \in [Resolving!Refs -> Nat \union {None}]
    /\ l.resolved = Flat(Mixed(s, t(FALSE), l.left)) /\ l.safe = Flat(Mixed(s, t(TRUE), l.left))

(* References are told apart by their marks.                               *)
LEMMA SameRef == ASSUME NEW r \in Resolving!Refs, NEW q \in Resolving!Refs, Resolving!Written(r) = Resolving!Written(q)
                 PROVE  r = q
<1>1. <<r, 1>> = <<q, 1>>
      BY WrittenIs
<1>2. QED
      BY <1>1

(* A match that is replaced by what its reference stands for, or left      *)
(* where it stands for itself.                                             *)
HostMove(l, m, dns) ==
    LET p == Resolving!Max(l.left)
        r == Resolving!RefAt(l.text, p)
        by == HostAs(r, m.answers[p], l.hosts, dns) IN
    /\ m.parts = l.parts /\ m.hosts = l.hosts /\ m.text = l.text /\ m.left = l.left \ {p}
    /\ \A q \in DOMAIN l.answers : q # p => m.answers[q] = l.answers[q]
    /\ \/ m.resolved = Resolving!Cut(l.resolved, l.text, p, by)
       \/ by = Resolving!Written(r) /\ m.resolved = l.resolved

(* The next host is the reference at the last match that is left.          *)
LEMMA HostNext ==
    ASSUME NEW l, NEW dns, LineTyped(l), HostPass(l, dns), l.left # {}
    PROVE  /\ Resolving!Max(l.left) \in l.left /\ Resolving!RefAt(l.text, Resolving!Max(l.left)) \in Resolving!Refs
           /\ \E k \in 1..Len(l.parts) :
                 /\ l.parts[k] = Resolving!RefAt(l.text, Resolving!Max(l.left))
                 /\ IsNext(Before(l.parts), l.left, Resolving!Max(l.left), k, l.parts[k])
<1> DEFINE s == Before(l.parts)
           p == Resolving!Max(l.left)
<1>1. s \in Pieces /\ Len(s) = Len(l.parts)
      BY BeforeIs DEF LineTyped
<1>2. l.text = Flat(s) /\ Passing(s, l.left)
      BY DEF HostPass
<1> HIDE DEF s
<1>3. PICK k, r : IsNext(s, l.left, p, k, r)
      BY <1>1, <1>2, NextIs
<1>4. /\ p \in l.left /\ k \in 1..Len(s) /\ r \in Resolving!Refs /\ s[k] = Resolving!Written(r)
      /\ Resolving!RefAt(l.text, p) = r
      BY <1>2, <1>3 DEF IsNext
<1>5. l.parts[k] = r
      <2>1. k \in 1..Len(l.parts) /\ IsRef(s[k])
            BY <1>1, <1>4 DEF IsRef
      <2>2. s[k] = Resolving!Written(l.parts[k]) /\ l.parts[k] \in Resolving!Refs
            BY <2>1, BeforeIs DEF LineTyped, s
      <2>3. QED
            BY <1>4, <2>2, SameRef
<1>6. QED
      BY <1>1, <1>3, <1>4, <1>5 DEF s

(* A move of the pass over the hosts keeps what the pass has done.         *)
LEMMA HostMoves ==
    ASSUME NEW l, NEW m, NEW dns, LineTyped(l), LineTyped(m), HostPass(l, dns), l.left # {}, HostMove(l, m, dns)
    PROVE  HostPass(m, dns)
<1> DEFINE s == Before(l.parts)
           g == Hosted(l.parts, l.answers, l.hosts, dns)
           h == Hosted(l.parts, m.answers, l.hosts, dns)
           p == Resolving!Max(l.left)
           r == Resolving!RefAt(l.text, p)
           left == l.left
           by == HostAs(r, m.answers[p], l.hosts, dns)
<1>0. /\ m.parts = l.parts /\ m.hosts = l.hosts /\ m.text = l.text /\ m.left = left \ {p}
      /\ \A q \in DOMAIN l.answers : q # p => m.answers[q] = l.answers[q]
      /\ \/ m.resolved = Resolving!Cut(l.resolved, l.text, p, by)
         \/ by = Resolving!Written(r) /\ m.resolved = l.resolved
      BY DEF HostMove
<1>1. s \in Pieces /\ Len(s) = Len(l.parts)
      BY BeforeIs DEF LineTyped
<1>2. /\ l.parts \in Parted /\ l.answers \in [Resolving!Matches(Flat(s)) -> Replies]
      /\ m.answers \in [Resolving!Matches(Flat(s)) -> Replies]
      BY <1>0 DEF LineTyped
<1>3. g \in Alike(s) /\ h \in Alike(s)
      BY <1>2, HostedIs
<1>4. l.text = Flat(s) /\ Passing(s, left) /\ l.resolved = Flat(Mixed(s, g, left)) /\ \A q \in left : l.answers[q] = None
      BY DEF HostPass
<1>5. PICK k \in 1..Len(l.parts) : l.parts[k] = r /\ IsNext(s, left, p, k, r)
      BY HostNext
<1>6. p \in left /\ p = At(s, k) /\ r \in Resolving!Refs /\ s[k] = Resolving!Written(r) /\ Passing(s, left \ {p})
      BY <1>5 DEF IsNext
<1> HIDE DEF p, r, left
<1>7. h[k] = by
      <2>1. r # "word"
            BY <1>6, WrittenIsRef
      <2>2. h[k] = HostAs(l.parts[k], ReplyTo(l.parts, m.answers, k), l.hosts, dns)
            BY <1>2, HostedIs
      <2>3. ReplyTo(l.parts, m.answers, k) = m.answers[p]
            BY <1>5, <1>6, <2>1 DEF ReplyTo
      <2>4. QED
            BY <1>5, <2>2, <2>3
<1>8. ASSUME NEW i \in 1..Len(s), i # k PROVE g[i] = h[i]
      <2>1. i \in 1..Len(l.parts)
            BY <1>1
      <2>2. /\ g[i] = HostAs(l.parts[i], ReplyTo(l.parts, l.answers, i), l.hosts, dns)
            /\ h[i] = HostAs(l.parts[i], ReplyTo(l.parts, m.answers, i), l.hosts, dns)
            BY <1>2, <2>1, HostedIs
      <2>3. CASE l.parts[i] = "word"
            BY <2>2, <2>3 DEF ReplyTo
      <2>4. CASE l.parts[i] # "word"
            <3>1. IsRef(s[i]) /\ s[i] = Resolving!Written(l.parts[i]) /\ l.parts[i] \in Resolving!Refs
                  BY <1>2, <2>1, <2>4, BeforeIs
            <3>2. At(s, i) \in Resolving!Matches(Flat(s))
                  BY <1>1, <3>1, Marks
            <3>3. At(s, i) # p
                  <4>1. IsRef(s[k]) /\ i # k /\ k \in 1..Len(s)
                        BY <1>1, <1>6, <1>8, WrittenIsRef
                  <4> HIDE DEF s
                  <4>2. At(s, i) # At(s, k)
                        BY <1>1, <3>1, <4>1, OneAt
                  <4>3. QED
                        BY <1>6, <4>2
            <3>4. At(s, i) \in DOMAIN l.answers
                  BY <1>2, <3>2
            <3>5. l.answers[At(s, i)] = m.answers[At(s, i)]
                  BY <1>0, <3>3, <3>4
            <3>6. QED
                  BY <2>2, <2>4, <3>5 DEF ReplyTo
      <2>5. QED
            BY <2>3, <2>4
<1> HIDE DEF g, h, s, by
<1>9. Cuts(s, left, p, g, h, k)
      BY <1>1, <1>3, <1>4, <1>5, <1>8, CutMark
<1>10. m.resolved = Flat(Mixed(s, h, left \ {p}))
      BY <1>0, <1>4, <1>6, <1>7, <1>9 DEF Cuts
<1>11. \A q \in m.left : m.answers[q] = None
      <2>1. \A q \in left : q \in DOMAIN l.answers /\ l.answers[q] = None
            BY <1>2, <1>4 DEF Passing
      <2>2. QED
            BY <1>0, <2>1
<1>12. QED
      BY <1>0, <1>4, <1>6, <1>10, <1>11 DEF HostPass, s, h

SecretMove(l, m) ==
    LET p == Resolving!Max(l.left)
        r == Resolving!RefAt(l.text, p) IN
    /\ m.parts = l.parts /\ m.hosts = l.hosts /\ m.text = l.text /\ m.answers = l.answers /\ m.left = l.left \ {p}
    /\ m.values = l.values
    /\ IF r \in l.hosts \/ l.values[r] = None THEN m.resolved = l.resolved /\ m.safe = l.safe
       ELSE /\ m.safe = Resolving!Cut(l.safe, l.text, p, Resolving!Mask)
            /\ m.resolved = Resolving!Cut(l.resolved, l.text, p, Resolving!Value(r, l.values[r]))

(* The next secret is one too, and no host.                                *)
LEMMA SecretNext ==
    ASSUME NEW l, NEW dns, LineTyped(l), SecretPass(l, dns), l.left # {}
    PROVE  /\ Resolving!RefAt(l.text, Resolving!Max(l.left)) \in Resolving!Refs \ l.hosts
           /\ \E k \in 1..Len(l.parts) :
                 /\ l.parts[k] = Resolving!RefAt(l.text, Resolving!Max(l.left))
                 /\ IsNext(Hosted(l.parts, l.answers, l.hosts, dns), l.left, Resolving!Max(l.left), k, l.parts[k])
<1> DEFINE s == Hosted(l.parts, l.answers, l.hosts, dns)
           p == Resolving!Max(l.left)
<1>1. s \in Pieces /\ Len(s) = Len(l.parts)
      BY HostedIs DEF LineTyped
<1>2. l.text = Flat(s) /\ Passing(s, l.left)
      BY DEF SecretPass
<1> HIDE DEF s
<1>3. PICK k, r : IsNext(s, l.left, p, k, r)
      BY <1>1, <1>2, NextIs
<1>4. /\ p \in l.left /\ k \in 1..Len(s) /\ r \in Resolving!Refs /\ s[k] = Resolving!Written(r)
      /\ Resolving!RefAt(l.text, p) = r /\ IsRef(s[k])
      BY <1>2, <1>3 DEF IsNext, IsRef
<1>5. l.parts[k] = r
      <2>1. k \in 1..Len(l.parts)
            BY <1>1, <1>4
      <2>2. s[k] = Resolving!Written(l.parts[k]) /\ l.parts[k] \in Resolving!Refs
            BY <1>4, <2>1, HostedIs DEF LineTyped, s
      <2>3. QED
            BY <1>4, <2>2, SameRef
<1>6. r \notin l.hosts
      <2>1. k \in 1..Len(l.parts) /\ r # "word"
            BY <1>1, <1>4, WrittenIsRef
      <2>2. s[k] = HostAs(r, ReplyTo(l.parts, l.answers, k), l.hosts, dns)
            BY <1>5, <2>1, HostedIs DEF LineTyped, s
      <2>3. ASSUME r \in l.hosts PROVE FALSE
            <3>1. s[k] = Resolving!Address(r)
                  BY <2>1, <2>2, <2>3 DEF HostAs
            <3>2. QED
                  BY <1>4, <3>1, AddressIs, PlainIsNoRef
      <2>4. QED
            BY <2>3
<1>7. QED
      BY <1>1, <1>3, <1>4, <1>5, <1>6 DEF s

(* A move of the pass over the secrets keeps what the pass has done.       *)
LEMMA SecretMoves ==
    ASSUME NEW l, NEW m, NEW dns, LineTyped(l), SecretPass(l, dns), l.left # {}, SecretMove(l, m)
    PROVE  SecretPass(m, dns)
<1> DEFINE s == Hosted(l.parts, l.answers, l.hosts, dns)
           t(shown) == Revealed(l.parts, l.answers, l.hosts, dns, l.values, shown)
           p == Resolving!Max(l.left)
           r == Resolving!RefAt(l.text, p)
           left == l.left
<1>0. /\ m.parts = l.parts /\ m.hosts = l.hosts /\ m.text = l.text /\ m.answers = l.answers /\ m.left = left \ {p}
      /\ m.values = l.values
      /\ IF r \in l.hosts \/ l.values[r] = None THEN m.resolved = l.resolved /\ m.safe = l.safe
         ELSE /\ m.safe = Resolving!Cut(l.safe, l.text, p, Resolving!Mask)
              /\ m.resolved = Resolving!Cut(l.resolved, l.text, p, Resolving!Value(r, l.values[r]))
      BY DEF SecretMove
<1>1. s \in Pieces /\ Len(s) = Len(l.parts)
      BY HostedIs DEF LineTyped
<1>2. l.values \in [Resolving!Refs -> Nat \union {None}] /\ l.text = Flat(s) /\ Passing(s, left)
      /\ l.resolved = Flat(Mixed(s, t(FALSE), left)) /\ l.safe = Flat(Mixed(s, t(TRUE), left))
      BY DEF SecretPass
<1>3. ASSUME NEW shown \in BOOLEAN
      PROVE  t(shown) \in Alike(s) /\ \A i \in 1..Len(l.parts) :
                t(shown)[i] = IF IsRef(s[i]) THEN SecretAs(l.parts[i], l.values, shown) ELSE s[i]
      BY <1>2, RevealedIs DEF LineTyped
<1>4. r \notin l.hosts /\ \E k \in 1..Len(l.parts) : l.parts[k] = r /\ IsNext(s, left, p, k, l.parts[k])
      BY SecretNext
<1>5. PICK k \in 1..Len(l.parts) : l.parts[k] = r /\ IsNext(s, left, p, k, r)
      BY <1>4
<1>6. s[k] = Resolving!Written(r) /\ IsRef(s[k]) /\ Passing(s, left \ {p})
      BY <1>5 DEF IsNext, IsRef
<1> HIDE DEF s, t, p, r, left
<1>7. ASSUME NEW shown \in BOOLEAN
      PROVE  /\ Resolving!Cut(Flat(Mixed(s, t(shown), left)), Flat(s), p, SecretAs(r, l.values, shown))
                = Flat(Mixed(s, t(shown), left \ {p}))
             /\ l.values[r] = None => Flat(Mixed(s, t(shown), left)) = Flat(Mixed(s, t(shown), left \ {p}))
      <2> DEFINE g == t(shown)
      <2>1. g \in Alike(s) /\ g[k] = SecretAs(r, l.values, shown)
            BY <1>3, <1>5, <1>6
      <2>2. l.values[r] = None => g[k] = s[k]
            BY <1>6, <2>1 DEF SecretAs
      <2> HIDE DEF g
      <2>3. Cuts(s, left, p, g, g, k)
            BY <1>1, <1>2, <1>5, <2>1, CutMark
      <2>4. QED
            BY <2>1, <2>2, <2>3 DEF g, Cuts
<1>8. m.resolved = Flat(Mixed(s, t(FALSE), left \ {p})) /\ m.safe = Flat(Mixed(s, t(TRUE), left \ {p}))
      <2>1. CASE l.values[r] = None
            BY <1>0, <1>2, <1>7, <2>1
      <2>2. CASE l.values[r] # None
            <3>1. /\ SecretAs(r, l.values, FALSE) = Resolving!Value(r, l.values[r])
                  /\ SecretAs(r, l.values, TRUE) = Resolving!Mask
                  BY <2>2 DEF SecretAs
            <3>2. QED
                  BY <1>0, <1>2, <1>4, <1>7, <2>2, <3>1
      <2>3. QED
            BY <2>1, <2>2
<1>9. QED
      BY <1>0, <1>2, <1>6, <1>8 DEF SecretPass, s, t

Fields == {"pc", "parts", "text", "resolved", "safe", "left", "hosts", "answers", "values"}

(* In the pass over the hosts, and in the one over the secrets, what is    *)
(* left is as it was and the rest is replaced; a user is asked only for    *)
(* what nobody knows.                                                      *)
ReferencesInv ==
    /\ names \in SUBSET (Resolving!Refs \ Qualified) /\ inventory \in [Resolving!Refs \ Qualified -> BOOLEAN]
    /\ secrets \in [Resolving!Refs -> {0, 2} \union {None}]
    /\ DOMAIN line = Fields /\ line.pc \in {"idle", "hosts", "ask", "secrets"}
    /\ line.pc # "idle" => LineTyped(line)
    /\ line.pc \in {"hosts", "ask"} => HostPass(line, names)
    /\ line.pc = "ask" => /\ line.left # {}
                          /\ Resolving!RefAt(line.text, Resolving!Max(line.left)) \notin line.hosts \union names
    /\ line.pc = "secrets" => /\ SecretPass(line, names)
                              /\ line.values = [r \in Resolving!Refs |-> Resolving!Secret(r)]

(* No command is under way.                                                *)
LEMMA NoLineIs == DOMAIN Resolving!NoLine = Fields /\ Resolving!NoLine.pc = "idle"
BY DEF Resolving!NoLine, Fields

(* The invariant holds at the start.                                       *)
LEMMA ReferencesStart == Resolving!ReferencesInit => ReferencesInv
BY NoLineIs DEF Resolving!ReferencesInit, ReferencesInv

(* A command begins: all its references are left.                          *)
LEMMA BeginKeeps ==
    ASSUME ReferencesInv, NEW n \in 1..MaxParts, NEW parts \in [1..n -> Resolving!Refs \union {Resolving!Word}],
           Resolving!Begin(parts)
    PROVE  ReferencesInv'
<1> DEFINE s == Before(parts)
           text == Flat(s)
           known == {r \in DOMAIN inventory : inventory[r]}
           none == [p \in Resolving!Matches(text) |-> None]
<1>1. n \in Nat /\ parts \in Parted
      <2>1. n \in Nat
            BY ReferenceAssumption
      <2>2. QED
            BY <2>1 DEF Parted, Resolving!Word
<1>2. s \in Pieces
      BY <1>1, BeforeIs
<1>3. /\ line' = [Resolving!NoLine EXCEPT !.pc = "hosts", !.parts = parts, !.text = text, !.resolved = text,
                      !.left = Resolving!Matches(text), !.answers = none, !.hosts = known]
      /\ UNCHANGED <<inventory, names, secrets, legacy>>
      BY DEF Resolving!Begin, Before, Flat
<1> HIDE DEF text, known, none, s
<1>4. /\ DOMAIN line' = Fields /\ line'.pc = "hosts" /\ line'.parts = parts /\ line'.text = text
      /\ line'.resolved = text /\ line'.left = Resolving!Matches(text) /\ line'.answers = none /\ line'.hosts = known
      BY <1>3, NoLineIs DEF Fields
<1>5. LineTyped(line')
      <2>1. known \in SUBSET (Resolving!Refs \ Qualified)
            BY DEF known, ReferencesInv
      <2>2. none \in [Resolving!Matches(text) -> Replies]
            BY DEF none, Replies
      <2>3. QED
            BY <1>1, <1>4, <2>1, <2>2 DEF LineTyped, text, s
<1>6. HostPass(line', names)
      <2> DEFINE g == Hosted(parts, none, known, names)
      <2>1. g \in Alike(s)
            <3>1. none \in [Resolving!Matches(Flat(Before(parts))) -> Replies]
                  BY DEF none, Replies, text, s
            <3>2. QED
                  BY <1>1, <3>1, HostedIs DEF s
      <2> HIDE DEF g
      <2>2. Flat(Mixed(s, g, Resolving!Matches(Flat(s)))) = Flat(s)
            BY <1>2, <2>1, MixedAll
      <2>3. Passing(s, Resolving!Matches(Flat(s)))
            BY DEF Passing
      <2>4. \A p \in Resolving!Matches(text) : none[p] = None
            BY DEF none
      <2>5. QED
            BY <1>4, <2>2, <2>3, <2>4 DEF HostPass, text, g, s
<1>7. QED
      BY <1>3, <1>4, <1>5, <1>6 DEF ReferencesInv

(* A host is replaced, left, or asked for.                                 *)
LEMMA ResolveHostKeeps == ASSUME ReferencesInv, Resolving!ResolveHost PROVE ReferencesInv'
<1> DEFINE p == Resolving!Max(line.left)
           r == Resolving!RefAt(line.text, p)
           skip == r \in Qualified \/ (r \in Keywords /\ r \notin line.hosts /\ r \notin names)
           by == HostAs(r, line.answers[p], line.hosts, names)
<1>0. /\ line.pc = "hosts" /\ line.left # {} /\ LineTyped(line) /\ HostPass(line, names) /\ DOMAIN line = Fields
      /\ names \in SUBSET (Resolving!Refs \ Qualified) /\ line.hosts \in SUBSET (Resolving!Refs \ Qualified)
      BY DEF Resolving!ResolveHost, ReferencesInv, LineTyped
<1>1. p \in line.left /\ r \in Resolving!Refs
      BY <1>0, HostNext
<1>2. line.answers[p] = None
      BY <1>0, <1>1 DEF HostPass
<1>3. UNCHANGED <<inventory, names, secrets, legacy>>
      BY DEF Resolving!ResolveHost
<1>4. r # "word"
      BY <1>1, WrittenIsRef
<1>5. \/ /\ ~skip /\ r \in line.hosts
         /\ line' = [line EXCEPT !.resolved = Resolving!Cut(@, line.text, p, Resolving!Address(r)), !.left = @ \ {p}]
      \/ /\ ~skip /\ r \notin line.hosts /\ r \in names
         /\ line' = [line EXCEPT !.resolved = Resolving!Cut(@, line.text, p, Resolving!Cells("name", Width[r])),
                                 !.left = @ \ {p}]
      \/ /\ ~skip /\ r \notin line.hosts \union names /\ line' = [line EXCEPT !.pc = "ask"]
      \/ skip /\ line' = [line EXCEPT !.left = @ \ {p}]
      <2>1. line' = CASE ~skip /\ r \in line.hosts ->
                       [line EXCEPT !.resolved = Resolving!Cut(@, line.text, p, Resolving!Address(r)), !.left = @ \ {p}]
                 [] ~skip /\ r \notin line.hosts /\ r \in names ->
                       [line EXCEPT !.resolved = Resolving!Cut(@, line.text, p, Resolving!Cells("name", Width[r])),
                                    !.left = @ \ {p}]
                 [] ~skip /\ r \notin line.hosts \union names -> [line EXCEPT !.pc = "ask"]
                 [] OTHER -> [line EXCEPT !.left = @ \ {p}]
            BY DEF Resolving!ResolveHost, Resolving!NextMatch
      <2> HIDE DEF p, r, skip
      <2>2. CASE skip
            BY <2>1, <2>2
      <2>3. CASE ~skip /\ r \in line.hosts
            BY <2>1, <2>3
      <2>4. CASE ~skip /\ r \notin line.hosts /\ r \in names
            BY <2>1, <2>4
      <2>5. CASE ~skip /\ r \notin line.hosts \union names
            BY <2>1, <2>5
      <2>6. QED
            BY <2>2, <2>3, <2>4, <2>5
<1>6. CASE /\ ~skip /\ r \notin line.hosts \union names
           /\ line' = [line EXCEPT !.pc = "ask"]
      <2>1. /\ DOMAIN line' = Fields /\ line'.pc = "ask" /\ line'.parts = line.parts /\ line'.text = line.text
            /\ line'.resolved = line.resolved /\ line'.left = line.left /\ line'.answers = line.answers
            /\ line'.hosts = line.hosts
            BY <1>0, <1>6 DEF Fields
      <2>2. LineTyped(line') /\ HostPass(line', names)
            BY <1>0, <2>1 DEF LineTyped, HostPass
      <2>3. QED
            BY <1>0, <1>3, <1>6, <2>1, <2>2 DEF ReferencesInv
<1>7. ASSUME /\ DOMAIN line' = Fields /\ line'.pc = "hosts" /\ line'.parts = line.parts /\ line'.text = line.text
             /\ line'.left = line.left \ {p} /\ line'.answers = line.answers /\ line'.hosts = line.hosts
             /\ \/ line'.resolved = Resolving!Cut(line.resolved, line.text, p, by)
                \/ by = Resolving!Written(r) /\ line'.resolved = line.resolved
      PROVE  ReferencesInv'
      <2>1. LineTyped(line')
            BY <1>0, <1>7 DEF LineTyped
      <2>2. HostMove(line, line', names)
            BY <1>7 DEF HostMove
      <2>3. HostPass(line', names)
            BY <1>0, <2>1, <2>2, HostMoves
      <2>4. QED
            BY <1>3, <1>7, <2>1, <2>3 DEF ReferencesInv
<1>8. CASE /\ ~skip /\ r \in line.hosts
           /\ line' = [line EXCEPT !.resolved = Resolving!Cut(@, line.text, p, Resolving!Address(r)), !.left = @ \ {p}]
      <2>1. by = Resolving!Address(r)
            BY <1>4, <1>8 DEF HostAs
      <2>2. /\ DOMAIN line' = Fields /\ line'.pc = "hosts" /\ line'.parts = line.parts /\ line'.text = line.text
            /\ line'.left = line.left \ {p} /\ line'.answers = line.answers /\ line'.hosts = line.hosts
            /\ line'.resolved = Resolving!Cut(line.resolved, line.text, p, Resolving!Address(r))
            BY <1>0, <1>8 DEF Fields
      <2>3. QED
            BY <1>7, <2>1, <2>2
<1>9. CASE /\ ~skip /\ r \notin line.hosts /\ r \in names
           /\ line' = [line EXCEPT !.resolved = Resolving!Cut(@, line.text, p, Resolving!Cells("name", Width[r])),
                                   !.left = @ \ {p}]
      <2>1. by = Resolving!Cells("name", Width[r])
            BY <1>4, <1>9 DEF HostAs
      <2>2. /\ DOMAIN line' = Fields /\ line'.pc = "hosts" /\ line'.parts = line.parts /\ line'.text = line.text
            /\ line'.left = line.left \ {p} /\ line'.answers = line.answers /\ line'.hosts = line.hosts
            /\ line'.resolved = Resolving!Cut(line.resolved, line.text, p, Resolving!Cells("name", Width[r]))
            BY <1>0, <1>9 DEF Fields
      <2>3. QED
            BY <1>7, <2>1, <2>2
<1>10. CASE skip /\ line' = [line EXCEPT !.left = @ \ {p}]
      <2>1. by = Resolving!Written(r)
            BY <1>0, <1>2, <1>4, <1>10 DEF HostAs
      <2>2. /\ DOMAIN line' = Fields /\ line'.pc = "hosts" /\ line'.parts = line.parts /\ line'.text = line.text
            /\ line'.left = line.left \ {p} /\ line'.answers = line.answers /\ line'.hosts = line.hosts
            /\ line'.resolved = line.resolved
            BY <1>0, <1>10 DEF Fields
      <2>3. QED
            BY <1>7, <2>1, <2>2
<1>11. QED
      BY <1>5, <1>6, <1>8, <1>9, <1>10

(* The answer of the user replaces it, or leaves it.                       *)
LEMMA AnswerKeeps ==
    ASSUME ReferencesInv, NEW address \in {Resolving!Typed, None}, Resolving!Answer(address) PROVE ReferencesInv'
<1> DEFINE p == Resolving!Max(line.left)
           r == Resolving!RefAt(line.text, p)
           by == HostAs(r, line'.answers[p], line.hosts, names)
<1>0. /\ line.pc = "ask" /\ line.left # {} /\ LineTyped(line) /\ HostPass(line, names) /\ DOMAIN line = Fields
      /\ r \notin line.hosts \union names
      BY DEF Resolving!Answer, ReferencesInv
<1>1. p \in line.left /\ r \in Resolving!Refs /\ r # "word"
      BY <1>0, HostNext, WrittenIsRef
<1>2. UNCHANGED <<inventory, names, secrets, legacy>>
      BY DEF Resolving!Answer
<1>3. line' = [line EXCEPT !.pc = "hosts", !.left = @ \ {p}, !.answers[p] = address,
                           !.resolved = IF address = None THEN @ ELSE Resolving!Cut(@, line.text, p, address)]
      BY DEF Resolving!Answer, Resolving!NextMatch
<1> HIDE DEF p, r
<1>4. /\ DOMAIN line' = Fields /\ line'.pc = "hosts" /\ line'.parts = line.parts /\ line'.text = line.text
      /\ line'.left = line.left \ {p} /\ line'.answers = [line.answers EXCEPT ![p] = address]
      /\ line'.hosts = line.hosts
      /\ line'.resolved = IF address = None THEN line.resolved ELSE Resolving!Cut(line.resolved, line.text, p, address)
      BY <1>0, <1>3 DEF Fields
<1>5. /\ line.answers \in [Resolving!Matches(Flat(Before(line.parts))) -> Replies]
      /\ p \in Resolving!Matches(Flat(Before(line.parts)))
      BY <1>0, <1>1 DEF LineTyped, HostPass, Passing
<1>6. /\ line'.answers \in [Resolving!Matches(Flat(Before(line.parts))) -> Replies] /\ line'.answers[p] = address
      /\ \A q \in DOMAIN line.answers : q # p => line'.answers[q] = line.answers[q]
      <2>1. address \in Replies
            BY DEF Replies
      <2>2. QED
            BY <1>4, <1>5, <2>1
<1>7. LineTyped(line')
      BY <1>0, <1>4, <1>6 DEF LineTyped
<1>8. by = IF address = None THEN Resolving!Written(r) ELSE address
      BY <1>0, <1>1, <1>6 DEF HostAs
<1> HIDE DEF by
<1>9. HostMove(line, line', names)
      <2>1. \/ line'.resolved = Resolving!Cut(line.resolved, line.text, p, by)
            \/ by = Resolving!Written(r) /\ line'.resolved = line.resolved
            BY <1>4, <1>8
      <2>2. QED
            BY <1>4, <1>6, <2>1 DEF HostMove, p, r, by
<1>10. HostPass(line', names)
      BY <1>0, <1>7, <1>9, HostMoves
<1>11. QED
      BY <1>2, <1>4, <1>7, <1>10 DEF ReferencesInv

(* The second pass begins where the first one ended.                       *)
LEMMA FindSecretsKeeps == ASSUME ReferencesInv, Resolving!FindSecrets PROVE ReferencesInv'
<1> DEFINE s == Hosted(line.parts, line.answers, line.hosts, names)
           values == [r \in Resolving!Refs |-> Resolving!Secret(r)]
           t(shown) == Revealed(line.parts, line.answers, line.hosts, names, values, shown)
<1>0. /\ line.pc = "hosts" /\ line.left = {} /\ LineTyped(line) /\ HostPass(line, names) /\ DOMAIN line = Fields
      /\ secrets \in [Resolving!Refs -> {0, 2} \union {None}]
      BY DEF Resolving!FindSecrets, ReferencesInv
<1>1. /\ line' = [line EXCEPT !.pc = "secrets", !.text = line.resolved, !.safe = line.resolved,
                             !.left = Resolving!Matches(line.resolved), !.values = values]
      /\ UNCHANGED <<inventory, names, secrets, legacy>>
      BY DEF Resolving!FindSecrets
<1>2. values \in [Resolving!Refs -> Nat \union {None}]
      BY <1>0 DEF Resolving!Secret
<1>3. s \in Pieces /\ s \in Alike(Before(line.parts)) /\ Before(line.parts) \in Pieces
      BY <1>0, HostedIs, BeforeIs DEF LineTyped
<1>4. line.resolved = Flat(s)
      <2>1. line.resolved = Flat(Mixed(Before(line.parts), s, {}))
            BY <1>0 DEF HostPass
      <2>2. \A i \in 1..Len(Before(line.parts)) : ~IsRef(Before(line.parts)[i]) => s[i] = Before(line.parts)[i]
            BY <1>0, HostedIs, BeforeIs DEF LineTyped
      <2> HIDE DEF s
      <2>3. QED
            BY <1>3, <2>1, <2>2, MixedNone
<1>5. t(FALSE) \in Alike(s) /\ t(TRUE) \in Alike(s)
      <2> HIDE DEF values
      <2>1. \A shown : t(shown) \in Alike(s)
            BY <1>0, <1>2, RevealedIs DEF LineTyped
      <2>2. QED
            BY <2>1
<1> HIDE DEF s, values, t
<1>6. /\ DOMAIN line' = Fields /\ line'.pc = "secrets" /\ line'.parts = line.parts /\ line'.text = Flat(s)
      /\ line'.left = Resolving!Matches(Flat(s)) /\ line'.answers = line.answers
      /\ line'.hosts = line.hosts /\ line'.values = values
      /\ line'.resolved = Flat(s) /\ line'.safe = Flat(s)
      BY <1>0, <1>1, <1>4 DEF Fields
<1>7. LineTyped(line')
      BY <1>0, <1>6 DEF LineTyped
<1>8. SecretPass(line', names)
      <2>1. /\ Flat(Mixed(s, t(FALSE), Resolving!Matches(Flat(s)))) = Flat(s)
            /\ Flat(Mixed(s, t(TRUE), Resolving!Matches(Flat(s)))) = Flat(s)
            BY <1>3, <1>5, MixedAll
      <2>2. Passing(s, Resolving!Matches(Flat(s)))
            BY DEF Passing
      <2>3. QED
            BY <1>2, <1>6, <2>1, <2>2 DEF SecretPass, s, t
<1>9. line'.values = [r \in Resolving!Refs |-> Resolving!Secret(r)']
      BY <1>1, <1>6 DEF values, Resolving!Secret
<1>10. QED
      BY <1>1, <1>6, <1>7, <1>8, <1>9 DEF ReferencesInv, Resolving!Refs

(* A secret is replaced, or left.                                          *)
LEMMA ResolveSecretKeeps == ASSUME ReferencesInv, Resolving!ResolveSecret PROVE ReferencesInv'
<1> DEFINE p == Resolving!Max(line.left)
           r == Resolving!RefAt(line.text, p)
<1>0. /\ line.pc = "secrets" /\ line.left # {} /\ LineTyped(line) /\ SecretPass(line, names) /\ DOMAIN line = Fields
      /\ line.values = [q \in Resolving!Refs |-> Resolving!Secret(q)]
      BY DEF Resolving!ResolveSecret, ReferencesInv
<1>1. r \in Resolving!Refs
      BY <1>0, SecretNext
<1>2. Resolving!Secret(r) = line.values[r]
      BY <1>0, <1>1
<1>3. /\ line' = IF r \in line.hosts \/ line.values[r] = None
                 THEN [line EXCEPT !.left = @ \ {p}]
                 ELSE [line EXCEPT !.left = @ \ {p}, !.safe = Resolving!Cut(@, line.text, p, Resolving!Mask),
                                   !.resolved = Resolving!Cut(@, line.text, p, Resolving!Value(r, line.values[r]))]
      /\ UNCHANGED <<inventory, names, secrets, legacy>>
      BY <1>2 DEF Resolving!ResolveSecret, Resolving!NextMatch
<1> HIDE DEF p, r
<1>4. /\ DOMAIN line' = Fields /\ line'.pc = "secrets" /\ line'.parts = line.parts /\ line'.text = line.text
      /\ line'.left = line.left \ {p} /\ line'.answers = line.answers /\ line'.hosts = line.hosts
      /\ line'.values = line.values
      /\ IF r \in line.hosts \/ line.values[r] = None THEN line'.resolved = line.resolved /\ line'.safe = line.safe
         ELSE /\ line'.safe = Resolving!Cut(line.safe, line.text, p, Resolving!Mask)
              /\ line'.resolved = Resolving!Cut(line.resolved, line.text, p, Resolving!Value(r, line.values[r]))
      <2>1. CASE r \in line.hosts \/ line.values[r] = None
            BY <1>0, <1>3, <2>1 DEF Fields
      <2>2. CASE ~(r \in line.hosts \/ line.values[r] = None)
            BY <1>0, <1>3, <2>2 DEF Fields
      <2>3. QED
            BY <2>1, <2>2
<1>5. LineTyped(line')
      BY <1>0, <1>4 DEF LineTyped
<1>6. SecretMove(line, line')
      BY <1>4 DEF SecretMove, p, r
<1>7. SecretPass(line', names)
      BY <1>0, <1>6, SecretMoves
<1>8. line'.values = [q \in Resolving!Refs |-> Resolving!Secret(q)']
      BY <1>0, <1>3, <1>4 DEF Resolving!Secret
<1>9. QED
      BY <1>3, <1>4, <1>5, <1>7, <1>8 DEF ReferencesInv, Resolving!Refs

(* What the user edits meanwhile is not looked at before it is due.        *)
LEMMA EditKeeps ==
    ASSUME ReferencesInv, NEW r \in Resolving!Refs, NEW n \in {0, 2} \union {None}, Resolving!Edit(r, n)
    PROVE  ReferencesInv'
<1>1. line.pc = "ask" /\ UNCHANGED <<names, legacy, line>>
      BY DEF Resolving!Edit
<1>2. /\ inventory' \in [Resolving!Refs \ Qualified -> BOOLEAN]
      /\ secrets' \in [Resolving!Refs -> {0, 2} \union {None}]
      BY DEF Resolving!Edit, ReferencesInv
<1>3. QED
      BY <1>1, <1>2 DEF ReferencesInv

(* Steps of other parts keep it.                                           *)
LEMMA ReferencesStays == ASSUME ReferencesInv, UNCHANGED referenceVars PROVE ReferencesInv'
<1>1. UNCHANGED <<inventory, names, secrets, legacy, line>>
      BY DEF referenceVars
<1>2. \A r : Resolving!Secret(r)' = Resolving!Secret(r)
      BY <1>1 DEF Resolving!Secret
<1>3. QED
      BY <1>1, <1>2 DEF ReferencesInv

(* Every step keeps it.                                                    *)
LEMMA ReferencesStep == ASSUME ReferencesInv, Resolving!ReferencesNext PROVE ReferencesInv'
<1>1. ASSUME Resolving!Fail \/ Resolving!Run PROVE ReferencesInv'
      BY <1>1, NoLineIs DEF Resolving!Fail, Resolving!Run, ReferencesInv
<1>2. QED
      BY <1>1, BeginKeeps, ResolveHostKeeps, AnswerKeeps, FindSecretsKeeps, ResolveSecretKeeps, EditKeeps
         DEF Resolving!ReferencesNext

(* What is expected of the command is what the passes lead to.             *)
LEMMA Expects ==
    ASSUME ReferencesInv, line.pc = "secrets", line.left = {}, NEW shown \in BOOLEAN
    PROVE  Resolving!Expected(shown)
           = Flat(Mixed(Hosted(line.parts, line.answers, line.hosts, names),
                        Revealed(line.parts, line.answers, line.hosts, names, line.values, shown), {}))
<1> DEFINE s == Hosted(line.parts, line.answers, line.hosts, names)
           t == Revealed(line.parts, line.answers, line.hosts, names, line.values, shown)
           meant(i) == Resolving!Meant(line.parts[i], IF line.parts[i] = "word" THEN None
                                                      ELSE line.answers[Resolving!StartOf(i)], shown)
           e == [i \in 1..Len(line.parts) |-> meant(i)]
<1>0. /\ line.parts \in Parted /\ line.hosts \in SUBSET (Resolving!Refs \ Qualified)
      /\ line.answers \in [Resolving!Matches(Flat(Before(line.parts))) -> Replies]
      /\ names \in SUBSET (Resolving!Refs \ Qualified) /\ line.values \in [Resolving!Refs -> Nat \union {None}]
      BY DEF ReferencesInv, LineTyped, SecretPass
<1>1. s \in Pieces /\ Len(s) = Len(line.parts) /\ Len(line.parts) \in Nat
      BY <1>0, HostedIs DEF Parted
<1>2. /\ t \in Alike(s) /\ Len(t) = Len(line.parts)
      /\ \A i \in 1..Len(line.parts) : t[i] = IF IsRef(s[i]) THEN SecretAs(line.parts[i], line.values, shown) ELSE s[i]
      <2> DEFINE parts == line.parts
                 replies == line.answers
                 known == line.hosts
                 values == line.values
      <2>1. /\ parts \in Parted /\ replies \in [Resolving!Matches(Flat(Before(parts))) -> Replies]
            /\ values \in [Resolving!Refs -> Nat \union {None}]
            BY <1>0
      <2> HIDE DEF parts, replies, known, values
      <2>2. /\ Revealed(parts, replies, known, names, values, shown) \in Alike(Hosted(parts, replies, known, names))
            /\ Len(Revealed(parts, replies, known, names, values, shown)) = Len(parts)
            /\ \A i \in 1..Len(parts) :
                  Revealed(parts, replies, known, names, values, shown)[i]
                  = IF IsRef(Hosted(parts, replies, known, names)[i]) THEN SecretAs(parts[i], values, shown)
                    ELSE Hosted(parts, replies, known, names)[i]
            BY <2>1, RevealedIs
      <2>3. QED
            BY <2>2 DEF parts, replies, known, values
<1>3. ASSUME NEW i \in 1..Len(line.parts) PROVE Resolving!StartOf(i) = At(Before(line.parts), i)
      <2> DEFINE u == [j \in 1..(i - 1) |-> Resolving!Written(line.parts[j])]
                 w == SubSeq(Before(line.parts), 1, i - 1)
      <2>1. i \in Nat /\ i - 1 \in Nat /\ i - 1 <= Len(line.parts)
            BY <1>1
      <2>2. /\ Before(line.parts) \in Seq(Seq(Cell)) /\ Len(Before(line.parts)) = Len(line.parts)
            /\ \A j \in 1..Len(line.parts) : Before(line.parts)[j] = Resolving!Written(line.parts[j])
            BY <1>0, BeforeIs DEF Pieces
      <2>3. w \in Seq(Seq(Cell)) /\ Len(w) = i - 1 /\ \A j \in 1..(i - 1) : w[j] = Before(line.parts)[j]
            BY <2>1, <2>2
      <2>4. \A j \in 1..(i - 1) : j \in 1..Len(line.parts)
            BY <2>1
      <2>5. w = u
            <3>1. w = [j \in 1..Len(w) |-> w[j]]
                  BY <2>3
            <3>2. \A j \in 1..(i - 1) : w[j] = Resolving!Written(line.parts[j])
                  BY <2>2, <2>3, <2>4
            <3> HIDE DEF w
            <3>3. QED
                  BY <2>3, <3>1, <3>2
      <2>6. Resolving!StartOf(i) = 1 + Len(Flat(u))
            BY DEF Resolving!StartOf, Flat
      <2>7. QED
            BY <2>5, <2>6 DEF At, UpTo
<1>4. ASSUME NEW i \in 1..Len(line.parts) PROVE meant(i) = t[i]
      <2> DEFINE what == line.parts[i]
                 reply == ReplyTo(line.parts, line.answers, i)
      <2>1. /\ s[i] = HostAs(what, reply, line.hosts, names)
            /\ IsRef(s[i]) => what \in Resolving!Refs /\ s[i] = Resolving!Written(what)
            BY <1>0, HostedIs
      <2>2. meant(i) = Resolving!Meant(what, reply, shown)
            BY <1>3 DEF ReplyTo
      <2>3. t[i] = IF IsRef(s[i]) THEN SecretAs(what, line.values, shown) ELSE s[i]
            BY <1>2
      <2>4. what \in Resolving!Refs <=> what # "word"
            BY <1>0, BeforeIs
      <2>5. reply \in Replies
            <3>1. CASE what = "word"
                  BY <3>1 DEF ReplyTo, Replies
            <3>2. CASE what # "word"
                  <4>1. At(Before(line.parts), i) \in Resolving!Matches(Flat(Before(line.parts)))
                        BY <1>0, <2>4, <3>2, BeforeIs, Marks
                  <4>2. QED
                        BY <1>0, <3>2, <4>1 DEF ReplyTo
            <3>3. QED
                  BY <3>1, <3>2
      <2>6. names \ Qualified = names
            BY <1>0
      <2> HIDE DEF meant, s, t, what, reply
      <2>7. CASE what = "word"
            <3>1. s[i] = Resolving!Written("word") /\ ~IsRef(s[i])
                  BY <2>1, <2>7, WordIs, PlainIsNoRef DEF HostAs
            <3>2. QED
                  BY <2>2, <2>3, <2>7, <3>1 DEF Resolving!Meant, Resolving!Word
      <2>8. CASE what # "word" /\ what \in line.hosts
            <3>1. s[i] = Resolving!Address(what) /\ ~IsRef(s[i])
                  BY <2>1, <2>8, AddressIs, PlainIsNoRef DEF HostAs
            <3>2. QED
                  BY <2>2, <2>3, <2>8, <3>1 DEF Resolving!Meant, Resolving!Word
      <2>9. CASE what # "word" /\ what \notin line.hosts /\ what \in names
            <3>1. s[i] = Resolving!Cells("name", Width[what]) /\ ~IsRef(s[i])
                  BY <2>1, <2>4, <2>9, NameIs, PlainIsNoRef DEF HostAs
            <3>2. QED
                  BY <2>2, <2>3, <2>6, <2>9, <3>1 DEF Resolving!Meant, Resolving!Word
      <2>10. CASE what # "word" /\ what \notin line.hosts /\ what \notin names /\ reply # None
            <3>1. s[i] = reply /\ reply = Resolving!Typed
                  BY <2>1, <2>5, <2>10 DEF HostAs, Replies
            <3>2. ~IsRef(s[i])
                  BY <3>1, TypedIs, PlainIsNoRef
            <3>3. QED
                  BY <2>2, <2>3, <2>6, <2>10, <3>1, <3>2 DEF Resolving!Meant, Resolving!Word
      <2>11. CASE what # "word" /\ what \notin line.hosts /\ what \notin names /\ reply = None
            <3>1. s[i] = Resolving!Written(what) /\ IsRef(s[i])
                  BY <2>1, <2>4, <2>11, WrittenIsRef DEF HostAs
            <3>2. QED
                  BY <2>2, <2>3, <2>6, <2>11, <3>1 DEF Resolving!Meant, Resolving!Word, SecretAs
      <2>12. QED
            BY <2>7, <2>8, <2>9, <2>10, <2>11
<1>5. Resolving!Expected(shown) = Flat(e)
      BY DEF Resolving!Expected, Flat, Resolving!Word
<1> HIDE DEF meant, s, t
<1>6. e = t
      <2>1. t = [i \in 1..Len(line.parts) |-> t[i]]
            BY <1>2 DEF Alike
      <2>2. QED
            BY <1>4, <2>1
<1>7. Flat(Mixed(s, t, {})) = Flat(t)
      BY <1>1, <1>2, MixedNone
<1>8. QED
      BY <1>5, <1>6, <1>7 DEF s, t

(* It says what is promised.                                               *)
LEMMA ReferencesKept == ReferencesInv => Resolving!ReferencesReplaced
<1>1. SUFFICES ASSUME ReferencesInv, line.pc = "secrets", line.left = {}
               PROVE  line.resolved = Resolving!Expected(FALSE) /\ line.safe = Resolving!Expected(TRUE)
      BY DEF Resolving!ReferencesReplaced, Resolving!Resolved
<1>2. SecretPass(line, names)
      BY <1>1 DEF ReferencesInv
<1>3. QED
      BY <1>1, <1>2, Expects DEF SecretPass

-----------------------------------------------------------------------------
(* Inventory: the wizard's merge of what the sources say of a host.        *)
Sources == {"etc", "known", "ansible", "ssh"}

(* What the merge of the sources seen so far should be.                    *)
Covers(data, d) == (data.address = None => d.address = None) /\ (d.key => data.key)
Follows(data, d) == (d.address # None => data.address = d.address) /\ (d.key => data.key)
Merged(seen, says, all) ==
    \/ all = None /\ \A from \in seen : says[from] = None
    \/ /\ all \in [data : Listing!Fields, priority : 1..4]
       /\ \A from \in seen : says[from] # None =>
             Listing!Priority[from] <= all.priority /\ Covers(all.data, says[from])
       /\ \E best \in seen : /\ says[best] # None /\ Listing!Priority[best] = all.priority
                             /\ Follows(all.data, says[best])

(* The trust in the sources.                                               *)
LEMMA Ranks ==
    /\ Listing!Priority["etc"] = 1 /\ Listing!Priority["known"] = 2
    /\ Listing!Priority["ansible"] = 3 /\ Listing!Priority["ssh"] = 4
BY DEF Listing!Priority

(* Fields that are missing, and only those, come from the other host.      *)
LEMMA Filling ==
    ASSUME NEW x \in Listing!Fields, NEW y \in Listing!Fields
    PROVE  LET z == Listing!Filled(x, y) IN
           /\ z \in Listing!Fields
           /\ z.address = IF x.address # None THEN x.address ELSE y.address
           /\ z.key <=> (x.key \/ y.key)
BY DEF Listing!Filled, Listing!Fields

(* Filling adds nothing where nothing is missing, and follows what leads.  *)
LEMMA FilledIsCovers ==
    ASSUME NEW x \in Listing!Fields, NEW y \in Listing!Fields
    PROVE  /\ Covers(x, y) => Listing!Filled(x, y) = x
           /\ Follows(y, x) => Listing!Filled(x, y) = y
<1> DEFINE z == Listing!Filled(x, y)
<1>1. z \in Listing!Fields /\ (z.key <=> (x.key \/ y.key))
      /\ z.address = IF x.address # None THEN x.address ELSE y.address
      BY Filling
<1>2. ASSUME NEW a \in Listing!Fields, NEW b \in Listing!Fields, a.address = b.address, a.key <=> b.key
      PROVE  a = b
      <2>1. a.key \in BOOLEAN /\ b.key \in BOOLEAN
            BY DEF Listing!Fields
      <2>2. a.key = b.key
            BY <1>2, <2>1, Zenon
      <2>3. QED
            BY <1>2, <2>2 DEF Listing!Fields
<1> HIDE DEF z
<1>3. ASSUME Covers(x, y) PROVE z = x
      <2>1. z.address = x.address /\ (z.key <=> x.key)
            BY <1>1, <1>3 DEF Covers
      <2>2. QED
            BY <1>1, <1>2, <2>1
<1>4. ASSUME Follows(y, x) PROVE z = y
      <2>1. z.address = y.address /\ (z.key <=> y.key)
            BY <1>1, <1>4 DEF Follows
      <2>2. QED
            BY <1>1, <1>2, <2>1
<1>5. QED
      BY <1>3, <1>4 DEF z

(* One more source is merged: what should be still is.                     *)
LEMMA MergeKeeps ==
    ASSUME NEW seen \in SUBSET Sources, NEW from \in Sources \ seen, NEW says \in Listing!SaidOf, NEW all,
           Merged(seen, says, all)
    PROVE  Merged(seen \union {from}, says, Listing!Merge(all, from, says[from]))
<1> DEFINE data == says[from]
           new == Listing!Merge(all, from, data)
           rank == Listing!Priority[from]
           high == rank > all.priority
<1>0. /\ data \in Listing!Fields \union {None} /\ rank \in 1..4
      /\ \A s \in Sources : says[s] \in Listing!Fields \union {None}
      /\ \A s \in Sources : Listing!Priority[s] \in 1..4
      BY Ranks DEF Listing!SaidOf, Sources
<1>1. CASE data = None
      <2>1. new = all
            BY <1>1 DEF Listing!Merge
      <2>2. QED
            BY <1>1, <2>1 DEF Merged
<1>2. CASE data # None /\ all = None
      <2>1. new = [data |-> data, priority |-> rank]
            BY <1>2 DEF Listing!Merge
      <2>2. new \in [data : Listing!Fields, priority : 1..4] /\ new.data = data /\ new.priority = rank
            BY <1>0, <1>2, <2>1
      <2>3. \A s \in seen : says[s] = None
            BY <1>2, MergeAssumption DEF Merged
      <2> HIDE DEF new
      <2>4. Covers(new.data, data) /\ Follows(new.data, data)
            BY <2>2 DEF Covers, Follows
      <2>5. \A s \in seen \union {from} : says[s] # None =>
               Listing!Priority[s] <= new.priority /\ Covers(new.data, says[s])
            BY <1>0, <2>2, <2>3, <2>4
      <2>6. QED
            BY <1>2, <2>2, <2>4, <2>5 DEF Merged, new
<1>3. CASE data # None /\ all # None
      <2> DEFINE first == IF high THEN data ELSE all.data
                 second == IF high THEN all.data ELSE data
                 top == IF high THEN rank ELSE all.priority
      <2>0. data \in Listing!Fields
            BY <1>0, <1>3
      <2>1. /\ all \in [data : Listing!Fields, priority : 1..4]
            /\ \A s \in seen : says[s] # None => Listing!Priority[s] <= all.priority /\ Covers(all.data, says[s])
            BY <1>3 DEF Merged
      <2>2. PICK best \in seen : /\ says[best] # None /\ Listing!Priority[best] = all.priority
                                 /\ Follows(all.data, says[best])
            BY <1>3 DEF Merged
      <2>3. new = [data |-> Listing!Filled(first, second), priority |-> top]
            BY <1>3 DEF Listing!Merge
      <2>4. /\ all.data \in Listing!Fields /\ all.priority \in 1..4
            /\ first \in Listing!Fields /\ second \in Listing!Fields /\ top \in 1..4
            BY <1>0, <2>0, <2>1
      <2>5. /\ new \in [data : Listing!Fields, priority : 1..4] /\ new.priority = top
            /\ new.data.address = IF first.address # None THEN first.address ELSE second.address
            /\ new.data.key <=> (first.key \/ second.key)
            BY <2>3, <2>4, Filling
      <2> HIDE DEF new
      <2>6. /\ \A d : Covers(all.data, d) => Covers(new.data, d)
            /\ Covers(new.data, data)
            BY <2>5 DEF Covers
      <2>7. ASSUME NEW s \in seen \union {from}, says[s] # None
            PROVE  Listing!Priority[s] <= new.priority /\ Covers(new.data, says[s])
            <3>1. CASE s = from
                  BY <1>0, <2>4, <2>5, <2>6, <3>1
            <3>2. CASE s \in seen
                  <4>1. Listing!Priority[s] \in 1..4
                        BY <1>0, <3>2
                  <4>2. QED
                        BY <1>0, <2>1, <2>4, <2>5, <2>6, <2>7, <3>2, <4>1
            <3>3. QED
                  BY <3>1, <3>2
      <2>8. \E s \in seen \union {from} : /\ says[s] # None /\ Listing!Priority[s] = new.priority
                                           /\ Follows(new.data, says[s])
            <3>1. CASE high
                  <4>1. Follows(new.data, data)
                        BY <2>5, <3>1 DEF Follows
                  <4>2. QED
                        BY <1>3, <2>5, <3>1, <4>1
            <3>2. CASE ~high
                  <4>1. Follows(new.data, says[best])
                        BY <2>2, <2>5, <3>2 DEF Follows
                  <4>2. QED
                        BY <2>2, <2>5, <3>2, <4>1
            <3>3. QED
                  BY <3>1, <3>2
      <2>9. QED
            BY <2>5, <2>7, <2>8 DEF Merged, new
<1>4. QED
      BY <1>1, <1>2, <1>3

(* So it is of all four.                                                   *)
LEMMA MergeIsTrusted ==
    ASSUME NEW says \in Listing!SaidOf, Listing!MergeSources(says) # None
    PROVE  Listing!Trusted(says, Listing!MergeSources(says).data)
<1> DEFINE one == Listing!Merge(None, "etc", says["etc"])
           two == Listing!Merge(one, "ssh", says["ssh"])
           three == Listing!Merge(two, "known", says["known"])
           all == Listing!Merge(three, "ansible", says["ansible"])
<1>1. Listing!MergeSources(says) = all
      BY DEF Listing!MergeSources, Listing!Read
<1>2. Merged({}, says, None)
      BY DEF Merged
<1>3. Merged({"etc"}, says, one)
      <2>1. {} \union {"etc"} = {"etc"} /\ {} \in SUBSET Sources /\ "etc" \in Sources \ {}
            BY DEF Sources
      <2>2. QED
            BY <1>2, <2>1, MergeKeeps
<1> HIDE DEF one
<1>4. Merged({"etc", "ssh"}, says, two)
      <2>1. {"etc"} \union {"ssh"} = {"etc", "ssh"} /\ {"etc"} \in SUBSET Sources /\ "ssh" \in Sources \ {"etc"}
            BY DEF Sources
      <2>2. QED
            BY <1>3, <2>1, MergeKeeps
<1> HIDE DEF two
<1>5. Merged({"etc", "ssh", "known"}, says, three)
      <2>1. /\ {"etc", "ssh"} \union {"known"} = {"etc", "ssh", "known"} /\ {"etc", "ssh"} \in SUBSET Sources
            /\ "known" \in Sources \ {"etc", "ssh"}
            BY DEF Sources
      <2>2. QED
            BY <1>4, <2>1, MergeKeeps
<1> HIDE DEF three
<1>6. Merged(Sources, says, all)
      <2>1. /\ {"etc", "ssh", "known"} \union {"ansible"} = Sources /\ {"etc", "ssh", "known"} \in SUBSET Sources
            /\ "ansible" \in Sources \ {"etc", "ssh", "known"}
            BY DEF Sources
      <2>2. QED
            BY <1>5, <2>1, MergeKeeps
<1> HIDE DEF all
<1> DEFINE having == {from \in DOMAIN says : says[from] # None}
           best == CHOOSE from \in having : \A other \in having :
                      Listing!Priority[other] <= Listing!Priority[from]
<1>7. /\ all \in [data : Listing!Fields, priority : 1..4]
      /\ \A from \in Sources : says[from] # None =>
            Listing!Priority[from] <= all.priority /\ Covers(all.data, says[from])
      BY <1>1, <1>6 DEF Merged
<1>8. PICK first \in Sources : /\ says[first] # None /\ Listing!Priority[first] = all.priority
                               /\ Follows(all.data, says[first])
      BY <1>1, <1>6 DEF Merged
<1>9. /\ DOMAIN says = Sources /\ \A from \in Sources : says[from] \in Listing!Fields \union {None}
      /\ having \subseteq Sources /\ \A from \in having : says[from] \in Listing!Fields
      BY DEF Listing!SaidOf, Sources
<1>10. first \in having /\ \A other \in having : Listing!Priority[other] <= Listing!Priority[first]
      BY <1>7, <1>8, <1>9
<1>11. best \in having /\ Listing!Priority[first] <= Listing!Priority[best]
      <2> HIDE DEF having
      <2>1. \E from \in having : \A other \in having : Listing!Priority[other] <= Listing!Priority[from]
            BY <1>10
      <2>2. QED
            BY <1>10, <2>1
<1>12. best = first
      <2>1. Listing!Priority[best] <= Listing!Priority[first] /\ best \in Sources /\ first \in Sources
            BY <1>9, <1>10, <1>11
      <2> HIDE DEF best
      <2>2. Listing!Priority[best] = Listing!Priority[first]
            BY <1>11, <2>1, Ranks DEF Sources
      <2>3. QED
            BY <2>1, <2>2, Ranks DEF Sources
<1>13. all.data \in Listing!Fields
      BY <1>7
<1>14. Listing!Filled(says[best], all.data) = all.data
      BY <1>8, <1>9, <1>10, <1>12, <1>13, FilledIsCovers
<1>15. \A from \in having : Listing!Filled(all.data, says[from]) = all.data
      BY <1>7, <1>9, <1>13, FilledIsCovers
<1>16. QED
      BY <1>1, <1>14, <1>15 DEF Listing!Trusted

-----------------------------------------------------------------------------
(* Inventory: names of hosts.                                              *)
(* The names that a call will create, in lower case.                       *)
Creates(r) == {s \in Stems : (r.pc = "create" /\ s = r.name[1]) \/ \E i \in r.items : s = i[1][1]}

(* A call as a record that can be changed field by field.                  *)
Shaped(r) == r \in [pc : {r.pc}, op : {r.op}, name : {r.name}, row : {r.row}, items : {r.items}, known : {r.known}]

Hosts == Stems \X BOOLEAN
Sound(r, twice) ==
    /\ Shaped(r)
    /\ \A i \in r.items : i[1] \in Hosts
    /\ r.op = "plain" => \A i \in r.items : i[1][1] \in twice
    /\ r.pc = "create" => r.name \in Hosts

InventoryInv ==
    /\ DOMAIN hosts = Hosts /\ DOMAIN operator = Operators
    /\ exported # None => \A i \in exported : i[1] \in Hosts
    /\ \A o \in Operators : Sound(operator[o], doubled)
    /\ \A o \in Operators, n \in Hosts :
          /\ operator[o].pc = "create" /\ n[1] = operator[o].name[1] /\ n[1] \notin doubled
          => hosts[n] = None
    /\ \A o, p \in Operators, s \in Stems :
          /\ o # p /\ s \in Creates(operator[o]) /\ s \in Creates(operator[p])
          => s \in doubled
    /\ \A m, n \in Hosts : /\ m[1] = n[1] /\ n[1] \notin doubled /\ hosts[m] # None /\ hosts[n] # None
                           => m = n
    /\ misled = FALSE

(* One operator's step: what is new was announced, by it alone, and was    *)
(* not there.                                                              *)
LEMMA Moves ==
    ASSUME InventoryInv, NEW o \in Operators, NEW q, Sound(q, doubled'),
           operator' = [operator EXCEPT ![o] = q],
           DOMAIN hosts' = Hosts, doubled \subseteq doubled', misled' = FALSE,
           exported' # None => \A i \in exported' : i[1] \in Hosts,
           \A n \in Hosts : q.pc = "create" /\ n[1] = q.name[1] /\ n[1] \notin doubled' => hosts'[n] = None,
           \A s \in Creates(q) \ doubled', p \in Operators \ {o} : s \notin Creates(operator[p]),
           \A n \in Hosts : hosts'[n] # None =>
              \/ hosts[n] # None
              \/ n[1] \in doubled'
              \/ n[1] \in Creates(operator[o]) /\ \A m \in Hosts : m[1] = n[1] /\ m # n => hosts'[m] = None
    PROVE  InventoryInv'
<1>1. DOMAIN operator' = Operators /\ operator'[o] = q /\ \A p \in Operators : p # o => operator'[p] = operator[p]
      BY DEF InventoryInv
<1>2. ASSUME NEW p \in Operators PROVE Sound(operator'[p], doubled')
      <2>1. CASE p = o
            BY <1>1, <2>1
      <2>2. CASE p # o
            BY <1>1, <2>2 DEF InventoryInv, Sound
      <2>3. QED
            BY <2>1, <2>2
<1>3. ASSUME NEW p \in Operators, NEW n \in Hosts,
             operator'[p].pc = "create", n[1] = operator'[p].name[1], n[1] \notin doubled'
      PROVE  hosts'[n] = None
      <2>1. CASE p = o
            BY <1>1, <1>3, <2>1
      <2>2. CASE p # o
            <3>1. operator'[p] = operator[p]
                  BY <1>1, <2>2
            <3>2. hosts[n] = None
                  BY <1>3, <3>1 DEF InventoryInv
            <3>3. n[1] \in Stems /\ n[1] \in Creates(operator[p])
                  BY <1>3, <3>1 DEF Creates, Hosts
            <3>4. n[1] \notin Creates(operator[o])
                  BY <1>3, <2>2, <3>3 DEF InventoryInv
            <3>5. QED
                  BY <1>3, <3>2, <3>4
      <2>3. QED
            BY <2>1, <2>2
<1>4. ASSUME NEW p \in Operators, NEW r \in Operators, NEW s \in Stems, p # r,
             s \in Creates(operator'[p]), s \in Creates(operator'[r]), s \notin doubled'
      PROVE  FALSE
      <2>1. CASE p = o
            BY <1>1, <1>4, <2>1
      <2>2. CASE r = o
            BY <1>1, <1>4, <2>2
      <2>3. CASE p # o /\ r # o
            BY <1>1, <1>4, <2>3 DEF InventoryInv
      <2>4. QED
            BY <2>1, <2>2, <2>3
<1>5. ASSUME NEW m \in Hosts, NEW n \in Hosts, m[1] = n[1], n[1] \notin doubled', hosts'[m] # None, hosts'[n] # None
      PROVE  m = n
      BY <1>5 DEF InventoryInv
<1>6. QED
      <2> /\ DOMAIN hosts' = Hosts /\ DOMAIN operator' = Operators /\ misled' = FALSE
          /\ exported' # None => \A i \in exported' : i[1] \in Hosts
          BY <1>1
      <2> QED
          BY <1>2, <1>3, <1>4, <1>5 DEF InventoryInv

(* Nothing is under way.                                                   *)
LEMMA Idle == Shaped(Listing!NoWork) /\ Listing!NoWork.pc = "idle" /\ Listing!NoWork.items = {} /\ Listing!NoWork.op = None
BY DEF Listing!NoWork, Shaped

(* And nothing will be created by it.                                      *)
LEMMA IdleCreates == Sound(Listing!NoWork, doubled) /\ Creates(Listing!NoWork) = {}
BY Idle DEF Sound, Creates

(* A step that creates nothing and announces nothing.                      *)
LEMMA Quiet ==
    ASSUME InventoryInv, NEW o \in Operators, NEW q, Sound(q, doubled), q.pc # "create",
           Creates(q) \subseteq Creates(operator[o]), operator' = [operator EXCEPT ![o] = q],
           DOMAIN hosts' = Hosts, \A n \in Hosts : hosts'[n] # None => hosts[n] # None,
           UNCHANGED <<doubled, misled>>, exported' # None => \A i \in exported' : i[1] \in Hosts
    PROVE  InventoryInv'
<1>1. ASSUME NEW s \in Creates(q) \ doubled', NEW p \in Operators \ {o} PROVE s \notin Creates(operator[p])
      <2>1. s \in Stems /\ s \in Creates(operator[o]) /\ s \notin doubled
            BY <1>1 DEF Creates
      <2>2. QED
            BY <2>1 DEF InventoryInv
<1>2. misled' = FALSE /\ Sound(q, doubled') /\ doubled \subseteq doubled'
      BY DEF InventoryInv
<1>3. \A n \in Hosts : q.pc = "create" /\ n[1] = q.name[1] /\ n[1] \notin doubled' => hosts'[n] = None
      OBVIOUS
<1>4. \A s \in Creates(q) \ doubled', p \in Operators \ {o} : s \notin Creates(operator[p])
      BY <1>1
<1>5. \A n \in Hosts : hosts'[n] # None =>
         \/ hosts[n] # None
         \/ n[1] \in doubled'
         \/ n[1] \in Creates(operator[o]) /\ \A m \in Hosts : m[1] = n[1] /\ m # n => hosts'[m] = None
      OBVIOUS
<1>6. QED
      BY <1>2, <1>3, <1>4, <1>5, Moves

(* What nobody is creating no other call will create.                      *)
LEMMA NotCreating ==
    ASSUME NEW o \in Operators, NEW s \in Stems, s \notin Listing!Creating(o), NEW p \in Operators \ {o}
    PROVE  s \notin Creates(operator[p])
<1>1. ASSUME operator[p].pc = "create", s = operator[p].name[1] PROVE s \in Listing!Creating(o)
      BY <1>1 DEF Listing!Creating, Listing!Low
<1>2. ASSUME NEW i \in operator[p].items, s = i[1][1] PROVE s \in Listing!Creating(o)
      <2>1. s \in {Listing!Low(j[1]) : j \in operator[p].items}
            BY <1>2 DEF Listing!Low
      <2>2. QED
            BY <2>1 DEF Listing!Creating
<1>3. QED
      BY <1>1, <1>2 DEF Creates

(* The invariant holds at the start.                                       *)
LEMMA InventoryStart == Listing!InventoryInit => InventoryInv
<1> SUFFICES ASSUME Listing!InventoryInit PROVE InventoryInv
    OBVIOUS
<1>1. /\ DOMAIN hosts = Hosts /\ \A n \in Hosts : hosts[n] = None
      /\ DOMAIN operator = Operators /\ \A o \in Operators : operator[o] = Listing!NoWork
      /\ exported = None /\ misled = FALSE
      BY DEF Listing!InventoryInit, Listing!HostNames, Hosts
<1>2. Listing!NoWork.pc # "create"
      BY Idle
<1>3. QED
      BY <1>1, <1>2, IdleCreates DEF InventoryInv

(* Every step keeps it.                                                    *)
LEMMA InventoryStep == ASSUME InventoryInv, Listing!InventoryNext PROVE InventoryInv'
<1> USE DEF Hosts
<1>0. PICK o \in Operators :
         \/ \E n \in Hosts : \/ \E a \in Addresses : Listing!AddHost(o, n, a)
                             \/ \E says \in Listing!SaidOf : Listing!Wizard(o, n, says)
         \/ Listing!Create(o) \/ Listing!Clear(o) \/ Listing!Export(o) \/ Listing!Stop(o)
         \/ \E s \in Stems : Listing!Confirm(o, s) \/ \E op \in Listing!Changes : Listing!ReadHost(o, s, op)
         \/ \E a \in Addresses \union {None} : Listing!WriteHost(o, a)
         \/ \E sure, set \in BOOLEAN : Listing!DeleteHost(o, sure) \/ Listing!SetVariable(o, set)
         \/ \E f \in Listing!Formats, items \in Listing!Files : Listing!Import(o, f, items)
         \/ \E i \in operator[o].items : Listing!ImportNext(o, i)
      BY DEF Listing!InventoryNext, Listing!HostNames
<1>a. /\ DOMAIN hosts = Hosts /\ DOMAIN operator = Operators /\ misled = FALSE
      /\ exported # None => \A i \in exported : i[1] \in Hosts
      /\ Sound(operator[o], doubled) /\ Shaped(operator[o])
      BY DEF InventoryInv, Sound
<1> DEFINE Same == UNCHANGED <<hosts, doubled, misled>> /\ (exported' # None => \A i \in exported' : i[1] \in Hosts)
<1>b. ASSUME NEW q, Shaped(q), q.pc # "create", q.items = {}, operator' = [operator EXCEPT ![o] = q],
             DOMAIN hosts' = Hosts, \A n \in Hosts : hosts'[n] # None => hosts[n] # None,
             UNCHANGED <<doubled, misled>>, exported' # None => \A i \in exported' : i[1] \in Hosts
      PROVE  InventoryInv'
      <2>1. Sound(q, doubled) /\ Creates(q) = {}
            BY <1>b DEF Sound, Creates
      <2>2. QED
            BY <1>b, <2>1, Quiet
<1>c. ASSUME UNCHANGED <<hosts, operator, doubled, misled>>, exported' # None => \A i \in exported' : i[1] \in Hosts
      PROVE  InventoryInv'
      BY <1>a, <1>c DEF InventoryInv, Sound
<1>1. ASSUME NEW n \in Hosts, NEW a \in Addresses, Listing!AddHost(o, n, a) PROVE InventoryInv'
      <2> DEFINE q == [Listing!NoWork EXCEPT !.pc = "create", !.name = n, !.row = Listing!Row(edits, a)]
      <2>0. UNCHANGED <<hosts, exported, misled>>
            BY <1>1 DEF Listing!AddHost
      <2>1. CASE Listing!Found(n[1]) # {}
            BY <1>1, <1>a, <1>c, <2>0, <2>1 DEF Listing!AddHost, Listing!Low
      <2>2. CASE Listing!Found(n[1]) = {}
            <3>1. /\ operator' = [operator EXCEPT ![o] = q]
                  /\ doubled' = IF n[1] \in Listing!Creating(o) THEN doubled \union {n[1]} ELSE doubled
                  BY <1>1, <2>2 DEF Listing!AddHost, Listing!Low
            <3>2. Shaped(q) /\ q.pc = "create" /\ q.name = n /\ q.items = {} /\ q.op = None
                  BY DEF Listing!NoWork, Shaped
            <3> HIDE DEF q
            <3>3. Sound(q, doubled') /\ Creates(q) = {n[1]}
                  BY <3>2 DEF Sound, Creates
            <3>4. \A m \in Hosts : m[1] = n[1] => hosts[m] = None
                  BY <2>2 DEF Listing!Found, Listing!HostNames, Listing!Low
            <3>5. \A s \in Creates(q) \ doubled', p \in Operators \ {o} : s \notin Creates(operator[p])
                  BY <3>1, <3>3, NotCreating
            <3>6. doubled \subseteq doubled'
                  BY <3>1
            <3>7. /\ DOMAIN hosts' = Hosts /\ misled' = FALSE
                  /\ exported' # None => \A i \in exported' : i[1] \in Hosts
                  /\ \A m \in Hosts : hosts'[m] # None =>
                        \/ hosts[m] # None
                        \/ m[1] \in doubled'
                        \/ m[1] \in Creates(operator[o]) /\ \A k \in Hosts : k[1] = m[1] /\ k # m => hosts'[k] = None
                  BY <1>a, <2>0
            <3>8. \A m \in Hosts : q.pc = "create" /\ m[1] = q.name[1] /\ m[1] \notin doubled' => hosts'[m] = None
                  BY <2>0, <3>2, <3>4
            <3>9. QED
                  BY <3>1, <3>3, <3>5, <3>6, <3>7, <3>8, Moves
      <2>3. QED
            BY <2>1, <2>2
<1>2. ASSUME NEW n \in Hosts, NEW says \in Listing!SaidOf, Listing!Wizard(o, n, says) PROVE InventoryInv'
      <2>1. PICK known, row :
               /\ operator' = [operator EXCEPT ![o] = [Listing!NoWork EXCEPT !.pc = "import", !.op = "wizard",
                                                       !.known = known, !.items = {<<n, row>>}]]
               /\ doubled' = IF n[1] \in Listing!Creating(o) THEN doubled \union {n[1]} ELSE doubled
               /\ UNCHANGED <<hosts, exported>>
            BY <1>2 DEF Listing!Wizard, Listing!Low
      <2> DEFINE q == [Listing!NoWork EXCEPT !.pc = "import", !.op = "wizard", !.known = known,
                                             !.items = {<<n, row>>}]
      <2>2. Shaped(q) /\ q.pc = "import" /\ q.items = {<<n, row>>} /\ q.op = "wizard"
            BY DEF Listing!NoWork, Shaped
      <2>3. operator' = [operator EXCEPT ![o] = q]
            BY <2>1
      <2> HIDE DEF q
      <2>4. Sound(q, doubled') /\ Creates(q) = {n[1]}
            BY <2>2 DEF Sound, Creates
      <2>5. \A s \in Creates(q) \ doubled', p \in Operators \ {o} : s \notin Creates(operator[p])
            BY <2>1, <2>4, NotCreating
      <2>6. misled' = FALSE
            <3>1. Listing!MergeSources(says) # None
                  /\ misled' = (misled \/ ~Listing!Trusted(says, Listing!MergeSources(says).data))
                  BY <1>2 DEF Listing!Wizard
            <3>2. QED
                  BY <1>a, <3>1, MergeIsTrusted
      <2>7. doubled \subseteq doubled'
            BY <2>1
      <2>8. QED
            BY <1>a, <2>1, <2>2, <2>3, <2>4, <2>5, <2>6, <2>7, Moves
<1>3. ASSUME Listing!Create(o) PROVE InventoryInv'
      <2> DEFINE n == operator[o].name
      <2>1. /\ operator[o].pc = "create" /\ operator' = [operator EXCEPT ![o] = Listing!NoWork]
            /\ UNCHANGED <<exported, doubled, misled>>
            BY <1>3 DEF Listing!Create, Listing!Return
      <2>2. n \in Hosts
            BY <1>a, <2>1 DEF Sound
      <2>3. /\ DOMAIN hosts' = Hosts /\ \A m \in Hosts : m # n => hosts'[m] = hosts[m]
            BY <1>3, <1>a DEF Listing!Create
      <2>4. n[1] \in Creates(operator[o])
            BY <2>1, <2>2 DEF Creates
      <2>5. n[1] \notin doubled => \A m \in Hosts : m[1] = n[1] => hosts[m] = None
            BY <2>1 DEF InventoryInv
      <2>6. \A m \in Hosts : hosts'[m] # None =>
               \/ hosts[m] # None
               \/ m[1] \in doubled'
               \/ m[1] \in Creates(operator[o]) /\ \A k \in Hosts : k[1] = m[1] /\ k # m => hosts'[k] = None
            <3> HIDE DEF n
            <3> QED
                BY <2>1, <2>3, <2>4, <2>5
      <2>7. QED
            BY <1>a, <2>1, <2>3, <2>6, Idle, IdleCreates, Moves
<1>4. ASSUME Listing!Clear(o) PROVE InventoryInv'
      <2> DEFINE q == [operator[o] EXCEPT !.pc = "import"]
      <2>1. operator[o].pc = "clear" /\ UNCHANGED <<exported, doubled, misled>>
            BY <1>4 DEF Listing!Clear
      <2>2. CASE UNCHANGED <<hosts, operator>>
            BY <1>a, <1>c, <2>1, <2>2
      <2>3. CASE operator' = [operator EXCEPT ![o] = q] /\ UNCHANGED hosts
            <3>1. Shaped(q) /\ q.pc = "import" /\ q.op = operator[o].op /\ q.items = operator[o].items
                  BY <1>a DEF Shaped
            <3> HIDE DEF q
            <3>2. Sound(q, doubled) /\ Creates(q) \subseteq Creates(operator[o])
                  BY <1>a, <3>1 DEF Sound, Creates
            <3>3. QED
                  BY <1>a, <2>1, <2>3, <3>1, <3>2, Quiet
      <2>4. CASE operator' = operator /\ \E n \in Hosts : hosts' = [hosts EXCEPT ![n] = None]
            <3>1. PICK n \in Hosts : hosts' = [hosts EXCEPT ![n] = None]
                  BY <2>4
            <3>2. DOMAIN hosts' = Hosts /\ \A m \in Hosts : hosts'[m] # None => hosts[m] # None
                  BY <1>a, <3>1
            <3>3. operator' = operator
                  BY <2>4
            <3>4. QED
                  BY <1>a, <2>1, <3>2, <3>3 DEF InventoryInv, Sound
      <2>5. QED
            BY <1>4, <1>a, <2>2, <2>3, <2>4 DEF Listing!Clear, Listing!HostNames
<1>5. ASSUME Listing!Export(o) PROVE InventoryInv'
      <2>1. /\ exported' = {Listing!AsItem(n) : n \in {m \in Hosts : hosts[m] # None}}
            /\ UNCHANGED <<hosts, operator, doubled, misled>>
            BY <1>5 DEF Listing!Export, Listing!HostNames
      <2>2. \A i \in exported' : i[1] \in Hosts
            <3>1. \A n : Listing!AsItem(n)[1] = n
                  BY DEF Listing!AsItem
            <3>2. QED
                  BY <2>1, <3>1
      <2>3. QED
            BY <1>c, <2>1, <2>2
<1>6. ASSUME Listing!Stop(o) PROVE InventoryInv'
      <2>1. operator' = [operator EXCEPT ![o] = Listing!NoWork] /\ UNCHANGED <<hosts, exported, doubled, misled>>
            BY <1>6 DEF Listing!Stop, Listing!Return
      <2>2. QED
            BY <1>a, <1>b, <2>1, Idle
<1>7. ASSUME NEW s \in Stems, Listing!Confirm(o, s) PROVE InventoryInv'
      <2>1. PICK ids : /\ operator' = [operator EXCEPT ![o] = [Listing!NoWork EXCEPT !.pc = "delete", !.known = ids]]
                       /\ UNCHANGED <<hosts, exported, doubled, misled>>
            BY <1>7 DEF Listing!Confirm
      <2> DEFINE q == [Listing!NoWork EXCEPT !.pc = "delete", !.known = ids]
      <2>2. Shaped(q) /\ q.pc = "delete" /\ q.items = {}
            BY DEF Listing!NoWork, Shaped
      <2>3. operator' = [operator EXCEPT ![o] = q]
            BY <2>1
      <2> HIDE DEF q
      <2>4. QED
            BY <1>a, <1>b, <2>1, <2>2, <2>3
<1>8. ASSUME NEW s \in Stems, NEW op \in Listing!Changes, Listing!ReadHost(o, s, op) PROVE InventoryInv'
      <2>1. PICK n : /\ operator' = [operator EXCEPT ![o] = [Listing!NoWork EXCEPT !.pc = "write", !.op = op,
                                                                            !.name = n, !.row = hosts[n]]]
                     /\ UNCHANGED <<hosts, exported, doubled, misled>>
            BY <1>8 DEF Listing!ReadHost
      <2> DEFINE q == [Listing!NoWork EXCEPT !.pc = "write", !.op = op, !.name = n, !.row = hosts[n]]
      <2>2. Shaped(q) /\ q.pc = "write" /\ q.items = {}
            BY DEF Listing!NoWork, Shaped
      <2>3. operator' = [operator EXCEPT ![o] = q]
            BY <2>1
      <2> HIDE DEF q
      <2>4. QED
            BY <1>a, <1>b, <2>1, <2>2, <2>3
<1>9. ASSUME NEW a \in Addresses \union {None}, Listing!WriteHost(o, a) PROVE InventoryInv'
      <2>1. /\ operator' = [operator EXCEPT ![o] = Listing!NoWork] /\ UNCHANGED <<exported, doubled, misled>>
            /\ DOMAIN hosts' = Hosts /\ \A n \in Hosts : hosts'[n] # None => hosts[n] # None
            BY <1>9 DEF Listing!WriteHost, Listing!Return, Listing!HostNames
      <2>2. QED
            BY <1>a, <1>b, <2>1, Idle
<1>10. ASSUME NEW sure \in BOOLEAN, Listing!DeleteHost(o, sure) PROVE InventoryInv'
      <2>1. UNCHANGED <<exported, doubled, misled>>
            BY <1>10 DEF Listing!DeleteHost
      <2>2. DOMAIN hosts' = Hosts /\ \A n \in Hosts : hosts'[n] # None => hosts[n] # None
            BY <1>10, <1>a DEF Listing!DeleteHost, Listing!HostNames
      <2>3. CASE operator' = [operator EXCEPT ![o] = Listing!NoWork]
            BY <1>a, <1>b, <2>1, <2>2, <2>3, Idle
      <2>4. ASSUME NEW id, operator' = [operator EXCEPT ![o] = [operator[o] EXCEPT !.known = operator[o].known \ {id}]]
            PROVE  InventoryInv'
            <3> DEFINE q == [operator[o] EXCEPT !.known = operator[o].known \ {id}]
            <3>1. operator[o].pc = "delete"
                  BY <1>10 DEF Listing!DeleteHost
            <3>2. Shaped(q) /\ q.pc = "delete" /\ q.op = operator[o].op /\ q.items = operator[o].items
                  BY <1>a, <3>1 DEF Shaped
            <3>3. operator' = [operator EXCEPT ![o] = q]
                  BY <2>4
            <3> HIDE DEF q
            <3>4. Sound(q, doubled) /\ Creates(q) \subseteq Creates(operator[o])
                  BY <1>a, <3>2 DEF Sound, Creates
            <3>5. QED
                  BY <1>a, <2>1, <2>2, <3>2, <3>3, <3>4, Quiet
      <2>5. QED
            BY <1>10, <1>a, <2>3, <2>4 DEF Listing!DeleteHost, Listing!Return
<1>11. ASSUME NEW set \in BOOLEAN, Listing!SetVariable(o, set) PROVE InventoryInv'
      BY <1>11, <1>a, <1>c DEF Listing!SetVariable
<1>12. ASSUME NEW f \in Listing!Formats, NEW items \in Listing!Files, Listing!Import(o, f, items) PROVE InventoryInv'
      <2> DEFINE q == [Listing!NoWork EXCEPT !.pc = IF f = "replace" THEN "clear" ELSE "import", !.op = f, !.items = items]
                 lows == {i[1][1] : i \in items}
      <2>1. /\ operator' = [operator EXCEPT ![o] = q]
            /\ doubled' = doubled \union (IF f = "plain" THEN lows ELSE lows \intersect Listing!Creating(o))
            /\ UNCHANGED <<hosts, exported, misled>>
            BY <1>12 DEF Listing!Import, Listing!Low
      <2>2. Shaped(q) /\ q.pc \in {"clear", "import"} /\ q.op = f /\ q.items = items
            BY DEF Listing!NoWork, Shaped
      <2> HIDE DEF q
      <2>3. \A i \in items : i[1] \in Hosts
            BY <1>a DEF Listing!Files, Listing!HostNames
      <2>4. Sound(q, doubled')
            BY <2>1, <2>2, <2>3 DEF Sound
      <2>5. Creates(q) = lows
            BY <2>2, <2>3 DEF Creates
      <2>6. ASSUME NEW s \in Creates(q) \ doubled', NEW p \in Operators \ {o} PROVE s \notin Creates(operator[p])
            <3>1. s \in Stems /\ s \in lows /\ s \notin doubled'
                  BY <2>5, <2>6 DEF Creates
            <3> HIDE DEF lows
            <3>2. s \notin Listing!Creating(o)
                  BY <2>1, <3>1
            <3>3. QED
                  BY <3>1, <3>2, NotCreating
      <2>7. doubled \subseteq doubled'
            BY <2>1
      <2>8. QED
            BY <1>a, <2>1, <2>2, <2>4, <2>6, <2>7, Moves, ZenonT(40)
<1>13. ASSUME NEW i \in operator[o].items, Listing!ImportNext(o, i) PROVE InventoryInv'
      <2> DEFINE n == i[1]
                 q == [operator[o] EXCEPT !.items = operator[o].items \ {i}]
                 there == IF operator[o].op = "plain" THEN {} ELSE Listing!Found(n[1])
      <2>1. operator[o].pc = "import" /\ UNCHANGED <<exported, doubled, misled>>
            BY <1>13 DEF Listing!ImportNext
      <2>2. n \in Hosts /\ n[1] \in Creates(operator[o]) /\ (operator[o].op = "plain" => n[1] \in doubled)
            BY <1>a DEF Sound, Creates
      <2>3. \/ hosts' = hosts
            \/ there # {} /\ hosts' = [hosts EXCEPT ![CHOOSE m \in there : TRUE].address = i[2].address]
            \/ there = {} /\ \E row : hosts' = [hosts EXCEPT ![n] = row]
            BY <1>13 DEF Listing!ImportNext, Listing!Low
      <2>4. \A m \in there : m \in Hosts /\ hosts[m] # None
            BY DEF Listing!Found, Listing!HostNames
      <2>5. operator[o].op # "plain" /\ there = {} => \A m \in Hosts : m[1] = n[1] => hosts[m] = None
            BY DEF Listing!Found, Listing!HostNames, Listing!Low
      <2> HIDE DEF there
      <2>6. /\ DOMAIN hosts' = Hosts
            /\ \A m \in Hosts : hosts'[m] # None =>
                  \/ hosts[m] # None
                  \/ m[1] \in doubled'
                  \/ m[1] \in Creates(operator[o]) /\ \A k \in Hosts : k[1] = m[1] /\ k # m => hosts'[k] = None
            <3>1. CASE hosts' = hosts
                  BY <1>a, <3>1
            <3>2. CASE there # {} /\ hosts' = [hosts EXCEPT ![CHOOSE m \in there : TRUE].address = i[2].address]
                  <4>1. PICK c \in there : hosts' = [hosts EXCEPT ![c].address = i[2].address]
                        BY <3>2
                  <4>2. QED
                        BY <1>a, <2>4, <4>1
            <3>3. CASE there = {} /\ \E row : hosts' = [hosts EXCEPT ![n] = row]
                  <4>1. DOMAIN hosts' = Hosts /\ \A m \in Hosts : m # n => hosts'[m] = hosts[m]
                        BY <1>a, <3>3
                  <4> HIDE DEF n
                  <4>2. CASE operator[o].op = "plain"
                        BY <2>1, <2>2, <4>1, <4>2
                  <4>3. CASE operator[o].op # "plain"
                        BY <2>2, <2>5, <3>3, <4>1, <4>3
                  <4>4. QED
                        BY <4>2, <4>3
            <3>4. QED
                  BY <2>3, <3>1, <3>2, <3>3
      <2>7. CASE operator' = [operator EXCEPT ![o] = Listing!NoWork]
            BY <1>a, <2>1, <2>6, <2>7, Idle, IdleCreates, Moves
      <2>8. CASE operator' = [operator EXCEPT ![o] = q]
            <3>1. Shaped(q) /\ q.pc = "import" /\ q.op = operator[o].op /\ q.items = operator[o].items \ {i}
                  BY <1>a, <2>1 DEF Shaped
            <3> HIDE DEF q
            <3>2. Sound(q, doubled') /\ Creates(q) \subseteq Creates(operator[o])
                  BY <1>a, <2>1, <3>1 DEF Sound, Creates
            <3>3. ASSUME NEW s \in Creates(q) \ doubled', NEW p \in Operators \ {o} PROVE s \notin Creates(operator[p])
                  <4>1. s \in Stems /\ s \in Creates(operator[o]) /\ s \notin doubled
                        BY <2>1, <3>2, <3>3 DEF Creates
                  <4>2. QED
                        BY <4>1 DEF InventoryInv
            <3>4. QED
                  BY <1>a, <2>1, <2>6, <2>8, <3>1, <3>2, <3>3, Moves
      <2>9. QED
            BY <1>13, <1>a, <2>7, <2>8 DEF Listing!ImportNext, Listing!Return
<1>14. QED
      BY <1>0, <1>1, <1>2, <1>3, <1>4, <1>5, <1>6, <1>7, <1>8, <1>9, <1>10, <1>11, <1>12, <1>13, Zenon

(* Inventory counts as FiniteSets does.                                    *)
LEMMA ListingCounts == \A S : Listing!Cardinality(S) = Cardinality(S)
BY DEF Listing!Cardinality, Cardinality, Listing!IsFiniteSet, IsFiniteSet

(* It says what is promised.                                               *)
LEMMA InventoryKept == InventoryInv => Listing!OneHostPerName /\ Listing!MergeKeepsTrusted
<1> SUFFICES ASSUME InventoryInv PROVE Listing!OneHostPerName /\ Listing!MergeKeepsTrusted
    OBVIOUS
<1>1. ASSUME NEW s \in Stems \ doubled PROVE Listing!Cardinality(Listing!Found(s)) <= 1
      <2>1. \A m, n \in Listing!Found(s) : m = n
            BY DEF InventoryInv, Listing!Found, Listing!HostNames, Listing!Low, Hosts
      <2>2. Listing!Found(s) = {} \/ \E m : Listing!Found(s) = {m}
            BY <2>1
      <2>3. Cardinality(Listing!Found(s)) <= 1
            <3>1. CASE Listing!Found(s) = {}
                  BY <3>1, FS_EmptySet
            <3>2. CASE \E m : Listing!Found(s) = {m}
                  BY <3>2, FS_Singleton
            <3>3. QED
                  BY <2>2, <3>1, <3>2
      <2>4. QED
            BY <2>3, ListingCounts
<1>2. misled = FALSE
      BY DEF InventoryInv
<1>3. QED
      BY <1>1, <1>2 DEF Listing!OneHostPerName, Listing!MergeKeepsTrusted

(* Steps of other parts keep it.                                           *)
LEMMA InventoryStays == ASSUME InventoryInv, UNCHANGED inventoryVars PROVE InventoryInv'
BY DEF InventoryInv, inventoryVars, Sound, Hosts

-----------------------------------------------------------------------------
(* Login: passphrases and tunnels.                                         *)
Keyring == [Connecting!Slots -> Keys \union {None}]
Fitting == phrases \in Keyring /\ \A k \in Keys \ untried : phrases[Connecting!Path(k)] \in {k, None}

(* A login that asks for a passphrase knows for which key and which host.  *)
Formed(r) ==
    /\ r \in [pc : {r.pc}, id : {r.id}, key : {r.key}, cached : {r.cached}, attempt : {r.attempt},
              method : {r.method}, guess : {r.guess}]
    /\ r.pc \in {"method", "phrase"} => r.id \in Connecting!Ids
    /\ r.pc = "phrase" => r.key \in Keys

LoginInv ==
    /\ Fitting
    /\ DOMAIN login = Logins /\ \A t \in Logins : Formed(login[t])
    /\ keyOf \in [Machines -> Keys \union {None}] /\ defaultKey \in Keys \union {None}
    /\ encrypted \subseteq Keys
    /\ stranded => cancelled
    /\ stranded \in BOOLEAN /\ cancelled \in BOOLEAN

(* Only the slot of its own path, of those of paths, is touched for a key. *)
LEMMA PathIsOwn ==
    ASSUME NEW id \in Connecting!Ids, NEW k \in Keys, NEW j \in Keys, j # k
    PROVE  Connecting!Path(j) \notin Connecting!SlotsOf(id, k)
<1>1. <<j>> # <<k>>
      OBVIOUS
<1>2. <<j>> # <<"id_ed25519">>
      BY KeyAssumption
<1>3. <<j>> # id
      BY DEF Connecting!Ids
<1>4. QED
      BY <1>1, <1>2, <1>3 DEF Connecting!SlotsOf, Connecting!Path, Connecting!FileName

(* A passphrase stored for its key, or removed, leaves those of others.    *)
LEMMA StoreFits ==
    ASSUME Fitting, NEW id \in Connecting!Ids, NEW k \in Keys, NEW phrase \in Keys \union {None},
           \/ Connecting!Store(id, k, phrase) /\ phrase \in {k, None}
           \/ Connecting!StoreUntried(id, k, phrase)
    PROVE  Fitting'
<1>1. phrases' = [s \in Connecting!Slots |-> IF s \in Connecting!SlotsOf(id, k) THEN phrase ELSE phrases[s]]
      BY DEF Connecting!Stored, Connecting!Store, Connecting!StoreUntried
<1>2. phrases' \in Keyring
      BY <1>1 DEF Fitting, Keyring
<1>3. ASSUME NEW j \in Keys \ untried' PROVE phrases'[Connecting!Path(j)] \in {j, None}
      <2>1. Connecting!Path(j) \in Connecting!Slots
            BY DEF Connecting!Slots
      <2>2. CASE j = k
            <3>1. Connecting!Path(j) \in Connecting!SlotsOf(id, k)
                  BY <2>2 DEF Connecting!SlotsOf
            <3>2. phrase \in {k, None}
                  BY <2>2, <1>3 DEF Connecting!StoreUntried
            <3>3. QED
                  BY <1>1, <2>1, <2>2, <3>1, <3>2
      <2>3. CASE j # k
            <3>1. j \notin untried
                  BY <2>3, <1>3 DEF Connecting!Store, Connecting!StoreUntried
            <3>2. QED
                  BY <1>1, <2>1, <2>3, <3>1, PathIsOwn DEF Fitting
      <2>4. QED
            BY <2>2, <2>3
<1>4. QED
      BY <1>2, <1>3 DEF Fitting

(* So does a step that stores none.                                        *)
LEMMA KeptFits == ASSUME Fitting, Connecting!StoreNothing PROVE Fitting'
BY DEF Fitting, Connecting!StoreNothing

(* No login is under way.                                                  *)
LEMMA NoLoginFormed == Formed(Connecting!NoLogin)
BY DEF Formed, Connecting!NoLogin

(* A login gets its method.                                                *)
LEMMA WithFormed ==
    ASSUME NEW r, Formed(r), NEW method
    PROVE  Formed(Connecting!With(r, method)) /\ Connecting!With(r, method).pc = "connect"
BY DEF Formed, Connecting!With

(* A key is loaded: with what is kept for it, or after a question.         *)
LEMMA LoginLoads ==
    ASSUME LoginInv, NEW t \in Logins, NEW q, Formed(q), q.id \in Connecting!Ids, NEW k \in Keys,
           Connecting!Load(t, q, k)
    PROVE  /\ Fitting'
           /\ \E r : Formed(r) /\ login' = [login EXCEPT ![t] = r]
<1> DEFINE cached == Connecting!Cached(q.id, k)
           new == [q EXCEPT !.key = k, !.cached = cached, !.attempt = 1]
           asking == [new EXCEPT !.pc = "phrase"]
<1>1. \/ login' = [login EXCEPT ![t] = Connecting!With(new, "key")]
      \/ login' = [login EXCEPT ![t] = asking]
      \/ login' = [login EXCEPT ![t] = Connecting!NoLogin]
      BY DEF Connecting!Load
<1>2. Connecting!StoreNothing \/ Connecting!Store(q.id, k, None)
      BY DEF Connecting!Load
<1> HIDE DEF cached
<1>3. Formed(new) /\ new.id = q.id /\ new.key = k
      BY DEF Formed
<1> HIDE DEF new
<1>4. Formed(asking)
      BY <1>3 DEF Formed
<1> HIDE DEF asking
<1>5. Fitting'
      BY <1>2, StoreFits, KeptFits DEF LoginInv
<1>6. QED
      BY <1>1, <1>3, <1>4, <1>5, NoLoginFormed, WithFormed

(* The invariant holds at the start.                                       *)
LEMMA LoginStart == Connecting!LoginInit => LoginInv
<1> SUFFICES ASSUME Connecting!LoginInit PROVE LoginInv
    OBVIOUS
<1>1. defaultKey \in Keys \union {None}
      <2>1. (CHOOSE k \in Keys : TRUE) \in Keys
            BY KeyAssumption
      <2>2. QED
            BY <2>1 DEF Connecting!LoginInit
<1>2. Fitting
      <2>1. \A k \in Keys : Connecting!Path(k) \in Connecting!Slots
            BY DEF Connecting!Slots
      <2>2. QED
            BY <2>1 DEF Connecting!LoginInit, Fitting, Keyring
<1>3. QED
      BY <1>1, <1>2, NoLoginFormed DEF Connecting!LoginInit, LoginInv

(* A step of one login.                                                    *)
LEMMA LoginMoves ==
    ASSUME LoginInv, NEW t \in Logins, NEW r, Formed(r), login' = [login EXCEPT ![t] = r], Fitting',
           UNCHANGED <<keyOf, encrypted, defaultKey, stranded, cancelled>>
    PROVE  LoginInv'
<1>1. DOMAIN login' = Logins /\ \A u \in Logins : Formed(login'[u])
      BY DEF LoginInv
<1>2. QED
      BY <1>1 DEF LoginInv

(* Every step keeps it.                                                    *)
LEMMA LoginStep == ASSUME LoginInv, Connecting!LoginNext PROVE LoginInv'
<1>a. /\ Fitting /\ \A t \in Logins : Formed(login[t])
      /\ \A r, p : Formed(r) => /\ Formed([r EXCEPT !.guess = p]) /\ [r EXCEPT !.guess = p].pc = r.pc
                                /\ (p \notin {"method", "phrase"} => Formed([r EXCEPT !.pc = p]))
      BY DEF LoginInv, Formed
<1>1. ASSUME NEW t \in Logins, NEW h \in Machines, NEW via \in Connecting!Via, Connecting!Connect(t, h, via)
      PROVE  LoginInv'
      <2> DEFINE q == [Connecting!NoLogin EXCEPT !.id = <<h, via>>]
                 key == IF keyOf[h] # None THEN keyOf[h] ELSE IF hasAgent THEN None ELSE defaultKey
      <2>1. UNCHANGED <<keyOf, encrypted, defaultKey, stranded, cancelled>>
            BY <1>1 DEF Connecting!Connect, Connecting!setting
      <2>2. Formed(q) /\ q.id \in Connecting!Ids
            BY DEF Formed, Connecting!NoLogin, Connecting!Ids
      <2>3. CASE key # None
            <3>1. key \in Keys
                  BY <2>3 DEF LoginInv
            <3>2. Connecting!Load(t, q, key)
                  BY <1>1, <2>3 DEF Connecting!Connect
            <3> HIDE DEF q, key
            <3>3. QED
                  BY <2>1, <2>2, <3>1, <3>2, LoginLoads, LoginMoves
      <2>4. CASE key = None
            <3> DEFINE asking == [q EXCEPT !.pc = "method"]
                       guessing == [Connecting!With(q, "password") EXCEPT !.guess = passwords[q.id]]
            <3>1. /\ Connecting!StoreNothing
                  /\ \/ login' = [login EXCEPT ![t] = Connecting!With(q, "agent")]
                     \/ login' = [login EXCEPT ![t] = guessing]
                     \/ login' = [login EXCEPT ![t] = asking]
                     \/ login' = [login EXCEPT ![t] = Connecting!NoLogin]
                  BY <1>1, <2>4 DEF Connecting!Connect
            <3> HIDE DEF q
            <3>2. Formed(asking)
                  BY <2>2 DEF Formed
            <3>3. Formed(guessing)
                  BY <1>a, <2>2, WithFormed
            <3> HIDE DEF asking, guessing
            <3>4. QED
                  BY <1>a, <2>1, <2>2, <3>1, <3>2, <3>3, NoLoginFormed, WithFormed, KeptFits, LoginMoves
      <2>5. QED
            BY <2>3, <2>4
<1>2. ASSUME NEW t \in Logins, NEW k \in Keys \union {None}, Connecting!ChooseKey(t, k) PROVE LoginInv'
      <2>1. login[t].pc = "method" /\ UNCHANGED <<keyOf, encrypted, defaultKey, stranded, cancelled>>
            BY <1>2 DEF Connecting!ChooseKey, Connecting!setting, Connecting!history
      <2>2. login[t].id \in Connecting!Ids
            BY <1>a, <2>1 DEF Formed
      <2>3. CASE k = None
            BY <1>2, <1>a, <2>1, <2>3, WithFormed, KeptFits, LoginMoves DEF Connecting!ChooseKey
      <2>4. CASE k # None
            <3>1. Connecting!Load(t, login[t], k) /\ k \in Keys
                  BY <1>2, <2>4 DEF Connecting!ChooseKey
            <3>2. QED
                  BY <1>a, <2>1, <2>2, <3>1, LoginLoads, LoginMoves
      <2>5. QED
            BY <2>3, <2>4
<1>3. ASSUME NEW t \in Logins, NEW typed1 \in Keys \union {None}, Connecting!TypePhrase(t, typed1) PROVE LoginInv'
      <2> DEFINE q == login[t]
                 again == [q EXCEPT !.attempt = q.attempt + 1]
      <2>1. q.pc = "phrase" /\ UNCHANGED <<keyOf, encrypted, defaultKey, stranded, cancelled>>
            BY <1>3 DEF Connecting!TypePhrase, Connecting!setting, Connecting!history
      <2>2. q.id \in Connecting!Ids /\ q.key \in Keys
            BY <1>a, <2>1 DEF Formed
      <2>3. /\ \/ login' = [login EXCEPT ![t] = Connecting!With(q, "nothing")]
               \/ login' = [login EXCEPT ![t] = Connecting!With(q, "key")]
               \/ login' = [login EXCEPT ![t] = again]
            /\ \/ Connecting!StoreNothing
               \/ Connecting!Store(q.id, q.key, q.key)
               \/ Connecting!Store(q.id, q.key, None)
            BY <1>3 DEF Connecting!TypePhrase
      <2>4. Fitting'
            BY <1>a, <2>2, <2>3, StoreFits, KeptFits
      <2>5. Formed(q)
            BY <1>a
      <2> HIDE DEF q
      <2>6. Formed(again)
            BY <2>5 DEF Formed
      <2> HIDE DEF again
      <2>7. QED
            BY <2>1, <2>3, <2>4, <2>5, <2>6, WithFormed, LoginMoves
<1>4. ASSUME NEW t \in Logins, NEW typed1, Connecting!TypePassword(t, typed1) PROVE LoginInv'
      <2> DEFINE method == IF typed1 # None THEN "password" ELSE "nothing"
      <2>1. /\ login' = [login EXCEPT ![t] = [Connecting!With(login[t], method) EXCEPT !.guess = typed1]]
            /\ UNCHANGED <<phrases, untried, keyOf, encrypted, defaultKey, stranded, cancelled>>
            BY <1>4 DEF Connecting!TypePassword, Connecting!kept, Connecting!setting, Connecting!history
      <2> HIDE DEF method
      <2>2. QED
            BY <1>a, <2>1, WithFormed, KeptFits, LoginMoves DEF Connecting!StoreNothing
<1>5. ASSUME NEW t \in Logins, NEW ok \in BOOLEAN, NEW k \in Keys \union {None}, NEW typed1 \in Keys \union {None},
             Connecting!OpenTunnel(t, k, typed1, ok)
      PROVE  LoginInv'
      <2> DEFINE r == [login[t] EXCEPT !.pc = "tunnelled"]
      <2>1. /\ login' = [login EXCEPT ![t] = r] \/ login' = [login EXCEPT ![t] = Connecting!NoLogin]
            /\ UNCHANGED <<keyOf, encrypted, defaultKey, stranded, cancelled>>
            BY <1>5 DEF Connecting!OpenTunnel, Connecting!setting, Connecting!history
      <2>2. Formed(r)
            BY <1>a
      <2> HIDE DEF r
      <2>3. \/ Connecting!StoreNothing
            \/ /\ Connecting!StoreUntried(<<callback, "name">>, k, typed1)
               /\ callback \in Machines /\ typed1 # None /\ k \in encrypted
            BY <1>5 DEF Connecting!OpenTunnel
      <2>4. k \in encrypted => k \in Keys
            BY DEF LoginInv
      <2>5. callback \in Machines => <<callback, "name">> \in Connecting!Ids
            BY DEF Connecting!Ids, Connecting!Via
      <2>6. Fitting'
            BY <1>a, <2>3, <2>4, <2>5, StoreFits, KeptFits
      <2>7. QED
            BY <1>a, <2>1, <2>2, <2>6, NoLoginFormed, LoginMoves
<1>6. ASSUME NEW t \in Logins, NEW ok \in BOOLEAN, Connecting!Answer(t, ok) PROVE LoginInv'
      <2> DEFINE r == [login[t] EXCEPT !.method = "nothing"]
      <2>1. /\ login' = [login EXCEPT ![t] = r] \/ login' = [login EXCEPT ![t] = Connecting!NoLogin]
            /\ UNCHANGED <<phrases, untried, keyOf, encrypted, defaultKey, stranded, cancelled>>
            BY <1>6 DEF Connecting!Answer, Connecting!kept, Connecting!setting
      <2>2. Formed(r)
            BY <1>a DEF Formed
      <2> HIDE DEF r
      <2>3. QED
            BY <1>a, <2>1, <2>2, NoLoginFormed, KeptFits, LoginMoves DEF Connecting!StoreNothing
<1>7. ASSUME NEW t \in Logins, Connecting!ChoosePassword(t) PROVE LoginInv'
      <2> DEFINE q == login[t]
                 asking == [q EXCEPT !.pc = "password"]
                 guessing == [Connecting!With(q, "password") EXCEPT !.guess = passwords[q.id]]
      <2>1. /\ login' = [login EXCEPT ![t] = asking] \/ login' = [login EXCEPT ![t] = guessing]
            /\ UNCHANGED <<phrases, untried, keyOf, encrypted, defaultKey, stranded, cancelled>>
            BY <1>7 DEF Connecting!ChoosePassword, Connecting!kept, Connecting!setting, Connecting!history
      <2>2. Formed(asking)
            BY <1>a
      <2>3. Formed(guessing)
            BY <1>a, WithFormed
      <2> HIDE DEF asking, guessing
      <2>4. QED
            BY <1>a, <2>1, <2>2, <2>3, KeptFits, LoginMoves DEF Connecting!StoreNothing
<1>8. ASSUME NEW t \in Logins, Connecting!Cancel(t) PROVE LoginInv'
      <2>1. /\ login' = [login EXCEPT ![t] = Connecting!NoLogin] /\ UNCHANGED <<phrases, untried, keyOf, encrypted, defaultKey>>
            /\ stranded' = (stranded \/ login[t].pc = "tunnelled") /\ cancelled' = (cancelled \/ login[t].pc = "tunnelled")
            BY <1>8 DEF Connecting!Cancel, Connecting!kept, Connecting!setting
      <2>2. stranded' \in BOOLEAN /\ cancelled' \in BOOLEAN /\ (stranded' => cancelled')
            BY <2>1, Zenon DEF LoginInv
      <2>3. DOMAIN login' = Logins /\ \A u \in Logins : Formed(login'[u])
            BY <2>1, NoLoginFormed DEF LoginInv
      <2>4. /\ Fitting' /\ encrypted' \subseteq Keys
            /\ keyOf' \in [Machines -> Keys \union {None}] /\ defaultKey' \in Keys \union {None}
            BY <2>1 DEF LoginInv, Fitting
      <2>5. QED
            BY <2>2, <2>3, <2>4 DEF LoginInv
<1>9. ASSUME NEW h \in Machines, NEW k \in Keys, NEW typed1 \in Keys \union {None}, Connecting!Configure(h, k, typed1)
      PROVE  LoginInv'
      <2> DEFINE cached == Connecting!Cached(<<h, "name">>, k)
                 phrase == IF Connecting!Opens(k, cached) THEN cached ELSE typed1
      <2>1. UNCHANGED <<defaultKey, encrypted, login, stranded, cancelled>>
            BY <1>9 DEF Connecting!Configure, Connecting!history
      <2>2. /\ phrase # None \/ k \notin encrypted => Connecting!Opens(k, phrase)
            /\ \/ Connecting!StoreNothing /\ UNCHANGED keyOf
               \/ /\ Connecting!Opens(k, phrase) /\ keyOf' = [keyOf EXCEPT ![h] = k]
                  /\ IF phrase # None THEN Connecting!Store(<<h, "name">>, k, phrase) ELSE Connecting!StoreNothing
            BY <1>9 DEF Connecting!Configure
      <2>3. keyOf' \in [Machines -> Keys \union {None}]
            BY <2>2 DEF LoginInv
      <2>4. <<h, "name">> \in Connecting!Ids
            BY DEF Connecting!Ids, Connecting!Via
      <2>5. Fitting'
            <3>1. k \notin encrypted => cached = None /\ phrase = cached
                  BY DEF Connecting!Cached, Connecting!Opens
            <3>2. Connecting!Opens(k, phrase) /\ phrase # None => phrase = k
                  BY <3>1 DEF Connecting!Opens
            <3> HIDE DEF phrase
            <3>3. QED
                  BY <1>a, <2>2, <2>4, <3>2, StoreFits, KeptFits
      <2>6. QED
            BY <2>1, <2>3, <2>5 DEF LoginInv
<1>10. ASSUME NEW user \in BOOLEAN, Connecting!Restart(user) PROVE LoginInv'
      <2>1. /\ login' = [t \in Logins |-> Connecting!NoLogin] /\ stranded' = FALSE
            /\ UNCHANGED <<phrases, untried, keyOf, encrypted, defaultKey, cancelled>>
            BY <1>10 DEF Connecting!Restart
      <2>2. QED
            BY <2>1, NoLoginFormed DEF LoginInv, Fitting
<1>11. QED
      BY <1>1, <1>2, <1>3, <1>4, <1>5, <1>6, <1>7, <1>8, <1>9, <1>10 DEF Connecting!LoginNext

(* It says what is promised.                                               *)
LEMMA LoginKept == LoginInv => Connecting!PhraseFitsKey /\ Connecting!TunnelsEnd
BY DEF LoginInv, Fitting, Connecting!PhraseFitsKey, Connecting!TunnelsEnd

(* Steps of other parts keep it.                                           *)
LEMMA LoginStays == ASSUME LoginInv, UNCHANGED loginVars PROVE LoginInv'
BY DEF LoginInv, loginVars, Fitting

-----------------------------------------------------------------------------
(* Scan: what is counted.                                                  *)
Checks == Scanning!QuickChecks \union Scanning!SystemChecks \union Scanning!SecurityChecks
Answers == {"full", "none", "lost"}

(* A check is an issue of the report just when it saw trouble of a kind    *)
(* that the scan counts, and but for the two false alarms it is grave just *)
(* when that was critical.                                                 *)
FalseAlarms == {"protected", "absent"}
Issue(r) == r.success /\ r.severity \in {"warning", "critical"}

(* Each kind of check says of its host what is there, when it could look.  *)
LEMMA ChecksTell ==
    ASSUME NEW c \in Checks, NEW l \in Scanning!Levels(c), NEW a \in Answers
    PROVE  LET r == Scanning!Check(c, l, a) IN
           /\ Issue(r) <=> c \in Scanning!CountedKinds /\ a = "full" /\ l # "fine"
           /\ Issue(r) /\ l \notin FalseAlarms => (r.severity = "critical" <=> l = "critical")
<1> DEFINE r == Scanning!Check(c, l, a)
           Claim == /\ Issue(r) <=> c \in Scanning!CountedKinds /\ a = "full" /\ l # "fine"
                    /\ Issue(r) /\ l \notin FalseAlarms => (r.severity = "critical" <=> l = "critical")
<1> USE DEF FalseAlarms, Issue, Scanning!CountedKinds, Scanning!SecurityChecks, Scanning!Nothing, Scanning!Gives,
            Scanning!Raises, Scanning!Warned, Scanning!Seen, Answers
<1>1. CASE c \in {"memory", "cpu", "disk"}
      <2>1. l \in {"fine", "warning"}
            BY <1>1 DEF Scanning!Levels
      <2>2. r = IF a = "full" THEN Scanning!Gives(Scanning!Warned(l), l) ELSE Scanning!Nothing
            BY <1>1 DEF Scanning!Check, Scanning!Memory, Scanning!Cpu, Scanning!DiskUsage
      <2>3. QED
            BY <1>1, <2>1, <2>2
<1>2. CASE c \in {"ssh_config", "users", "sudo", "failed_logins", "updates"}
      <2>1. l \in {"fine", "warning", "critical"}
            BY <1>2 DEF Scanning!Levels
      <2>2. r = Scanning!Seen(l, a)
            BY <1>2 DEF Scanning!Check, Scanning!SecurityConfig, Scanning!Users, Scanning!SudoConfig,
                        Scanning!FailedLogins, Scanning!PendingUpdates
      <2>3. QED
            BY <1>2, <2>1, <2>2
<1>3. CASE c = "ssh_keys"
      <2>1. l \in {"fine", "protected", "warning", "critical"}
            BY <1>3 DEF Scanning!Levels
      <2>2. r = Scanning!Seen(IF l = "protected" THEN "warning" ELSE l, a)
            BY <1>3 DEF Scanning!Check, Scanning!SshKeys
      <2>3. QED
            BY <1>3, <2>1, <2>2
<1>7. CASE c = "critical_services"
      <2>1. l \in {"fine", "absent", "warning", "critical"}
            BY <1>7 DEF Scanning!Levels
      <2>2. r = Scanning!Seen(IF l = "absent" THEN "critical" ELSE l, a)
            BY <1>7 DEF Scanning!Check, Scanning!CriticalServices
      <2>3. QED
            BY <1>7, <2>1, <2>2
<1>4. CASE c \in {"system_info", "disks", "health", "docker", "services", "network", "cron", "processes",
                 "logs", "ports"}
      <2>1. r.severity \in {"info", "raise"}
            <3>1. CASE c = "system_info"
                  BY <3>1 DEF Scanning!Check, Scanning!SystemInfo
            <3>2. CASE c = "disks"
                  BY <3>2 DEF Scanning!Check, Scanning!AllDisks
            <3>3. CASE c = "health"
                  BY <3>3 DEF Scanning!Check, Scanning!Health
            <3>4. CASE c = "docker"
                  BY <3>4 DEF Scanning!Check, Scanning!Docker
            <3>5. CASE c = "services"
                  BY <3>5 DEF Scanning!Check, Scanning!Services
            <3>6. CASE c = "network"
                  BY <3>6 DEF Scanning!Check, Scanning!Network
            <3>7. CASE c = "cron"
                  BY <3>7 DEF Scanning!Check, Scanning!Cron
            <3>8. CASE c = "processes"
                  BY <3>8 DEF Scanning!Check, Scanning!Processes
            <3>9. CASE c = "logs"
                  BY <3>9 DEF Scanning!Check, Scanning!RecentErrors
            <3>10. CASE c = "ports"
                  BY <3>10 DEF Scanning!Check, Scanning!OpenPorts
            <3>11. QED
                  BY <1>4, <3>1, <3>2, <3>3, <3>4, <3>5, <3>6, <3>7, <3>8, <3>9, <3>10
      <2>2. QED
            BY <1>4, <2>1
<1>5. c \in {"memory", "cpu", "disk", "ports"} \union
            {"system_info", "memory", "cpu", "health", "disks", "docker", "services", "network", "cron",
             "processes", "logs"} \union
            {"ports", "ssh_config", "users", "ssh_keys", "sudo", "critical_services", "failed_logins", "updates"}
      BY DEF Checks, Scanning!QuickChecks, Scanning!SystemChecks
<1>6. QED
      BY <1>1, <1>2, <1>3, <1>4, <1>5, <1>7

(* What a check of a host has found, and which checks are to be made.      *)
FoundInv(n) == \A c \in DOMAIN found[n] :
    c \in Scanning!Picked /\ found[n][c].level \in Scanning!Levels(c) /\ found[n][c].answer \in Answers

Heard(n) == {c \in Scanning!Picked \cap Scanning!CountedKinds : found[n][c].answer = "full"}
Alarms(n) == {c \in Heard(n) : found[n][c].level \in FalseAlarms}
Troubled(n) == {c \in Heard(n) \ Alarms(n) : found[n][c].level # "fine"}
Grave(n) == {c \in Troubled(n) : found[n][c].level = "critical"}
TrueCount(n) ==
    /\ report[n].issues \ Alarms(n) = Troubled(n)
    /\ Alarms(n) = {} =>
          /\ report[n].critical = Scanning!Cardinality(Grave(n))
          /\ report[n].score = Scanning!Min({100, 25 * Scanning!Cardinality(Grave(n))
                                                 + 10 * Scanning!Cardinality(Troubled(n) \ Grave(n))})

ScanInv ==
    /\ Scanning!Picked \subseteq Checks
    /\ host = [n \in Names |-> host[n]] /\ found = [n \in Names |-> found[n]]
    /\ report = [n \in Names |-> report[n]]
    /\ \A n \in Names : /\ FoundInv(n)
                        /\ host[n] # "done" => report[n] = None
                        /\ report[n] # None /\ report[n].success => TrueCount(n)

(* The invariant holds at the start.                                       *)
LEMMA ScanStart == Scanning!ScanInit => ScanInv
<1> SUFFICES ASSUME Scanning!ScanInit PROVE ScanInv
    OBVIOUS
<1>1. Scanning!Picked \subseteq Checks
      BY DEF Scanning!ScanInit, Scanning!Picked, Scanning!UpTo, Scanning!SystemPart, Scanning!SecurityPart, Checks,
             Scanning!QuickChecks, Scanning!SystemChecks, Scanning!SecurityChecks
<1>2. QED
      BY <1>1 DEF Scanning!ScanInit, ScanInv, FoundInv

(* The report that is made of what was found counts it truly.              *)
LEMMA CountsTruly ==
    ASSUME ScanInv, NEW n \in Names, Scanning!Count(n)
    PROVE  TrueCount(n)'
<1> DEFINE alarms == Alarms(n)
           troubled == Troubled(n)
           grave == Grave(n)
           critical == Scanning!WithSeverity(n, "critical")
           warnings == Scanning!WithSeverity(n, "warning")
<1>1. DOMAIN found[n] = Scanning!Picked /\ UNCHANGED <<kind, system, security, found>>
      BY DEF Scanning!Count
<1>2. \A c \in Scanning!Picked :
         /\ Scanning!Results(n)[c] = Scanning!Check(c, found[n][c].level, found[n][c].answer)
         /\ c \in Checks /\ found[n][c].level \in Scanning!Levels(c) /\ found[n][c].answer \in Answers
      BY <1>1 DEF ScanInv, FoundInv, Scanning!Results
<1>3. \A c \in Scanning!Picked :
         /\ Issue(Scanning!Results(n)[c]) <=>
               c \in Scanning!CountedKinds /\ found[n][c].answer = "full" /\ found[n][c].level # "fine"
         /\ Issue(Scanning!Results(n)[c]) /\ found[n][c].level \notin FalseAlarms =>
               (Scanning!Results(n)[c].severity = "critical" <=> found[n][c].level = "critical")
      BY <1>2, ChecksTell
<1>4. Scanning!Issues(n) = {c \in Scanning!Picked : Issue(Scanning!Results(n)[c])}
      BY <1>1 DEF Scanning!Issues, Scanning!Kept, Issue
<1>5. Scanning!Issues(n) = troubled \union alarms
      BY <1>3, <1>4 DEF Troubled, Alarms, Heard, FalseAlarms
<1>6. Scanning!Issues(n) \ alarms = troubled
      BY <1>5 DEF Troubled
<1>7. ASSUME alarms = {}
      PROVE  /\ critical = Scanning!Cardinality(grave)
             /\ warnings = Scanning!Cardinality(troubled \ grave)
      <2>1. \A c \in Scanning!Issues(n) :
               /\ Issue(Scanning!Results(n)[c])
               /\ Scanning!Results(n)[c].severity = "critical" <=> found[n][c].level = "critical"
            BY <1>3, <1>4, <1>7 DEF Alarms, Heard
      <2>2. {c \in Scanning!Issues(n) : Scanning!Results(n)[c].severity = "critical"} = grave
            BY <1>5, <1>7, <2>1 DEF Grave
      <2>3. {c \in Scanning!Issues(n) : Scanning!Results(n)[c].severity = "warning"} = troubled \ grave
            BY <1>5, <1>7, <2>1 DEF Issue, Grave
      <2>4. QED
            BY <2>2, <2>3 DEF Scanning!WithSeverity
<1>9. /\ report'[n].issues = Scanning!Issues(n) /\ report'[n].critical = critical
      /\ report'[n].score = Scanning!SeverityScore(critical, warnings)
      BY DEF Scanning!Count, ScanInv
<1>10. Scanning!Picked' = Scanning!Picked /\ found' = found
       BY <1>1 DEF Scanning!Picked
<1>11. alarms = {} =>
          /\ report'[n].critical = Scanning!Cardinality(grave)
          /\ report'[n].score = Scanning!Min({100, 25 * Scanning!Cardinality(grave)
                                                  + 10 * Scanning!Cardinality(troubled \ grave)})
       BY <1>7, <1>9 DEF Scanning!SeverityScore
<1>13. Alarms(n)' = alarms /\ Troubled(n)' = troubled /\ Grave(n)' = grave
       BY <1>10 DEF Troubled, Grave, Alarms, Heard
<1>14. QED
       BY <1>6, <1>9, <1>11, <1>13 DEF TrueCount

(* Every step keeps it.                                                    *)
LEMMA ScanStep == ASSUME ScanInv, Scanning!ScanNext PROVE ScanInv'
<1> PICK n \in Names : \/ Scanning!Lookup(n) \/ Scanning!Connect(n) \/ Scanning!Count(n)
                       \/ \E c \in Scanning!Picked : Scanning!Answer(n, c)
    BY DEF Scanning!ScanNext, Scanning!Hosting
<1>1. Scanning!Picked' = Scanning!Picked
      BY DEF Scanning!Picked, Scanning!Lookup, Scanning!Connect, Scanning!Count, Scanning!Answer, Scanning!Fail
<1>2. ASSUME found' = found, host' = [host EXCEPT ![n] = host'[n]], report' = [report EXCEPT ![n] = report'[n]],
             host'[n] # "done" => report'[n] = None,
             report'[n] # None /\ report'[n].success => TrueCount(n)'
      PROVE  ScanInv'
      <2>1. \A m \in Names \ {n} : host'[m] = host[m] /\ report'[m] = report[m]
            BY <1>2 DEF ScanInv
      <2>2. \A m \in Names \ {n} : TrueCount(m) => TrueCount(m)'
            <3> TAKE m \in Names \ {n}
            <3>1. Alarms(m)' = Alarms(m) /\ Troubled(m)' = Troubled(m) /\ Grave(m)' = Grave(m)
                  BY <1>1, <1>2 DEF Troubled, Grave, Alarms, Heard
            <3>2. QED
                  BY <2>1, <3>1 DEF TrueCount
      <2>3. \A m \in Names : FoundInv(m)'
            BY <1>1, <1>2 DEF ScanInv, FoundInv
      <2>4. QED
            BY <1>1, <1>2, <2>1, <2>2, <2>3 DEF ScanInv
<1>3. ASSUME Scanning!Fail(n) PROVE ScanInv'
      <2>1. found' = found /\ host'[n] = "done" /\ host' = [host EXCEPT ![n] = "done"]
            /\ report' = [report EXCEPT ![n] = Scanning!Failed] /\ report'[n] = Scanning!Failed
            BY <1>3 DEF Scanning!Fail, ScanInv
      <2>2. ~report'[n].success
            BY <2>1 DEF Scanning!Failed
      <2>3. QED
            BY <1>2, <2>1, <2>2
<1>4. ASSUME Scanning!Lookup(n) \/ Scanning!Connect(n) PROVE ScanInv'
      <2>1. CASE ~Scanning!Fail(n)
            <3>1. /\ found' = found /\ report' = report /\ host[n] # "done" /\ host'[n] # "done"
                  /\ host' = [host EXCEPT ![n] = host'[n]]
                  BY <1>4, <2>1 DEF Scanning!Lookup, Scanning!Connect, ScanInv
            <3>2. report[n] = None /\ report' = [report EXCEPT ![n] = report'[n]]
                  BY <3>1 DEF ScanInv
            <3>3. QED
                  BY <1>2, <3>1, <3>2
      <2>2. QED
            BY <1>3, <2>1
<1>5. ASSUME Scanning!Count(n) PROVE ScanInv'
      <2>1. /\ found' = found /\ host'[n] = "done" /\ host' = [host EXCEPT ![n] = host'[n]]
            /\ report' = [report EXCEPT ![n] = report'[n]]
            BY <1>5 DEF Scanning!Count, ScanInv
      <2>2. QED
            BY <1>2, <1>5, <2>1, CountsTruly
<1>6. ASSUME NEW c \in Scanning!Picked, Scanning!Answer(n, c) PROVE ScanInv'
      <2>1. PICK l \in Scanning!Levels(c), a \in Answers :
               found' = [found EXCEPT ![n] = [k \in DOMAIN @ \cup {c} |->
                          IF k = c THEN [level |-> l, answer |-> a] ELSE @[k]]]
            BY <1>6 DEF Scanning!Answer, Answers
      <2>2. UNCHANGED <<host, report>> /\ host[n] = "checking"
            BY <1>6 DEF Scanning!Answer
      <2>3. /\ found' = [m \in Names |-> found'[m]]
            /\ found'[n] = [k \in DOMAIN found[n] \cup {c} |-> IF k = c THEN [level |-> l, answer |-> a] ELSE found[n][k]]
            /\ \A m \in Names \ {n} : found'[m] = found[m]
            BY <2>1 DEF ScanInv
      <2>4. FoundInv(n)'
            BY <1>1, <2>3 DEF ScanInv, FoundInv
      <2>5. \A m \in Names \ {n} : FoundInv(m)'
            BY <1>1, <2>3 DEF ScanInv, FoundInv
      <2>8. \A m \in Names \ {n} : TrueCount(m) => TrueCount(m)'
            <3> TAKE m \in Names \ {n}
            <3>1. Alarms(m)' = Alarms(m) /\ Troubled(m)' = Troubled(m) /\ Grave(m)' = Grave(m)
                  BY <1>1, <2>3 DEF Troubled, Grave, Alarms, Heard
            <3>2. QED
                  BY <2>2, <3>1 DEF TrueCount
      <2>6. report[n] = None
            BY <2>2 DEF ScanInv
      <2>9. QED
            BY <1>1, <2>2, <2>3, <2>4, <2>5, <2>6, <2>8 DEF ScanInv
<1>7. QED
      BY <1>4, <1>5, <1>6

(* It says what is promised.                                               *)
LEMMA ScanKept == ScanInv => Scanning!CountsAreTrue
BY DEF ScanInv, TrueCount, Troubled, Grave, Alarms, Heard, FalseAlarms, Scanning!CountsAreTrue

(* Steps of other parts keep it.                                           *)
LEMMA ScanStays == ASSUME ScanInv, UNCHANGED scanVars PROVE ScanInv'
<1>1. Scanning!Picked' = Scanning!Picked /\ UNCHANGED <<host, found, report>>
      BY DEF scanVars, Scanning!Picked
<1>2. ASSUME NEW n \in Names
      PROVE  /\ FoundInv(n) => FoundInv(n)'
             /\ TrueCount(n) => TrueCount(n)'
             /\ host'[n] = host[n] /\ report'[n] = report[n]
      BY <1>1 DEF FoundInv, TrueCount, Grave, Troubled, Alarms, Heard
<1>3. QED
      BY <1>1, <1>2 DEF ScanInv

-----------------------------------------------------------------------------
(* SecretStore: what is listed.                                            *)
(* A name that is not in doubt has the value that was last written; it is  *)
(* listed, and in the index, just when it has one; and so is the name whose*)
(* index is about to be saved, once its value is in the keyring.           *)
Known(n) == keyring[n] = written[n]
SecretsInv ==
    /\ keyring \in [Keeping!SecretNames -> Values \union {None}]
    /\ written \in [Keeping!SecretNames -> Values \union {None}]
    /\ secure \in BOOLEAN /\ index \subseteq Keeping!SecretNames
    /\ listed # None => listed \subseteq Keeping!SecretNames
    /\ listed = None => saving = None /\ pending = {}
    /\ \A n \in Keeping!SecretNames \ doubt : Known(n) /\ (n \in index <=> keyring[n] # None)
    /\ listed # None =>
          \A n \in Keeping!SecretNames : n \notin doubt \/ (secure /\ n = saving) =>
              Known(n) /\ (n \in listed <=> keyring[n] # None)

(* The invariant holds at the start.                                       *)
LEMMA SecretsStart == Keeping!SecretsInit => SecretsInv
BY DEF Keeping!SecretsInit, SecretsInv, Known

(* A secret that is deleted is not listed any more.                        *)
LEMMA SecretDeleted ==
    ASSUME SecretsInv, saving = None, listed # None, NEW n \in Keeping!SecretNames, NEW ok \in BOOLEAN, Keeping!Delete(n, ok),
           UNCHANGED <<index, secure>>
    PROVE  SecretsInv'
<1> USE ValueAssumption DEF SecretsInv, Known, Keeping!SecretNames
<1>1. CASE secure => ok /\ keyring[n] # None
      <2>1. /\ listed' = listed \ {n} /\ saving' = n /\ doubt' = doubt \union {n}
            /\ written' = [written EXCEPT ![n] = None]
            /\ IF secure THEN keyring' = [keyring EXCEPT ![n] = None] ELSE keyring' = keyring
            BY <1>1 DEF Keeping!Delete
      <2>2. QED
            BY <2>1
<1>2. CASE ~(secure => ok /\ keyring[n] # None)
      BY <1>2 DEF Keeping!Delete
<1>3. QED
      BY <1>1, <1>2

(* Every step keeps it.                                                    *)
LEMMA SecretsStep == ASSUME SecretsInv, Keeping!SecretsNext PROVE SecretsInv'
<1> USE ValueAssumption DEF SecretsInv, Known, Keeping!SecretNames
<1>1. ASSUME NEW works \in BOOLEAN, NEW accepted \in BOOLEAN, Keeping!Open(works, accepted)
      PROVE  SecretsInv'
      BY <1>1 DEF Keeping!Open, Keeping!Running
<1>2. ASSUME NEW n \in Keeping!SecretNames, NEW v \in Values, Keeping!SetSecret(n, v)
      PROVE  SecretsInv'
      BY <1>2 DEF Keeping!SetSecret, Keeping!Idle, Keeping!Running
<1>3. ASSUME NEW n \in Keeping!SecretNames, NEW ok \in BOOLEAN,
             Keeping!DeleteSecret(n, ok) \/ Keeping!ClearNext(n, ok)
      PROVE  SecretsInv'
      BY <1>3, SecretDeleted DEF Keeping!DeleteSecret, Keeping!ClearNext, Keeping!Idle, Keeping!Running
<1>4. ASSUME NEW some \in SUBSET Elevations, Keeping!ClearElevation(some)
      PROVE  SecretsInv'
      BY <1>4 DEF Keeping!ClearElevation, Keeping!Idle, Keeping!Running
<1>5. ASSUME NEW ok \in BOOLEAN, Keeping!SaveIndex(ok)
      PROVE  SecretsInv'
      BY <1>5 DEF Keeping!SaveIndex
<1>6. ASSUME Keeping!CloseSecrets
      PROVE  SecretsInv'
      BY <1>6 DEF Keeping!CloseSecrets, Keeping!Running
<1>7. QED
      BY <1>1, <1>2, <1>3, <1>4, <1>5, <1>6 DEF Keeping!SecretsNext

(* It says what is promised.                                               *)
LEMMA SecretsKept == SecretsInv => Keeping!ListedAreReadable
BY DEF SecretsInv, Known, Keeping!ListedAreReadable, Keeping!Idle, Keeping!Running, Keeping!Get

(* Steps of other parts keep it.                                           *)
LEMMA SecretsStays == ASSUME SecretsInv, UNCHANGED secretVars PROVE SecretsInv'
BY DEF SecretsInv, secretVars, Known

-----------------------------------------------------------------------------
(* Templates: the registry among threads.                                  *)
Versions == 1..MaxVersion
Templates == TemplateNames \X Versions
Registered == [TemplateNames -> [Versions \union {Latest} -> Versions \union {None}]]
Uses == [pc : {"idle", "get", "reloading", "loading", "found", "render"}, name : TemplateNames \union {None},
         version : Versions \union {Latest, None}, left : SUBSET Loaders, back : SUBSET Templates]

(* A version is found under itself, and the highest of them without one.   *)
Own(ts) == \A n \in TemplateNames, v \in Versions : ts[n][v] \in {v, None}
Topped(ts) == \A n \in TemplateNames, v \in Versions :
                 ts[n][v] # None => ts[n][Latest] # None /\ ts[n][Latest] >= v

(* What was registered by hand is listed, or the thread that holds the lock*)
(* has yet to register it again.                                           *)
Regained == \A n \in TemplateNames, v \in Versions :
               manual[n][v] # None => \/ templates[n][v] # None
                                      \/ lock # None /\ <<n, v>> \in thread[lock].back

TemplatesInv ==
    /\ templates \in Registered /\ Own(templates) /\ Topped(templates)
    /\ manual \in Registered /\ Own(manual)
    /\ thread \in [Threads -> Uses] /\ loaders \subseteq Loaders
    /\ dirs \in [Loaders -> SUBSET Templates] /\ lock \in Threads \union {None}
    /\ lock # None => thread[lock].pc \in {"reloading", "loading"}
    /\ Regained

(* The empty registry.                                                     *)
LEMMA NothingIsListed ==
    /\ Instantiating!Nothing \in Registered /\ Own(Instantiating!Nothing) /\ Topped(Instantiating!Nothing)
    /\ \A n \in TemplateNames, v \in Versions : Instantiating!Nothing[n][v] = None
    /\ Instantiating!NoUse \in Uses /\ Instantiating!NoUse.pc = "idle"
BY DEF Instantiating!Nothing, Instantiating!NoUse, Instantiating!Versions, Registered, Own, Topped, Versions, Uses

(* And so with one.                                                        *)
LEMMA OneListed ==
    ASSUME NEW ts \in Registered, Own(ts), Topped(ts), NEW n \in TemplateNames, NEW v \in Versions
    PROVE  LET new == Instantiating!Register(ts, n, v) IN
           /\ new \in Registered /\ Own(new) /\ Topped(new)
           /\ new[n][v] # None
           /\ \A m \in TemplateNames, w \in Versions : ts[m][w] # None => new[m][w] # None
<1> DEFINE new == Instantiating!Register(ts, n, v)
           high == IF ts[n][Latest] = None \/ v > ts[n][Latest] THEN v ELSE ts[n][Latest]
           row == [[ts[n] EXCEPT ![v] = v] EXCEPT ![Latest] = high]
<1>0. v # Latest /\ v # None /\ v \in Nat
      BY VersionAssumption DEF Versions
<1>1. ts[n] \in [Versions \union {Latest} -> Versions \union {None}]
      BY DEF Registered
<1>2. new = [ts EXCEPT ![n] = row]
      BY <1>0, <1>1 DEF Instantiating!Register, Registered
<1>3. high \in Versions /\ high # None /\ high >= v /\ (ts[n][Latest] # None => high >= ts[n][Latest])
      <2>1. ts[n][Latest] \in Versions \union {None}
            BY <1>1
      <2>2. QED
            BY <1>0, <2>1, VersionAssumption DEF Versions
<1> HIDE DEF high
<1>4. /\ row \in [Versions \union {Latest} -> Versions \union {None}]
      /\ row[Latest] = high /\ row[v] = v
      /\ \A w \in Versions : w # v => row[w] = ts[n][w]
      <2>1. \A w \in Versions : w # Latest
            BY VersionAssumption DEF Versions
      <2>2. QED
            BY <1>0, <1>1, <1>3, <2>1
<1> HIDE DEF row, new
<1>5. new \in Registered /\ new[n] = row /\ \A m \in TemplateNames : m # n => new[m] = ts[m]
      BY <1>2, <1>4 DEF Registered
<1>6. Own(new)
      BY <1>4, <1>5 DEF Own
<1>7. ASSUME NEW m \in TemplateNames, NEW w \in Versions, new[m][w] # None
      PROVE  new[m][Latest] # None /\ new[m][Latest] >= w
      <2>1. CASE m = n /\ w = v
            BY <1>3, <1>4, <1>5, <2>1
      <2>2. CASE m = n /\ w # v
            <3>1. ts[n][w] # None
                  BY <1>4, <1>5, <1>7, <2>2
            <3>2. ts[n][Latest] # None /\ ts[n][Latest] >= w /\ ts[n][Latest] \in Versions \union {None}
                  BY <1>1, <3>1 DEF Topped
            <3>3. high >= ts[n][Latest] /\ high \in Nat /\ w \in Nat /\ ts[n][Latest] \in Nat
                  BY <1>3, <3>2, VersionAssumption DEF Versions
            <3>4. QED
                  BY <1>3, <1>4, <1>5, <2>2, <3>2, <3>3
      <2>3. CASE m # n
            BY <1>5, <1>7, <2>3 DEF Topped
      <2>4. QED
            BY <2>1, <2>2, <2>3
<1>8. ASSUME NEW m \in TemplateNames, NEW w \in Versions, ts[m][w] # None PROVE new[m][w] # None
      BY <1>0, <1>4, <1>5, <1>8
<1>9. QED
      BY <1>0, <1>4, <1>5, <1>6, <1>7, <1>8 DEF new, Topped

(* The invariant holds at the start.                                       *)
LEMMA TemplatesStart == Instantiating!TemplatesInit => TemplatesInv
BY NothingIsListed DEF Instantiating!TemplatesInit, TemplatesInv, Regained, Instantiating!Versions, Versions, Templates

(* A step of a thread that does not hold the lock and keeps the registry.  *)
LEMMA ThreadOnly ==
    ASSUME TemplatesInv, NEW t \in Threads, NEW q \in Uses, thread[t].pc \notin {"reloading", "loading"},
           thread' = [thread EXCEPT ![t] = q], UNCHANGED <<templates, manual, dirs, lock>>,
           loaders' \subseteq Loaders
    PROVE  TemplatesInv'
<1>1. /\ lock # t /\ lock \in Threads \union {None}
      /\ thread' \in [Threads -> Uses] /\ \A u \in Threads : u # t => thread'[u] = thread[u]
      BY VersionAssumption DEF TemplatesInv
<1>2. lock # None => thread'[lock] = thread[lock]
      BY <1>1
<1>3. QED
      BY <1>1, <1>2 DEF TemplatesInv, Own, Topped, Regained

(* What the lock covers, when it is free afterwards.                       *)
LEMMA LockFree ==
    ASSUME TemplatesInv, lock' = None, dirs' = dirs, loaders' = loaders, thread' \in [Threads -> Uses],
           templates' \in Registered, Own(templates'), Topped(templates'), manual' \in Registered, Own(manual'),
           \A n \in TemplateNames, v \in Versions : manual'[n][v] # None => templates'[n][v] # None
    PROVE  TemplatesInv'
BY DEF TemplatesInv, Regained

(* A load empties the registry, and has what was registered by hand to do. *)
LEMMA LoadKeeps ==
    ASSUME TemplatesInv, NEW t \in Threads, NEW then \in {"reloading", "loading"},
           Instantiating!Load(t, then), UNCHANGED <<manual, loaders, dirs>>
    PROVE  TemplatesInv'
<1> DEFINE q == [thread[t] EXCEPT !.pc = then, !.left = loaders, !.back = Instantiating!Manual]
<1>1. templates' = Instantiating!Nothing /\ lock' = t /\ thread' = [thread EXCEPT ![t] = q]
      BY DEF Instantiating!Load
<1>2. Instantiating!Manual \subseteq Templates
      <2> SUFFICES ASSUME NEW n \in TemplateNames, NEW k \in Versions \union {Latest}, manual[n][k] # None
                   PROVE  <<n, manual[n][k]>> \in Templates
          BY DEF Instantiating!Manual, Instantiating!Versions, Versions
      <2>1. QED
            BY DEF TemplatesInv, Registered, Templates
<1>3. q \in Uses /\ q.pc = then /\ q.back = Instantiating!Manual
      BY <1>2 DEF TemplatesInv, Uses
<1> HIDE DEF q
<1>4. thread' \in [Threads -> Uses] /\ thread'[lock'] = q /\ lock' \in Threads
      BY <1>1, <1>3 DEF TemplatesInv
<1>5. ASSUME NEW n \in TemplateNames, NEW v \in Versions, manual[n][v] # None
      PROVE  lock' # None /\ <<n, v>> \in thread'[lock'].back
      <2>1. manual[n][v] = v
            BY <1>5 DEF TemplatesInv, Own
      <2>2. <<n, v>> \in Instantiating!Manual
            BY <1>5, <2>1 DEF Instantiating!Manual, Instantiating!Versions, Versions
      <2>3. QED
            BY <1>3, <1>4, <2>2, VersionAssumption
<1>6. Regained'
      BY <1>5 DEF Regained
<1>7. templates' \in Registered /\ Own(templates') /\ Topped(templates')
      BY <1>1, NothingIsListed
<1>8. QED
      BY <1>3, <1>4, <1>6, <1>7 DEF TemplatesInv

(* Every step keeps it.                                                    *)
LEMMA TemplatesStep == ASSUME TemplatesInv, Instantiating!TemplatesNext PROVE TemplatesInv'
<1> USE DEF Versions
<1>0. PICK t \in Threads :
         \/ \E l \in Loaders : \/ Instantiating!RegisterLoader(t, l)
                              \/ \E several \in SUBSET dirs[l] : Instantiating!LoadFrom(t, l, several)
         \/ \E n \in TemplateNames :
               \/ \E v \in Versions : Instantiating!RegisterManual(t, n, v) \/ Instantiating!RegisterNext(t, n, v)
               \/ \E k \in Versions \union {Latest} : Instantiating!GetTemplate(t, n, k)
               \/ Instantiating!Unregister(t, n)
         \/ Instantiating!Reload(t) \/ Instantiating!Loaded(t) \/ Instantiating!EnsureLoaded(t)
         \/ \E valid \in BOOLEAN : Instantiating!Instantiate(t, valid)
         \/ Instantiating!Render(t) \/ Instantiating!Cleanup(t) \/ Instantiating!ClearRegistry(t)
      BY DEF Instantiating!TemplatesNext, Instantiating!Versions
<1>a. /\ thread \in [Threads -> Uses] /\ thread[t] \in Uses /\ loaders \subseteq Loaders
      /\ templates \in Registered /\ Own(templates) /\ Topped(templates) /\ manual \in Registered /\ Own(manual)
      BY DEF TemplatesInv
<1>b. thread = [thread EXCEPT ![t] = thread[t]]
      BY <1>a
<1>c. lock = None => \A n \in TemplateNames, v \in Versions : manual[n][v] # None => templates[n][v] # None
      BY DEF TemplatesInv, Regained
<1>1. ASSUME NEW l \in Loaders, Instantiating!RegisterLoader(t, l) PROVE TemplatesInv'
      <2>1. /\ loaders' = loaders \union {l} /\ thread[t].pc = "idle"
            /\ UNCHANGED <<templates, manual, dirs, lock, thread>>
            BY <1>1 DEF Instantiating!RegisterLoader, Instantiating!Begin
      <2>2. loaders' \subseteq Loaders
            BY <1>a, <2>1
      <2>3. QED
            BY <1>a, <1>b, <2>1, <2>2, ThreadOnly
<1>2. ASSUME NEW l \in Loaders, NEW several \in SUBSET dirs[l], Instantiating!LoadFrom(t, l, several)
      PROVE  TemplatesInv'
      <2> DEFINE q == [thread[t] EXCEPT !.left = thread[t].left \ {l}, !.back = several]
      <2>1. /\ lock = t /\ thread[t].back = {} /\ thread' = [thread EXCEPT ![t] = q]
            /\ UNCHANGED <<templates, manual, dirs, loaders, lock>>
            BY <1>2, <1>a DEF Instantiating!LoadFrom, Uses
      <2>2. several \subseteq Templates
            BY DEF TemplatesInv
      <2>3. q \in Uses /\ q.pc = thread[t].pc
            BY <1>a, <2>2 DEF Uses
      <2> HIDE DEF q
      <2>4. thread' \in [Threads -> Uses] /\ thread'[lock] = q
            BY <1>a, <2>1, <2>3
      <2>5. \A n \in TemplateNames, v \in Versions : manual[n][v] # None => templates[n][v] # None
            BY <2>1 DEF TemplatesInv, Regained
      <2>6. QED
            BY <2>1, <2>3, <2>4, <2>5 DEF TemplatesInv, Regained, Own, Topped
<1>3. ASSUME NEW n \in TemplateNames, NEW v \in Versions, Instantiating!RegisterManual(t, n, v)
      PROVE  TemplatesInv'
      <2> DEFINE row == [[manual[n] EXCEPT ![v] = v] EXCEPT ![Latest] = v]
      <2>1. /\ lock = None /\ templates' = Instantiating!Register(templates, n, v)
            /\ UNCHANGED <<dirs, loaders, lock, thread>>
            BY <1>3 DEF Instantiating!RegisterManual
      <2>2. /\ templates' \in Registered /\ Own(templates') /\ Topped(templates') /\ templates'[n][v] # None
            /\ \A m \in TemplateNames, w \in Versions : templates[m][w] # None => templates'[m][w] # None
            BY <1>a, <2>1, OneListed
      <2>3. manual' = [manual EXCEPT ![n] = row]
            BY <1>3, <1>a, VersionAssumption DEF Instantiating!RegisterManual, Registered
      <2>4. /\ row \in [Versions \union {Latest} -> Versions \union {None}] /\ row[v] = v
            /\ \A w \in Versions : w # v => row[w] = manual[n][w]
            BY <1>a, VersionAssumption DEF Registered
      <2> HIDE DEF row
      <2>5. manual' \in Registered /\ manual'[n] = row /\ \A m \in TemplateNames : m # n => manual'[m] = manual[m]
            BY <1>a, <2>3, <2>4 DEF Registered
      <2>6. Own(manual')
            BY <1>a, <2>4, <2>5 DEF Own
      <2>7. \A m \in TemplateNames, w \in Versions : manual'[m][w] # None => templates'[m][w] # None
            BY <1>c, <2>1, <2>2, <2>4, <2>5
      <2>8. QED
            BY <1>a, <2>1, <2>2, <2>5, <2>6, <2>7, LockFree
<1>4. ASSUME NEW n \in TemplateNames, NEW v \in Versions, Instantiating!RegisterNext(t, n, v)
      PROVE  TemplatesInv'
      <2> DEFINE q == [thread[t] EXCEPT !.back = thread[t].back \ {<<n, v>>}]
      <2>1. /\ lock = t /\ thread' = [thread EXCEPT ![t] = q]
            /\ templates' = Instantiating!Register(templates, n, v)
            /\ UNCHANGED <<manual, dirs, loaders, lock>>
            BY <1>4, <1>a DEF Instantiating!RegisterNext, Uses
      <2>2. /\ templates' \in Registered /\ Own(templates') /\ Topped(templates') /\ templates'[n][v] # None
            /\ \A m \in TemplateNames, w \in Versions : templates[m][w] # None => templates'[m][w] # None
            BY <1>a, <2>1, OneListed
      <2>3. q \in Uses /\ q.pc = thread[t].pc /\ q.back = thread[t].back \ {<<n, v>>}
            BY <1>a DEF Uses
      <2> HIDE DEF q
      <2>4. thread' \in [Threads -> Uses] /\ thread'[lock'] = q /\ lock' = lock /\ lock # None
            BY <1>a, <2>1, <2>3, VersionAssumption
      <2>5. ASSUME NEW m \in TemplateNames, NEW w \in Versions, manual[m][w] # None
            PROVE  templates'[m][w] # None \/ <<m, w>> \in thread'[lock'].back
            <3>1. templates[m][w] # None \/ <<m, w>> \in thread[t].back
                  BY <2>1, <2>5 DEF TemplatesInv, Regained
            <3>2. <<m, w>> = <<n, v>> => templates'[m][w] # None
                  BY <2>2
            <3>3. QED
                  BY <2>2, <2>3, <2>4, <3>1, <3>2
      <2>6. Regained'
            BY <2>1, <2>4, <2>5 DEF Regained
      <2>7. thread'[lock'].pc \in {"reloading", "loading"}
            BY <2>1, <2>3, <2>4 DEF TemplatesInv
      <2>8. QED
            BY <2>1, <2>2, <2>4, <2>6, <2>7 DEF TemplatesInv, Own
<1>5. ASSUME NEW n \in TemplateNames, NEW k \in Versions \union {Latest}, Instantiating!GetTemplate(t, n, k)
      PROVE  TemplatesInv'
      <2> DEFINE q == [Instantiating!NoUse EXCEPT !.pc = "get", !.name = n, !.version = k]
      <2>1. /\ thread' = [thread EXCEPT ![t] = q] /\ thread[t].pc = "idle"
            /\ UNCHANGED <<templates, manual, dirs, loaders, lock>>
            BY <1>5 DEF Instantiating!GetTemplate, Instantiating!Begin
      <2>2. q \in Uses
            BY DEF Uses, Instantiating!NoUse
      <2> HIDE DEF q
      <2>3. QED
            BY <1>a, <2>1, <2>2, ThreadOnly
<1>6. ASSUME NEW n \in TemplateNames, Instantiating!Unregister(t, n) PROVE TemplatesInv'
      <2>1. /\ lock = None /\ UNCHANGED <<dirs, loaders, lock, thread>>
            /\ templates' = [templates EXCEPT ![n] = Instantiating!Nothing[n]]
            /\ manual' = [manual EXCEPT ![n] = [k \in DOMAIN manual[n] |->
                                                  IF templates[n][k] = None THEN manual[n][k] ELSE None]]
            BY <1>6, <1>a DEF Instantiating!Unregister, Registered
      <2>2. DOMAIN manual[n] = Versions \union {Latest}
            BY <1>a DEF Registered
      <2>3. /\ Instantiating!Nothing[n] \in [Versions \union {Latest} -> Versions \union {None}]
            /\ \A v \in Versions : Instantiating!Nothing[n][v] = None
            BY NothingIsListed DEF Registered
      <2>4. /\ templates' \in Registered /\ templates'[n] = Instantiating!Nothing[n]
            /\ \A m \in TemplateNames : m # n => templates'[m] = templates[m]
            BY <1>a, <2>1, <2>3 DEF Registered
      <2>5. /\ manual' \in Registered
            /\ \A v \in Versions : manual'[n][v] = IF templates[n][v] = None THEN manual[n][v] ELSE None
            /\ \A m \in TemplateNames : m # n => manual'[m] = manual[m]
            <3> DEFINE row == [k \in Versions \union {Latest} |->
                                 IF templates[n][k] = None THEN manual[n][k] ELSE None]
            <3>1. row \in [Versions \union {Latest} -> Versions \union {None}] /\ manual' = [manual EXCEPT ![n] = row]
                  BY <1>a, <2>1, <2>2 DEF Registered
            <3>2. \A v \in Versions : row[v] = IF templates[n][v] = None THEN manual[n][v] ELSE None
                  OBVIOUS
            <3> HIDE DEF row
            <3>3. manual' \in Registered /\ manual'[n] = row /\ \A m \in TemplateNames : m # n => manual'[m] = manual[m]
                  BY <1>a, <3>1 DEF Registered
            <3>4. QED
                  BY <3>2, <3>3
      <2>6. Own(templates') /\ Own(manual')
            BY <1>a, <2>3, <2>4, <2>5 DEF Own
      <2>7. Topped(templates')
            BY <1>a, <2>3, <2>4 DEF Topped
      <2>8. \A m \in TemplateNames, v \in Versions : manual'[m][v] # None => templates'[m][v] # None
            <3> SUFFICES ASSUME NEW m \in TemplateNames, NEW v \in Versions, manual'[m][v] # None
                         PROVE  templates'[m][v] # None
                OBVIOUS
            <3>1. CASE m = n
                  BY <1>c, <2>1, <2>5, <3>1
            <3>2. CASE m # n
                  BY <1>c, <2>1, <2>4, <2>5, <3>2
            <3>3. QED
                  BY <3>1, <3>2
      <2>9. QED
            BY <1>a, <2>1, <2>4, <2>5, <2>6, <2>7, <2>8, LockFree
<1>7. ASSUME Instantiating!Reload(t) PROVE TemplatesInv'
      BY <1>7, LoadKeeps DEF Instantiating!Reload
<1>8. ASSUME Instantiating!Loaded(t) PROVE TemplatesInv'
      <2> DEFINE q == [thread[t] EXCEPT !.pc = "found"]
      <2>1. /\ thread' = [thread EXCEPT ![t] = Instantiating!NoUse] \/ thread' = [thread EXCEPT ![t] = q]
            /\ lock = t /\ thread[t].back = {} /\ lock' = None
            /\ UNCHANGED <<templates, manual, dirs, loaders>>
            BY <1>8, <1>a DEF Instantiating!Loaded, Instantiating!Return, Instantiating!Step
      <2>2. q \in Uses
            BY <1>a DEF Uses
      <2> HIDE DEF q
      <2>3. thread' \in [Threads -> Uses]
            BY <1>a, <2>1, <2>2, NothingIsListed
      <2>4. \A n \in TemplateNames, v \in Versions : manual'[n][v] # None => templates'[n][v] # None
            BY <2>1 DEF TemplatesInv, Regained
      <2>5. QED
            BY <1>a, <2>1, <2>3, <2>4, LockFree
<1>9. ASSUME Instantiating!EnsureLoaded(t) PROVE TemplatesInv'
      <2> DEFINE q == [thread[t] EXCEPT !.pc = "found"]
      <2>1. UNCHANGED <<manual, loaders, dirs>> /\ thread[t].pc = "get"
            BY <1>9 DEF Instantiating!EnsureLoaded
      <2>2. CASE Instantiating!Load(t, "loading")
            BY <2>1, <2>2, LoadKeeps
      <2>3. CASE thread' = [thread EXCEPT ![t] = q] /\ UNCHANGED <<templates, lock>>
            <3>1. q \in Uses /\ loaders' \subseteq Loaders
                  BY <1>a, <2>1 DEF Uses
            <3> HIDE DEF q
            <3>2. QED
                  BY <2>1, <2>3, <3>1, ThreadOnly
      <2>4. QED
            BY <1>9, <1>a, <2>2, <2>3 DEF Instantiating!EnsureLoaded, Instantiating!Step
<1>10. ASSUME NEW valid \in BOOLEAN, Instantiating!Instantiate(t, valid) PROVE TemplatesInv'
      <2> DEFINE q == [thread[t] EXCEPT !.pc = "render"]
      <2>1. /\ thread' = [thread EXCEPT ![t] = Instantiating!NoUse] \/ thread' = [thread EXCEPT ![t] = q]
            /\ UNCHANGED <<templates, manual, dirs, loaders, lock>> /\ thread[t].pc = "found"
            BY <1>10, <1>a DEF Instantiating!Instantiate, Instantiating!Return, Instantiating!Step
      <2>2. q \in Uses
            BY <1>a DEF Uses
      <2> HIDE DEF q
      <2>3. QED
            BY <1>a, <2>1, <2>2, ThreadOnly, NothingIsListed
<1>11. ASSUME Instantiating!Render(t) PROVE TemplatesInv'
      <2>1. /\ thread' = [thread EXCEPT ![t] = Instantiating!NoUse] /\ thread[t].pc = "render"
            /\ UNCHANGED <<templates, manual, dirs, loaders, lock>>
            BY <1>11 DEF Instantiating!Render, Instantiating!Return
      <2>2. QED
            BY <1>a, <2>1, ThreadOnly, NothingIsListed
<1>12. ASSUME Instantiating!Cleanup(t) PROVE TemplatesInv'
      <2>1. UNCHANGED <<templates, manual, dirs, loaders, lock, thread>> /\ thread[t].pc = "idle"
            BY <1>12 DEF Instantiating!Cleanup
      <2>2. QED
            BY <1>a, <1>b, <2>1, ThreadOnly
<1>13. ASSUME Instantiating!ClearRegistry(t) PROVE TemplatesInv'
      <2>1. /\ templates' = Instantiating!Nothing /\ manual' = Instantiating!Nothing
            /\ lock = None /\ UNCHANGED <<dirs, loaders, lock, thread>>
            BY <1>13 DEF Instantiating!ClearRegistry
      <2>2. QED
            BY <1>a, <2>1, NothingIsListed, LockFree
<1>14. QED
      BY <1>0, <1>1, <1>2, <1>3, <1>4, <1>5, <1>6, <1>7, <1>8, <1>9, <1>10, <1>11, <1>12, <1>13, Zenon

(* It says what is promised.                                               *)
LEMMA TemplatesKept == TemplatesInv => Instantiating!LatestIsHighest /\ Instantiating!ManualRemains
BY DEF TemplatesInv, Topped, Regained, Instantiating!LatestIsHighest, Instantiating!ManualRemains, Instantiating!Versions, Versions

(* Steps of other parts keep it.                                           *)
LEMMA TemplatesStays == ASSUME TemplatesInv, UNCHANGED templateVars PROVE TemplatesInv'
BY DEF TemplatesInv, templateVars, Own, Topped, Regained

-----------------------------------------------------------------------------
(* RemoteFiles: backups and the crontab.                                   *)
Lines == Entries \union {None}
Texts == Contents \union {Mangled, Binary}

(* A write under way carries a content; unless the history of exposures    *)
(* says otherwise, at most one write is past its backup, which has what    *)
(* the file had when it was last whole.                                    *)
Held == Contents \union {Mangled}
WritesInv ==
    /\ \A t \in Tools : tool[t].pc \in {"backup", "stamp", "truncate", "write"} => tool[t].content \in Held
    /\ file # Torn => file = last
    /\ file = None => bak = None
    /\ exposed = {} =>
          /\ file = Torn => bak = last
          /\ \A t \in Tools : tool[t].pc \in {"truncate", "write"} => bak = last
          /\ \A t, u \in Tools : tool[t].pc \in {"truncate", "write"}
                                 /\ tool[u].pc \in {"truncate", "write"} => t = u

(* Unless the history says otherwise, a call that is to install a crontab  *)
(* has read all that is wanted, and is the only one about to change it.    *)
CrontabInv ==
    missed = {} =>
        /\ wanted \subseteq crontab
        /\ \A t \in Tools : tool[t].pc = "install" =>
              /\ wanted \subseteq tool[t].read
              /\ \A u \in Tools \ {t} : tool[u].pc \notin {"install", "remove"}

CallPC == {"idle", "backup", "truncate", "write", "chmod", "source", "stamp", "list", "install", "find", "remove"}
Call == [pc : CallPC, content : Texts \union {None}, backup : BOOLEAN,
         entry : Lines, read : SUBSET Lines]
FilesInv ==
    /\ tool \in [Tools -> Call]
    /\ crontab \subseteq Lines /\ source \in Contents \union {Binary}
    /\ WritesInv /\ CrontabInv

USE ContentAssumption

(* No call is under way.                                                   *)
LEMMA NoCallType == Editing!NoCall \in Call /\ Editing!NoCall.pc = "idle"
BY DEF Call, CallPC, Lines, Editing!NoCall

(* The invariant holds at the start.                                       *)
LEMMA FilesStart == Editing!FilesInit => FilesInv
<1> SUFFICES ASSUME Editing!FilesInit PROVE FilesInv
    OBVIOUS
<1>1. tool \in [Tools -> Call] /\ \A t \in Tools : tool[t].pc = "idle"
      BY NoCallType DEF Editing!FilesInit
<1>2. WritesInv
      BY <1>1 DEF Editing!FilesInit, WritesInv
<1>3. QED
      BY <1>1, <1>2 DEF Editing!FilesInit, FilesInv, CrontabInv, Lines

(* What every operation changes of the calls is the call itself, which     *)
(* keeps its shape.                                                        *)
LEMMA FilesMove ==
    ASSUME tool \in [Tools -> Call], NEW t \in Tools, NEW q \in Call, tool' = [tool EXCEPT ![t] = q]
    PROVE  /\ tool' \in [Tools -> Call]
           /\ tool'[t] = q
           /\ \A u \in Tools \ {t} : tool'[u] = tool[u]
OBVIOUS

(* A call goes on to its next command.                                     *)
LEMMA FilesGoto ==
    ASSUME tool \in [Tools -> Call], NEW t \in Tools, NEW pc \in CallPC, Editing!Goto(t, pc)
    PROVE  \E q \in Call : /\ tool' = [tool EXCEPT ![t] = q]
                           /\ q.pc = pc /\ q.content = tool[t].content /\ q.read = tool[t].read
<1> DEFINE q == [tool[t] EXCEPT !.pc = pc]
<1>1. q \in Call /\ q.pc = pc /\ q.content = tool[t].content /\ q.read = tool[t].read
      BY DEF Call, CallPC, Lines
<1>2. tool' = [tool EXCEPT ![t] = q]
      BY DEF Editing!Goto
<1>3. QED
      BY <1>1, <1>2

(* A call is over.                                                         *)
LEMMA FilesReturn ==
    ASSUME tool \in [Tools -> Call], NEW t \in Tools, Editing!Return(t)
    PROVE  \E q \in Call : tool' = [tool EXCEPT ![t] = q] /\ q.pc = "idle"
BY NoCallType DEF Editing!Return

(* Every step keeps it.                                                    *)
LEMMA FilesStep == ASSUME FilesInv, Editing!FilesNext PROVE FilesInv'
<1> PICK t \in Tools : \/ Editing!ToolStep(t)
                       \/ \E c \in Contents, backup \in BOOLEAN : Editing!WriteFile(t, c, backup)
                       \/ Editing!SyncFile(t)
                       \/ \E e \in Entries : Editing!AddCron(t, e) \/ Editing!RemoveCron(t, e)
    BY DEF Editing!FilesNext
<1>0. tool \in [Tools -> Call] /\ tool[t] \in Call
      BY DEF FilesInv
<1> USE <1>0 DEF FilesInv, WritesInv, CrontabInv, Held
<1>1. ASSUME NEW c \in Contents, NEW backup \in BOOLEAN, Editing!WriteFile(t, c, backup)
      PROVE  FilesInv'
      <2> DEFINE q == [Editing!NoCall EXCEPT !.pc = IF backup THEN "backup" ELSE "truncate",
                                             !.content = c, !.backup = backup]
      <2>1. q \in Call /\ q.pc = (IF backup THEN "backup" ELSE "truncate") /\ q.content = c
            BY DEF Call, CallPC, Lines, Editing!NoCall, Texts
      <2>2. tool' = [tool EXCEPT ![t] = q]
            BY <1>1 DEF Editing!WriteFile
      <2>3. /\ exposed' = {} => exposed = {} /\ q.pc = "backup"
            /\ UNCHANGED <<file, bak, last, source, crontab, missed, wanted>>
            BY <1>1, <2>1 DEF Editing!WriteFile
      <2>4. WritesInv' /\ CrontabInv'
            <3> HIDE DEF q
            <3>1. WritesInv'
                  BY <2>1, <2>2, <2>3, FilesMove
            <3>2. CrontabInv'
                  BY <2>1, <2>2, <2>3, FilesMove
            <3>3. QED
                  BY <3>1, <3>2
      <2>5. QED
            BY <2>1, <2>2, <2>3, <2>4, FilesMove
<1>2. ASSUME NEW q \in Call, tool' = [tool EXCEPT ![t] = q], q.pc \in {"source", "list", "find", "chmod", "idle"},
             UNCHANGED <<file, bak, last, source, crontab, exposed, missed, wanted>>
      PROVE  FilesInv'
      <2>1. WritesInv'
            BY <1>2, FilesMove
      <2>2. CrontabInv'
            BY <1>2, FilesMove
      <2>3. QED
            BY <1>2, <2>1, <2>2, FilesMove
<1>3. ASSUME NEW e \in Lines, Editing!SyncFile(t) \/ Editing!AddCron(t, e) \/ Editing!RemoveCron(t, e)
      PROVE  FilesInv'
      <2> DEFINE sync == [Editing!NoCall EXCEPT !.pc = "source", !.backup = TRUE]
                 add == [Editing!NoCall EXCEPT !.pc = "list", !.entry = e]
                 remove == [Editing!NoCall EXCEPT !.pc = "find", !.entry = e]
      <2>1. /\ sync \in Call /\ sync.pc = "source" /\ add \in Call /\ add.pc = "list"
            /\ remove \in Call /\ remove.pc = "find"
            BY DEF Call, CallPC, Lines, Editing!NoCall
      <2>2. \E q \in {sync, add, remove} : tool' = [tool EXCEPT ![t] = q]
            BY <1>3 DEF Editing!SyncFile, Editing!AddCron, Editing!RemoveCron
      <2>3. UNCHANGED <<file, bak, last, source, crontab, exposed, missed, wanted>>
            BY <1>3 DEF Editing!SyncFile, Editing!AddCron, Editing!RemoveCron
      <2> HIDE DEF sync, add, remove
      <2>4. QED
            BY <1>2, <2>1, <2>2, <2>3
<1>4. ASSUME NEW ok \in BOOLEAN, Editing!Backup(t, ok) PROVE FilesInv'
      <2>1. exposed' = {} => /\ exposed = {} /\ file # Torn /\ (file # None => bak' = file)
                             /\ (file = None => bak' = bak)
                             /\ \A u \in Tools \ {t} : tool[u].pc \notin {"backup", "truncate", "write"}
            BY <1>4 DEF Editing!Backup, Editing!Busy
      <2>2. PICK q \in Call : /\ tool' = [tool EXCEPT ![t] = q]
                             /\ q.pc = "truncate" /\ q.content = tool[t].content
            <3>1. Editing!Goto(t, "truncate")
                  BY <1>4 DEF Editing!Backup
            <3>2. QED
                  BY <3>1, FilesGoto DEF CallPC
      <2>3. /\ tool[t].pc = "backup" /\ UNCHANGED <<file, last, source, crontab, missed, wanted>>
            /\ file = None => bak' = bak
            BY <1>4 DEF Editing!Backup
      <2>4. WritesInv'
            BY <2>1, <2>2, <2>3, FilesMove
      <2>5. CrontabInv'
            BY <2>2, <2>3, FilesMove
      <2>6. QED
            BY <2>2, <2>3, <2>4, <2>5, FilesMove
<1>5. ASSUME NEW ok \in BOOLEAN, Editing!Write(t, ok) PROVE FilesInv'
      <2>1. /\ tool[t].pc = "write" /\ UNCHANGED <<bak, source, crontab, exposed, missed, wanted>>
            BY <1>5 DEF Editing!Write
      <2>2. CASE ok
            <3>1. PICK q \in Call : tool' = [tool EXCEPT ![t] = q] /\ q.pc = "chmod"
                  BY <1>5, <2>2, FilesGoto DEF CallPC, Editing!Write
            <3>2. file' = tool[t].content /\ last' = file'
                  BY <1>5, <2>2 DEF Editing!Write
            <3>3. WritesInv'
                  BY <2>1, <3>1, <3>2, FilesMove
            <3>4. CrontabInv'
                  BY <2>1, <3>1, FilesMove
            <3>5. QED
                  BY <2>1, <3>1, <3>3, <3>4, FilesMove
      <2>3. CASE ~ok
            BY <1>2, <1>5, <2>1, <2>3, FilesReturn DEF Editing!Write
      <2>4. QED
            BY <2>2, <2>3
<1>6. ASSUME NEW ok \in BOOLEAN, Editing!Stamp(t, ok) PROVE FilesInv'
      <2>1. PICK q \in Call : /\ tool' = [tool EXCEPT ![t] = q]
                             /\ q.pc = "backup" /\ q.content = tool[t].content
            BY <1>6, FilesGoto DEF CallPC, Editing!Stamp
      <2>2. tool[t].pc = "stamp" /\ UNCHANGED <<file, bak, last, source, crontab, exposed, missed, wanted>>
            BY <1>6 DEF Editing!Stamp
      <2>3. WritesInv'
            BY <2>1, <2>2, FilesMove
      <2>4. CrontabInv'
            BY <2>1, <2>2, FilesMove
      <2>5. QED
            BY <2>1, <2>2, <2>3, <2>4, FilesMove
<1>7. ASSUME NEW ok \in BOOLEAN, Editing!List(t, ok) PROVE FilesInv'
      <2> DEFINE q == [tool[t] EXCEPT !.pc = "install", !.read = IF ok THEN crontab ELSE {}]
      <2>1. q \in Call /\ q.pc = "install" /\ q.read = (IF ok THEN crontab ELSE {})
            BY DEF Call, CallPC, Lines
      <2>2. tool' = [tool EXCEPT ![t] = q]
            BY <1>7 DEF Editing!List
      <2>3. missed' = {} => ok /\ missed = {} /\ \A u \in Tools \ {t} : tool[u].pc \notin {"install", "remove"}
            BY <1>7 DEF Editing!List, Editing!Busy
      <2>4. UNCHANGED <<file, bak, last, source, crontab, exposed, wanted>>
            BY <1>7 DEF Editing!List
      <2> HIDE DEF q
      <2>5. WritesInv'
            BY <2>1, <2>2, <2>4, FilesMove
      <2>6. CrontabInv'
            BY <2>1, <2>2, <2>3, <2>4, FilesMove
      <2>7. QED
            BY <2>1, <2>2, <2>4, <2>5, <2>6, FilesMove
<1>8. ASSUME NEW ok \in BOOLEAN, Editing!Install(t, ok) PROVE FilesInv'
      <2>1. PICK q \in Call : tool' = [tool EXCEPT ![t] = q] /\ q.pc = "idle"
            BY <1>8, FilesReturn DEF Editing!Install
      <2>2. tool[t].pc = "install" /\ UNCHANGED <<file, bak, last, source, exposed, missed>>
            BY <1>8 DEF Editing!Install
      <2>3. \/ UNCHANGED <<crontab, wanted>>
            \/ /\ crontab' = tool[t].read \union {tool[t].entry}
               /\ wanted' = wanted \union {tool[t].entry}
            BY <1>8 DEF Editing!Install
      <2>4. WritesInv'
            BY <2>1, <2>2, FilesMove
      <2>5. CrontabInv'
            BY <2>1, <2>2, <2>3, FilesMove
      <2>6. tool[t].read \union {tool[t].entry} \subseteq Lines
            BY DEF Call, Lines
      <2>7. QED
            BY <2>1, <2>2, <2>3, <2>4, <2>5, <2>6, FilesMove
<1>9. ASSUME NEW dry \in BOOLEAN, Editing!Find(t, dry) PROVE FilesInv'
      <2>1. UNCHANGED <<file, bak, last, source, crontab, exposed, wanted>>
            BY <1>9 DEF Editing!Find
      <2>2. CASE Editing!Return(t)
            <3>1. tool'[t].pc # "remove"
                  BY <2>2, FilesReturn, FilesMove
            <3>2. QED
                  BY <1>2, <1>9, <2>1, <2>2, <3>1, FilesReturn DEF Editing!Find
      <2>3. CASE Editing!Goto(t, "remove")
            <3>1. PICK q \in Call : tool' = [tool EXCEPT ![t] = q] /\ q.pc = "remove"
                  BY <2>3, FilesGoto DEF CallPC
            <3>2. tool'[t].pc = "remove"
                  BY <3>1, FilesMove
            <3>3. missed' = {} => missed = {} /\ \A u \in Tools \ {t} : tool[u].pc # "install"
                  BY <1>9, <3>2 DEF Editing!Find, Editing!Busy
            <3>4. WritesInv'
                  BY <2>1, <3>1, FilesMove
            <3>5. CrontabInv'
                  BY <2>1, <3>1, <3>3, FilesMove
            <3>6. QED
                  BY <2>1, <3>1, <3>4, <3>5, FilesMove
      <2>4. QED
            BY <1>9, <2>2, <2>3 DEF Editing!Find
<1>10. ASSUME NEW all \in BOOLEAN, Editing!Remove(t, all) PROVE FilesInv'
      <2>1. PICK q \in Call : tool' = [tool EXCEPT ![t] = q] /\ q.pc = "idle"
            BY <1>10, FilesReturn DEF Editing!Remove
      <2>2. /\ tool[t].pc = "remove" /\ UNCHANGED <<file, bak, last, source, exposed>>
            /\ crontab' \subseteq crontab
            /\ wanted' = wanted \ {tool[t].entry}
            BY <1>10 DEF Editing!Remove
      <2>3. missed' = {} => crontab' = crontab \ {tool[t].entry} /\ missed = {}
            BY <1>10 DEF Editing!Remove
      <2>4. WritesInv'
            BY <2>1, <2>2, FilesMove
      <2>5. CrontabInv'
            BY <2>1, <2>2, <2>3, FilesMove
      <2>6. QED
            BY <2>1, <2>2, <2>4, <2>5, FilesMove
<1>11. ASSUME Editing!Unreachable(t) \/ Editing!Chmod(t) PROVE FilesInv'
      BY <1>2, <1>11, FilesReturn DEF Editing!Unreachable, Editing!Chmod
<1>12. ASSUME Editing!Truncate(t) PROVE FilesInv'
      <2>1. PICK q \in Call : /\ tool' = [tool EXCEPT ![t] = q]
                             /\ q.pc = "write" /\ q.content = tool[t].content
            BY <1>12, FilesGoto DEF CallPC, Editing!Truncate
      <2>2. /\ tool[t].pc = "truncate" /\ file' = Torn
            /\ UNCHANGED <<bak, last, source, crontab, exposed, missed, wanted>>
            BY <1>12 DEF Editing!Truncate
      <2>3. WritesInv'
            BY <2>1, <2>2, FilesMove
      <2>4. CrontabInv'
            BY <2>1, <2>2, FilesMove
      <2>5. QED
            BY <2>1, <2>2, <2>3, <2>4, FilesMove
<1>13. ASSUME Editing!Compare(t) PROVE FilesInv'
      <2> DEFINE q == [tool[t] EXCEPT !.content = Editing!Decoded(source),
                                      !.pc = IF file = None THEN "backup" ELSE "stamp"]
      <2>1. Editing!Decoded(source) \in Held /\ Editing!Decoded(source) \in Texts
            BY DEF Editing!Decoded, Texts
      <2>2. q \in Call /\ q.pc \in {"backup", "stamp"} /\ q.content \in Held
            BY <2>1 DEF Call, CallPC, Lines, Texts
      <2>3. UNCHANGED <<file, bak, last, source, crontab, exposed, missed, wanted>>
            BY <1>13 DEF Editing!Compare
      <2>4. CASE source = file
            <3>1. tool' = [tool EXCEPT ![t] = Editing!NoCall]
                  BY <1>13, <2>4 DEF Editing!Compare
            <3>2. QED
                  BY <1>2, <2>3, <3>1, NoCallType
      <2>5. CASE source # file
            <3>1. tool' = [tool EXCEPT ![t] = q]
                  BY <1>13, <2>5 DEF Editing!Compare
            <3> HIDE DEF q
            <3>2. WritesInv'
                  BY <2>2, <2>3, <3>1, FilesMove
            <3>3. CrontabInv'
                  BY <2>2, <2>3, <3>1, FilesMove
            <3>4. QED
                  BY <2>2, <2>3, <3>1, <3>2, <3>3, FilesMove
      <2>6. QED
            BY <2>4, <2>5
<1>14. None \in Lines /\ Entries \subseteq Lines
      BY DEF Lines
<1> QED
    BY Zenon, <1>14, <1>1, <1>3, <1>4, <1>5, <1>6, <1>7, <1>8, <1>9, <1>10, <1>11, <1>12, <1>13
    DEF Editing!ToolStep

HIDE ContentAssumption

(* It says what is promised.                                               *)
LEMMA FilesKept == FilesInv => Editing!CopyRemains /\ Editing!EntriesKept
BY DEF FilesInv, WritesInv, CrontabInv, Editing!CopyRemains, Editing!EntriesKept

(* Steps of other parts keep it.                                           *)
LEMMA FilesStays == ASSUME FilesInv, UNCHANGED filesVars PROVE FilesInv'
BY DEF FilesInv, filesVars, WritesInv, CrontabInv

-----------------------------------------------------------------------------
(* ResourceState: what a rollback leads to.                                *)
Statuses == {"pending", "updating", "active", "deleted", "failed"}
Rows == [status : Statuses, expected : Configs, actual : Configs \union {None},
         previous : Configs \union {None}, error : BOOLEAN]
Knowledge == [config : Configs \union {None}, begun : BOOLEAN, probed : BOOLEAN]

RequestOps == {None, "updating", "active", "deleted", "failed", "error", "drift", "snapshot", "restore"}
Requests == [op : RequestOps, pc : {"idle", "save", "store", "read"}, on : SUBSET Resources,
             arg : Configs \union {None}, rows : [Resources -> Rows \union {None}]]

(* Of a resource on which no two calls worked at the same time: the call   *)
(* that is about to write its row holds the one that the table has, and    *)
(* what the row says of the configuration is what is known of it.          *)
RowInv(r) ==
    /\ \A c \in Clients : r \in request[c].on =>
          /\ request[c].rows[r] \in {None, table[r]}
          /\ \A d \in Clients \ {c} : r \notin request[d].on
    /\ table[r] # None /\ ~good[r].probed =>
          /\ table[r].actual = good[r].config
          /\ good[r].begun => table[r].previous = good[r].config

StateInv ==
    /\ table \in [Resources -> Rows \union {None}]
    /\ request \in [Clients -> Requests]
    /\ good \in [Resources -> Knowledge]
    /\ snapshot = None \/ snapshot \subseteq Resources
    /\ \A c \in Clients : /\ request[c].pc = "idle" => request[c].on = {}
                          /\ request[c].pc = "save" => \A r \in request[c].on : request[c].rows[r] # None
    /\ \A r \in Resources \ contested : RowInv(r)

(* A row is there or not.                                                  *)
LEMMA RowsApart == None \notin Rows
BY RowAssumption DEF Rows, Statuses

USE RowsApart

(* No request is under way.                                                *)
LEMMA NoRequestType == /\ Tracking!NoRequest \in Requests /\ Tracking!NoRequest.pc = "idle"
                       /\ Tracking!NoRequest.on = {}
BY DEF Tracking!NoRequest, Requests, RequestOps

(* Nothing is known of a resource.                                         *)
LEMMA KnowledgeType ==
    /\ Tracking!Unknown \in Knowledge /\ ~Tracking!Unknown.begun
    /\ Tracking!Unknown.config = None /\ ~Tracking!Unknown.probed
BY DEF Tracking!Unknown, Knowledge

(* The invariant holds at the start.                                       *)
LEMMA StateStart == Tracking!StateInit => StateInv
<1> SUFFICES ASSUME Tracking!StateInit PROVE StateInv
    OBVIOUS
<1>1. /\ request \in [Clients -> Requests] /\ good \in [Resources -> Knowledge]
      /\ \A c \in Clients : request[c].pc = "idle" /\ request[c].on = {}
      BY NoRequestType, KnowledgeType DEF Tracking!StateInit
<1>2. \A r \in Resources : RowInv(r)
      BY <1>1 DEF Tracking!StateInit, RowInv
<1>3. /\ table \in [Resources -> Rows \union {None}] /\ snapshot = None
      BY DEF Tracking!StateInit
<1>4. QED
      BY <1>1, <1>2, <1>3 DEF StateInv

(* What a write makes of the row that the call holds and of what is known. *)
LEMMA Applying ==
    ASSUME NEW op \in RequestOps, NEW arg \in Configs \union {None}, NEW row \in Rows
    PROVE  LET new == Tracking!Applied(op, arg, row) IN
           /\ new \in Rows
           /\ op \notin {"active", "drift"} => new.actual = row.actual
           /\ op = "active" => new.actual = arg
           /\ op # "updating" => new.previous = row.previous
           /\ op = "updating" => new.previous = row.actual
<1> DEFINE new == Tracking!Applied(op, arg, row)
<1>1. CASE op = "updating"
      <2>1. new = [row EXCEPT !.status = "updating", !.previous = row.actual]
            BY <1>1 DEF Tracking!Applied
      <2>2. QED
            BY <1>1, <2>1 DEF Rows, Statuses
<1>2. CASE op = "active"
      <2>1. new = [row EXCEPT !.status = "active", !.actual = arg]
            BY <1>2 DEF Tracking!Applied
      <2>2. QED
            BY <1>2, <2>1 DEF Rows, Statuses
<1>3. CASE op = "deleted"
      <2>1. new = [row EXCEPT !.status = "deleted"]
            BY <1>3 DEF Tracking!Applied
      <2>2. QED
            BY <1>3, <2>1 DEF Rows, Statuses
<1>4. CASE op = "failed"
      <2>1. new = [row EXCEPT !.status = "failed"]
            BY <1>4 DEF Tracking!Applied
      <2>2. QED
            BY <1>4, <2>1 DEF Rows, Statuses
<1>5. CASE op = "error"
      <2>1. new = [row EXCEPT !.error = TRUE]
            BY <1>5 DEF Tracking!Applied
      <2>2. QED
            BY <1>5, <2>1 DEF Rows, Statuses
<1>6. CASE op = "drift"
      <2>1. new = [row EXCEPT !.actual = arg]
            BY <1>6 DEF Tracking!Applied
      <2>2. QED
            BY <1>6, <2>1 DEF Rows, Statuses
<1>7. CASE op \notin {"updating", "active", "deleted", "failed", "error", "drift"}
      BY <1>7 DEF Tracking!Applied
<1>8. QED
      BY <1>1, <1>2, <1>3, <1>4, <1>5, <1>6, <1>7

(* What is known of a resource after a request.                            *)
LEMMA Knowing ==
    ASSUME NEW op \in RequestOps, NEW arg \in Configs \union {None}, NEW known \in Knowledge
    PROVE  LET new == Tracking!Known(op, arg, known) IN
           /\ new \in Knowledge
           /\ op = "drift" => new.probed
           /\ op = "active" => new.config = arg /\ ~new.begun /\ ~new.probed
           /\ op # "active" => new.config = known.config
           /\ op \notin {"active", "drift"} => new.probed = known.probed
           /\ op \notin {"active", "updating"} => new.begun = known.begun
<1> DEFINE new == Tracking!Known(op, arg, known)
<1>1. CASE op = "updating"
      <2>1. new = [known EXCEPT !.begun = TRUE]
            BY <1>1 DEF Tracking!Known
      <2>2. QED
            BY <1>1, <2>1 DEF Knowledge
<1>2. CASE op = "active"
      <2>1. new = [Tracking!Unknown EXCEPT !.config = arg]
            BY <1>2 DEF Tracking!Known
      <2>2. QED
            BY <1>2, <2>1 DEF Knowledge, Tracking!Unknown
<1>3. CASE op = "drift"
      <2>1. new = [known EXCEPT !.probed = TRUE]
            BY <1>3 DEF Tracking!Known
      <2>2. QED
            BY <1>3, <2>1 DEF Knowledge
<1>4. CASE op \notin {"updating", "active", "drift"}
      BY <1>4 DEF Tracking!Known
<1>5. QED
      BY <1>1, <1>2, <1>3, <1>4

(* A call that writes at once, or forgets, the rows of the resources it is *)
(* for: no other holds one of them, unless they are contested from now on. *)
LEMMA WrittenAtOnce ==
    ASSUME StateInv, NEW c \in Clients, NEW op, NEW on \in SUBSET Resources, NEW arg, Tracking!Call(c, op, on, arg),
           table' \in [Resources -> Rows \union {None}], good' \in [Resources -> Knowledge],
           snapshot' = None \/ snapshot' \subseteq Resources, request' = request,
           \A r \in Resources \ on : table'[r] = table[r] /\ good'[r] = good[r],
           \A r \in on : /\ good'[r] = Tracking!Unknown
                         /\ table'[r] # None => table'[r].actual = None
    PROVE  StateInv'
<1>1. ASSUME NEW r \in Resources \ contested' PROVE RowInv(r)'
      <2>1. r \in Resources \ contested /\ (r \in on => \A d \in Clients \ {c} : r \notin request[d].on)
            BY <1>1 DEF Tracking!Call, Tracking!Others
      <2>2. request[c].on = {}
            BY DEF StateInv, Tracking!Call
      <2>3. CASE r \in on
            BY <2>1, <2>2, <2>3, KnowledgeType DEF RowInv
      <2>4. CASE r \notin on
            BY <2>1, <2>4 DEF RowInv, StateInv
      <2>5. QED
            BY <2>3, <2>4
<1>2. QED
      BY <1>1 DEF StateInv

(* A call that takes resources on.                                         *)
LEMMA TakenOn ==
    ASSUME StateInv, NEW c \in Clients, NEW op, NEW on \in SUBSET Resources, NEW arg, Tracking!Call(c, op, on, arg),
           UNCHANGED <<table, good, snapshot>>,
           NEW q \in Requests, request' = [request EXCEPT ![c] = q], q.on \subseteq on,
           q.pc # "idle",
           \A r \in q.on : IF q.pc = "save" THEN q.rows[r] = table[r] /\ table[r] # None ELSE q.rows[r] = None
    PROVE  StateInv'
<1>1. ASSUME NEW r \in Resources \ contested' PROVE RowInv(r)'
      <2>1. r \in Resources \ contested /\ (r \in on => \A d \in Clients \ {c} : r \notin request[d].on)
            BY <1>1 DEF Tracking!Call, Tracking!Others
      <2>2. /\ request'[c] = q
            /\ \A d \in Clients \ {c} : request'[d] = request[d]
            BY DEF StateInv
      <2>3. QED
            BY <2>1, <2>2 DEF RowInv, StateInv
<1>2. QED
      BY <1>1 DEF StateInv

(* Every step keeps it.                                                    *)
LEMMA StateStep == ASSUME StateInv, Tracking!StateNext PROVE StateInv'
<1> PICK c \in Clients :
       \/ \E r \in Resources :
             \/ \E g \in Configs : Tracking!Track(c, r, g) \/ Tracking!Ask(c, "active", r, g) \/ Tracking!Ask(c, "drift", r, g)
             \/ \E op \in Tracking!ReadFirst \ {"active", "drift"} : Tracking!Ask(c, op, r, None)
             \/ Tracking!Untrack(c, r) \/ Tracking!Save(c, r) \/ Tracking!ReadRow(c, r)
       \/ Tracking!TakeSnapshot(c) \/ Tracking!StoreSnapshot(c) \/ Tracking!Restore(c) \/ Tracking!ClearAll(c)
       \/ Tracking!Abandon(c)
    BY DEF Tracking!StateNext
<1>1. ASSUME NEW r \in Resources, NEW g \in Configs, Tracking!Track(c, r, g) PROVE StateInv'
      <2>1. Tracking!Tracked(g) \in Rows /\ Tracking!Tracked(g).actual = None
            BY DEF Tracking!Tracked, Rows, Statuses
      <2>2. /\ Tracking!Call(c, "track", {r}, g) /\ UNCHANGED <<snapshot, request>>
            /\ table' = [table EXCEPT ![r] = Tracking!Tracked(g)] /\ good' = [good EXCEPT ![r] = Tracking!Unknown]
            BY <1>1 DEF Tracking!Track
      <2>3. /\ table' \in [Resources -> Rows \union {None}] /\ good' \in [Resources -> Knowledge]
            /\ \A s \in Resources \ {r} : table'[s] = table[s] /\ good'[s] = good[s]
            /\ good'[r] = Tracking!Unknown /\ table'[r].actual = None
            BY <2>1, <2>2, KnowledgeType DEF StateInv
      <2>4. (snapshot' = None \/ snapshot' \subseteq Resources) /\ request' = request
            BY <2>2 DEF StateInv
      <2>5. QED
            BY <2>2, <2>3, <2>4, WrittenAtOnce
<1>2. ASSUME NEW r \in Resources, Tracking!Untrack(c, r) PROVE StateInv'
      <2>1. /\ Tracking!Call(c, "untrack", {r}, None) /\ UNCHANGED <<snapshot, request>>
            /\ table' = [table EXCEPT ![r] = None] /\ good' = [good EXCEPT ![r] = Tracking!Unknown]
            BY <1>2 DEF Tracking!Untrack
      <2>2. /\ table' \in [Resources -> Rows \union {None}] /\ good' \in [Resources -> Knowledge]
            /\ \A s \in Resources \ {r} : table'[s] = table[s] /\ good'[s] = good[s]
            /\ good'[r] = Tracking!Unknown /\ table'[r] = None
            BY <2>1, KnowledgeType DEF StateInv
      <2>3. (snapshot' = None \/ snapshot' \subseteq Resources) /\ request' = request
            BY <2>1 DEF StateInv
      <2>4. QED
            BY <2>1, <2>2, <2>3, WrittenAtOnce
<1>3. ASSUME Tracking!ClearAll(c) PROVE StateInv'
      <2>1. /\ Tracking!Call(c, "clear", Resources, None) /\ UNCHANGED request /\ snapshot' = None
            /\ table' = [r \in Resources |-> None] /\ good' = [r \in Resources |-> Tracking!Unknown]
            BY <1>3 DEF Tracking!ClearAll
      <2>2. /\ table' \in [Resources -> Rows \union {None}] /\ good' \in [Resources -> Knowledge]
            /\ \A s \in Resources : good'[s] = Tracking!Unknown /\ table'[s] = None
            BY <2>1, KnowledgeType
      <2>3. QED
            BY <2>1, <2>2, WrittenAtOnce
<1>4. ASSUME NEW r \in Resources, NEW op \in Tracking!ReadFirst, NEW arg \in Configs \union {None},
             Tracking!Ask(c, op, r, arg)
      PROVE  StateInv'
      <2> DEFINE q == [op |-> op, pc |-> "save", on |-> {r}, arg |-> arg,
                       rows |-> [Tracking!NoRequest.rows EXCEPT ![r] = table[r]]]
      <2>1. /\ Tracking!Call(c, op, {r}, arg) /\ UNCHANGED <<table, snapshot, good>>
            /\ request' = IF table[r] = None THEN request ELSE [request EXCEPT ![c] = q]
            BY <1>4 DEF Tracking!Ask
      <2>2. CASE table[r] = None
            <3>1. contested \subseteq contested' /\ request' = request
                  BY <2>1, <2>2 DEF Tracking!Call
            <3>2. QED
                  BY <2>1, <3>1, ZenonT(60) DEF StateInv, RowInv
      <2>3. CASE table[r] # None
            <3>1. q \in Requests /\ q.on = {r} /\ q.pc = "save" /\ q.rows[r] = table[r]
                  BY DEF Requests, RequestOps, Tracking!ReadFirst, Tracking!NoRequest, StateInv
            <3> HIDE DEF q
            <3>2. QED
                  BY <2>1, <2>3, <3>1, TakenOn
      <2>4. QED
            BY <2>2, <2>3
<1>5. ASSUME Tracking!TakeSnapshot(c) PROVE StateInv'
      <2> DEFINE q == [Tracking!NoRequest EXCEPT !.op = "snapshot", !.pc = "store", !.rows = table]
      <2>1. /\ Tracking!Call(c, "snapshot", {}, None) /\ UNCHANGED <<table, snapshot, good>>
            /\ request' = [request EXCEPT ![c] = q]
            BY <1>5 DEF Tracking!TakeSnapshot
      <2>2. q \in Requests /\ q.on = {} /\ q.pc = "store"
            BY DEF Requests, RequestOps, Tracking!NoRequest, StateInv
      <2> HIDE DEF q
      <2>3. QED
            BY <2>1, <2>2, TakenOn
<1>6. ASSUME Tracking!Restore(c) PROVE StateInv'
      <2> DEFINE q == [Tracking!NoRequest EXCEPT !.op = "restore", !.pc = "read", !.on = snapshot]
      <2>1. /\ Tracking!Call(c, "restore", snapshot, None) /\ UNCHANGED <<table, snapshot, good>>
            /\ request' = [request EXCEPT ![c] = q] /\ snapshot \notin {None, {}}
            BY <1>6 DEF Tracking!Restore
      <2>4. snapshot \in SUBSET Resources
            BY <2>1 DEF StateInv
      <2>2. q \in Requests /\ q.on = snapshot /\ q.pc = "read" /\ \A r \in Resources : q.rows[r] = None
            BY <2>4 DEF Requests, RequestOps, Tracking!NoRequest
      <2> HIDE DEF q
      <2>3. QED
            BY <2>1, <2>2, <2>4, TakenOn
<1>7. ASSUME NEW q \in Requests, request' = [request EXCEPT ![c] = q], q.on = {}, q.pc = "idle",
             UNCHANGED <<table, good, contested>>, snapshot' = None \/ snapshot' \subseteq Resources
      PROVE  StateInv'
      <2>1. /\ request' \in [Clients -> Requests] /\ request'[c] = q
            /\ \A d \in Clients \ {c} : request'[d] = request[d]
            BY <1>7 DEF StateInv
      <2>2. ASSUME NEW r \in Resources \ contested PROVE RowInv(r)'
            BY <1>7, <2>1 DEF StateInv, RowInv
      <2>3. QED
            BY <1>7, <2>1, <2>2 DEF StateInv
<1>8. ASSUME Tracking!StoreSnapshot(c) \/ Tracking!Abandon(c) PROVE StateInv'
      <2>1. /\ request' = [request EXCEPT ![c] = Tracking!NoRequest]
            /\ UNCHANGED <<table, good, contested>>
            BY <1>8 DEF Tracking!StoreSnapshot, Tracking!Abandon, Tracking!Return
      <2>2. snapshot' = None \/ snapshot' \subseteq Resources
            BY <1>8 DEF Tracking!StoreSnapshot, Tracking!Abandon, StateInv
      <2>3. QED
            BY <1>7, <2>1, <2>2, NoRequestType
<1>9. ASSUME NEW r \in Resources, Tracking!ReadRow(c, r) PROVE StateInv'
      <2> DEFINE read == [request[c] EXCEPT !.rows[r] = table[r]]
                 q == [read EXCEPT !.pc = IF \E s \in read.on : read.rows[s] = None THEN "read" ELSE "save"]
      <2>1. /\ request[c].pc = "read" /\ r \in request[c].on /\ request[c].rows[r] = None
            /\ UNCHANGED <<table, snapshot, good, contested>>
            BY <1>9 DEF Tracking!ReadRow
      <2>2. request[c] \in Requests /\ table[r] \in Rows \union {None}
            BY DEF StateInv
      <2>3. CASE table[r] = None
            BY <1>7, <1>9, <2>1, <2>3, NoRequestType DEF Tracking!ReadRow, Tracking!Return, StateInv
      <2>4. CASE table[r] # None
            <3>1. request' = [request EXCEPT ![c] = q]
                  BY <1>9, <2>4 DEF Tracking!ReadRow
            <3>2. /\ q \in Requests /\ q.on = request[c].on /\ q.pc \in {"read", "save"}
                  /\ \A s \in Resources : q.rows[s] = IF s = r THEN table[r] ELSE request[c].rows[s]
                  /\ q.pc = "save" => \A s \in q.on : q.rows[s] # None
                  BY <2>2 DEF Requests
            <3> HIDE DEF q
            <3>3. /\ request' \in [Clients -> Requests] /\ request'[c] = q
                  /\ \A d \in Clients \ {c} : request'[d] = request[d]
                  BY <3>1, <3>2 DEF StateInv
            <3>4. ASSUME NEW s \in Resources \ contested PROVE RowInv(s)'
                  BY <2>1, <3>2, <3>3 DEF StateInv, RowInv
            <3>5. QED
                  BY <2>1, <3>2, <3>3, <3>4 DEF StateInv
      <2>5. QED
            BY <2>3, <2>4, SMTT(30)
<1>10. ASSUME NEW r \in Resources, Tracking!Save(c, r) PROVE StateInv'
      <2> DEFINE p == request[c]
                 row == Tracking!Applied(p.op, p.arg, p.rows[r])
                 known == Tracking!Known(p.op, p.arg, good[r])
      <2>1. /\ p.pc = "save" /\ r \in p.on /\ UNCHANGED <<snapshot, contested>>
            /\ table' = [table EXCEPT ![r] = row] /\ good' = [good EXCEPT ![r] = known]
            BY <1>10 DEF Tracking!Save
      <2>2. /\ p \in Requests /\ p.op \in RequestOps /\ p.arg \in Configs \union {None}
            /\ p.rows[r] \in Rows /\ good[r] \in Knowledge
            BY <2>1 DEF StateInv, Requests
      <2>3. /\ row \in Rows /\ row # None
            /\ p.op \notin {"active", "drift"} => row.actual = p.rows[r].actual
            /\ p.op = "active" => row.actual = p.arg
            /\ p.op # "updating" => row.previous = p.rows[r].previous
            /\ p.op = "updating" => row.previous = p.rows[r].actual
            BY <2>2, Applying
      <2>4. /\ known \in Knowledge
            /\ p.op = "drift" => known.probed
            /\ p.op = "active" => known.config = p.arg /\ ~known.begun /\ ~known.probed
            /\ p.op # "active" => known.config = good[r].config
            /\ p.op \notin {"active", "drift"} => known.probed = good[r].probed
            /\ p.op \notin {"active", "updating"} => known.begun = good[r].begun
            BY <2>2, Knowing
      <2>5. PICK q \in Requests :
               /\ request' = [request EXCEPT ![c] = q]
               /\ q.pc \in {"idle", "save"} /\ q.on \subseteq p.on
               /\ q.pc = "idle" => q.on = {}
               /\ \A s \in q.on : q.rows[s] = IF s = r THEN row ELSE p.rows[s]
            <3>1. CASE p.op = "failed"
                  <4> DEFINE q == [p EXCEPT !.op = "error", !.rows[r] = row]
                  <4>1. /\ q \in Requests /\ q.pc = p.pc /\ q.on = p.on
                        /\ \A s \in Resources : q.rows[s] = IF s = r THEN row ELSE p.rows[s]
                        BY <2>2, <2>3 DEF Requests, RequestOps
                  <4>2. request' = [request EXCEPT ![c] = q]
                        BY <1>10, <3>1 DEF Tracking!Save
                  <4> HIDE DEF q
                  <4>3. \A s \in q.on : s \in Resources
                        BY <4>1, <2>2 DEF Requests
                  <4>4. QED
                        BY <2>1, <4>1, <4>2, <4>3
            <3>2. CASE p.op # "failed" /\ p.on = {r}
                  <4>1. request' = [request EXCEPT ![c] = Tracking!NoRequest]
                        BY <1>10, <3>2 DEF Tracking!Save
                  <4>2. QED
                        BY <4>1, NoRequestType
            <3>3. CASE p.op # "failed" /\ p.on # {r}
                  <4> DEFINE q == [p EXCEPT !.on = @ \ {r}]
                  <4>1. q \in Requests /\ q.pc = p.pc /\ q.on = p.on \ {r} /\ q.rows = p.rows
                        BY <2>2 DEF Requests
                  <4>2. request' = [request EXCEPT ![c] = q]
                        BY <1>10, <3>3 DEF Tracking!Save
                  <4> HIDE DEF q
                  <4>3. QED
                        BY <2>1, <4>1, <4>2
            <3>4. QED
                  BY <3>1, <3>2, <3>3
      <2> HIDE DEF row, known
      <2>6. /\ request' \in [Clients -> Requests] /\ request'[c] = q
            /\ \A d \in Clients \ {c} : request'[d] = request[d]
            /\ table' \in [Resources -> Rows \union {None}] /\ good' \in [Resources -> Knowledge]
            /\ table'[r] = row /\ good'[r] = known
            /\ \A s \in Resources \ {r} : table'[s] = table[s] /\ good'[s] = good[s]
            BY <2>1, <2>3, <2>4, <2>5 DEF StateInv
      <2>7. ASSUME NEW s \in Resources \ contested, s # r PROVE RowInv(s)'
            <3>1. RowInv(s)
                  BY <2>7 DEF StateInv
            <3>2. \A d \in Clients : s \in request'[d].on => s \in request[d].on /\ request'[d].rows[s] = request[d].rows[s]
                  BY <2>5, <2>6, <2>7
            <3>3. QED
                  BY <2>1, <2>6, <2>7, <3>1, <3>2 DEF RowInv
      <2>8. ASSUME r \notin contested PROVE RowInv(r)'
            <3>1. RowInv(r)
                  BY <2>8 DEF StateInv
            <3>2. p.rows[r] = table[r] /\ table[r] # None /\ \A d \in Clients \ {c} : r \notin request[d].on
                  BY <2>1, <2>2, <3>1 DEF RowInv
            <3>3. ~good'[r].probed => /\ table'[r].actual = good'[r].config
                                      /\ good'[r].begun => table'[r].previous = good'[r].config
                  BY <2>3, <2>4, <2>6, <3>1, <3>2 DEF RowInv
            <3>4. \A d \in Clients : r \in request'[d].on =>
                     /\ request'[d].rows[r] \in {None, table'[r]}
                     /\ \A e \in Clients \ {d} : r \notin request'[e].on
                  BY <2>5, <2>6, <3>2
            <3>5. QED
                  BY <3>3, <3>4 DEF RowInv
      <2>9. \A d \in Clients : /\ request'[d].pc = "idle" => request'[d].on = {}
                               /\ request'[d].pc = "save" => \A s \in request'[d].on : request'[d].rows[s] # None
            BY <2>1, <2>3, <2>5, <2>6 DEF StateInv
      <2>10. QED
            BY <2>1, <2>6, <2>7, <2>8, <2>9 DEF StateInv
<1>11. \A op \in Tracking!ReadFirst \ {"active", "drift"} : op \in Tracking!ReadFirst
      OBVIOUS
<1>12. "active" \in Tracking!ReadFirst /\ "drift" \in Tracking!ReadFirst
      BY DEF Tracking!ReadFirst
<1>13. QED
      BY Zenon, <1>1, <1>2, <1>3, <1>4, <1>5, <1>6, <1>8, <1>9, <1>10, <1>11, <1>12

(* It says what is promised.                                               *)
LEMMA StateKept == StateInv => Tracking!RollbackIsLastGood
BY DEF StateInv, RowInv, Tracking!RollbackIsLastGood

HIDE RowsApart

(* Steps of other parts keep it.                                           *)
LEMMA StateStays == ASSUME StateInv, UNCHANGED stateVars PROVE StateInv'
BY DEF StateInv, stateVars, RowInv

-----------------------------------------------------------------------------
(* The theorems.                                                           *)

(* What is asked goes to the address that is shown, with the provider's    *)
(* key, however /model, the wizard, saves and restarts follow each other,  *)
(* as long as the last configuration could be saved; and a task is taken   *)
(* for a change only when a model or most of its words say so.             *)
THEOREM AsksAsShown == Spec => []NothingUnexpected
<1> DEFINE Inv == /\ part \in Parts
                  /\ part = "provider" => ProviderInv
                  /\ part = "routing" => RoutingInv
<1>1. Init => Inv
      BY OneStart, ProviderStart, RoutingStart
<1>2. Inv /\ [Next]_vars => Inv'
      BY OnePart, ProviderStep, ProviderStays, RoutingStep, RoutingStays
<1>3. Inv => NothingUnexpected
      BY ProviderKept, RoutingKept DEF NothingUnexpected
<1>4. QED
      BY <1>1, <1>2, <1>3, PTL DEF Spec

(* A write cut short leaves what it replaces in the backup, the crontab    *)
(* keeps the entries of others, a secret that is listed can be read, and a *)
(* rollback leads to the last configuration that was active.               *)
THEOREM PutAwayIsKept == Spec => []KeptCanBeHad
<1> DEFINE Inv == /\ part \in Parts
                  /\ part = "files" => FilesInv
                  /\ part = "secrets" => SecretsInv
                  /\ part = "state" => StateInv
<1>1. Init => Inv
      BY OneStart, FilesStart, SecretsStart, StateStart
<1>2. Inv /\ [Next]_vars => Inv'
      BY OnePart, FilesStep, FilesStays, SecretsStep, SecretsStays, StateStep, StateStays
<1>3. Inv => KeptCanBeHad
      BY FilesKept, SecretsKept, StateKept DEF KeptCanBeHad
<1>4. QED
      BY <1>1, <1>2, <1>3, PTL DEF Spec

(* While no thread loads, the template without a version is the highest one*)
(* and those registered by hand are there; names of hosts differ by more   *)
(* than case, and the merge of the wizard keeps what the most trusted      *)
(* source says, whatever the sources say.                                  *)
THEOREM RegistriesKeepTheirWord == Spec => []RegistriesAgree
<1> DEFINE Inv == /\ part \in Parts
                  /\ part = "templates" => TemplatesInv
                  /\ part = "inventory" => InventoryInv
<1>1. Init => Inv
      BY OneStart, TemplatesStart, InventoryStart
<1>2. Inv /\ [Next]_vars => Inv'
      BY OnePart, TemplatesStep, TemplatesStays, InventoryStep, InventoryStays
<1>3. Inv => RegistriesAgree
      BY TemplatesKept, InventoryKept DEF RegistriesAgree
<1>4. QED
      BY <1>1, <1>2, <1>3, PTL DEF Spec

(* The issues and hosts that a scan counts are those of its checks, the two*)
(* false alarms (a protected OpenSSH key, a service that is not installed) *)
(* excepted, and a call gets the answer of the user to its own question.   *)
THEOREM ReportsAreTrue == Spec => []ReportedIsFound
<1> DEFINE Inv == /\ part \in Parts
                  /\ part = "scan" => ScanInv
                  /\ part = "questions" => QuestionsInv
<1>1. Init => Inv
      BY OneStart, ScanStart, QuestionsStart
<1>2. Inv /\ [Next]_vars => Inv'
      BY OnePart, ScanStep, ScanStays, QuestionsStep, QuestionsStays
<1>3. Inv => ReportedIsFound
      BY ScanKept, QuestionsKept DEF ReportedIsFound
<1>4. QED
      BY <1>1, <1>2, <1>3, PTL DEF Spec

(* What is typed for one thing is used for that thing: a passphrase is     *)
(* kept under the path of the key it opens, unless the callback of /ssh put*)
(* it there for a jump host; a tunnel does not outlive a connection that   *)
(* fails unless it is cancelled; and every reference in a command becomes  *)
(* what it stands for, wherever it is, in what is run and, masked, in what *)
(* is shown.                                                               *)
THEOREM EachUsedForItsOwn == Spec => []UsedForItsOwn
<1> DEFINE Inv == /\ part \in Parts
                  /\ part = "login" => LoginInv
                  /\ part = "references" => ReferencesInv
<1>1. Init => Inv
      BY OneStart, LoginStart, ReferencesStart
<1>2. Inv /\ [Next]_vars => Inv'
      BY OnePart, LoginStep, LoginStays, ReferencesStep, ReferencesStays
<1>3. Inv => UsedForItsOwn
      BY LoginKept, ReferencesKept DEF UsedForItsOwn
<1>4. QED
      BY <1>1, <1>2, <1>3, PTL DEF Spec
=============================================================================
