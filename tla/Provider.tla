------------------------------- MODULE Provider -------------------------------
(***************************************************************************)
(* Which model provider the requests go to: the configuration file, its    *)
(* copy in the process, the environment variables through which it reaches *)
(* the client library, the keys in the keyring, and the agent built from   *)
(* them.  A key is named by the provider that issued it, an address by the *)
(* one that answers there.                                                 *)
(***************************************************************************)
EXTENDS Naturals

CONSTANTS Emptied, None

VARIABLES file,      \* config.yaml: absent, emptied by a save cut short, or a configuration
          config,    \* the configuration of the running process
          env,       \* its environment
          keyring,   \* the providers whose keys are stored
          client,    \* what the agent's model was built with
          command,   \* the /model command under way
          entered    \* history: the providers this process has been configured for

providerVars == <<file, config, env, keyring, client, command, entered>>

Keyed == {"openai", "openrouter"}
Providers == Keyed \union {"ollama"}
Models == {"local", "cloud"}      \* whether the name of the model contains "cloud"
NoCommand == [pc |-> "idle", provider |-> None, model |-> None]
Default == [provider |-> "openrouter", model |-> "local", base |-> None]

(* _apply_env_overrides: MERLYA_PROVIDER of this run.                      *)
Overridden(c, override) == IF override = None THEN c ELSE [c EXCEPT !.provider = override]

(* load_config: an empty file is read as {} and gives the defaults.        *)
Loaded(override) == Overridden(IF file \in {None, Emptied} THEN Default ELSE file, override)

(* The environment the shell gives the process.                            *)
ShellEnv(keys, host) == [key |-> [p \in Keyed |-> IF p \in keys THEN p ELSE None],
                         openaiBase |-> None, ollamaBase |-> host]

(* load_api_keys_from_keyring, _set_api_key_from_keyring: a key that the   *)
(* environment has already stays.                                          *)
WithKey(e, p, stored) ==
    IF p \in Keyed /\ e.key[p] = None /\ p \in stored THEN [e EXCEPT !.key[p] = p] ELSE e

RequiresKey(c) == c.model = "cloud" \/ c.base \notin {None, "local"}

(* ensure_provider_env *)
OllamaBase(c, e) ==
    LET override == IF c.model = "cloud" /\ e.ollamaBase = "local" THEN None ELSE e.ollamaBase
        default == IF RequiresKey(c) THEN "cloud" ELSE "local" IN
    IF override # None THEN override ELSE IF c.base # None THEN c.base ELSE default

EnvFor(c, e, stored) ==
    CASE c.provider = "openrouter" ->
            [e EXCEPT !.openaiBase = "openrouter",
                      !.key["openai"] = IF @ # None THEN @
                                        ELSE IF e.key["openrouter"] # None THEN e.key["openrouter"]
                                        ELSE IF "openrouter" \in stored THEN "openrouter" ELSE None]
      [] c.provider = "ollama" ->
            [e EXCEPT !.ollamaBase = OllamaBase(c, e)]
      [] OTHER -> e

M_ConfigFor(c, e) == IF c.provider = "ollama" /\ e.ollamaBase = None THEN [c EXCEPT !.base = OllamaBase(c, e)]
                     ELSE c

ConfigFor(c, e) ==
    CASE c.provider = "openrouter" -> [c EXCEPT !.base = "openrouter"]
      [] c.provider = "ollama" -> [c EXCEPT !.base = OllamaBase(c, e)]
      [] OTHER -> c

(* Where the client library sends a request, and with which key.           *)
Client(prefix, e) ==
    [to |-> CASE prefix = "openai" -> IF e.openaiBase = None THEN "openai" ELSE e.openaiBase
              [] prefix = "ollama" -> e.ollamaBase
              [] OTHER -> prefix,
     key |-> IF prefix \in Keyed THEN e.key[prefix] ELSE None,
     fresh |-> TRUE]      \* history: no configuration has failed to be saved since

(* get_pydantic_model_string, which the specialists use.                   *)
SpecialistPrefix(p) == IF p = "groq" THEN "groq" ELSE "openai"
SpecialistClient == Client(SpecialistPrefix(config.provider), env)

(* MerlyaAgent.__init__ with the name "provider:model".                    *)
BuildAgent(c, e, stored) ==
    /\ config' = ConfigFor(c, e)
    /\ env' = EnvFor(c, e, stored)
    /\ client' = Client(c.provider, env')
    /\ entered' = entered \union {c.provider}

ProviderInit ==
    /\ file = None /\ config = None /\ client = None
    /\ env \in {ShellEnv(keys, host) : keys \in SUBSET Keyed, host \in {None, "local", "cloud"}}
    /\ keyring = {} /\ command = NoCommand /\ entered = {}

-----------------------------------------------------------------------------
(* run_repl after the first run, and bootstrap.                            *)
Start(override) ==
    /\ config = None /\ file # None
    /\ LET c == Loaded(override) IN BuildAgent(c, WithKey(env, c.provider, keyring), keyring)
    /\ UNCHANGED <<file, keyring, command>>

(* run_setup_wizard: the provider, its key from the environment, the       *)
(* keyring or the user; without one the defaults stay and nothing is saved.*)
Wizard(p, typed) ==
    /\ config = None /\ file = None
    /\ LET known == p \notin Keyed \/ env.key[p] # None \/ p \in keyring
           given == known \/ typed
           stored == IF ~known /\ typed THEN keyring \union {p} ELSE keyring
           c == IF given THEN [Default EXCEPT !.provider = p] ELSE Default
           e == IF given THEN WithKey(env, p, stored) ELSE env IN
       /\ keyring' = stored
       /\ file' = IF given THEN c ELSE None
       /\ BuildAgent(c, WithKey(e, c.provider, stored), stored)
    /\ UNCHANGED command

(* A first save that fails ends the process.                               *)
WizardFails(p) ==
    /\ config = None /\ file = None
    /\ keyring' \in {keyring, keyring \union ({p} \cap Keyed)} /\ file' \in {None, Emptied}
    /\ UNCHANGED <<config, env, client, command, entered>>

(* cmd_model_provider asks for the key when the keyring has none.          *)
ModelProvider(p) ==
    /\ config # None /\ command.pc = "idle"
    /\ command' = [NoCommand EXCEPT !.pc = IF p \in Keyed \ keyring THEN "key" ELSE "change", !.provider = p]
    /\ UNCHANGED <<file, config, env, keyring, client, entered>>

TypeKey(given) ==
    /\ command.pc = "key"
    /\ IF given THEN /\ keyring' = keyring \union {command.provider}
                     /\ env' = WithKey(env, command.provider, keyring')
                     /\ command' = [command EXCEPT !.pc = "change"]
                ELSE command' = NoCommand /\ UNCHANGED <<keyring, env>>
    /\ UNCHANGED <<file, config, client, entered>>

(* The configuration and the environment change before config.save is      *)
(* called.                                                                 *)
ChangeProvider ==
    /\ command.pc = "change"
    /\ LET p == command.provider
           c == [provider |-> p, model |-> "local", base |-> IF p = "ollama" THEN "local" ELSE None]
           e == WithKey(env, p, keyring) IN
       config' = ConfigFor(c, e) /\ env' = EnvFor(c, e, keyring)
    /\ command' = [command EXCEPT !.pc = "open"]
    /\ entered' = entered \union {command.provider}
    /\ UNCHANGED <<file, keyring, client>>

(* cmd_model_brain and, for the model it does not change, cmd_model_fast:  *)
(* a local model is pulled first, and a failed pull changes nothing.       *)
ModelName(m) ==
    /\ config # None /\ command.pc = "idle"
    /\ command' = [NoCommand EXCEPT !.model = m,
                                    !.pc = IF config.provider = "ollama" /\ m # "cloud" /\ ~RequiresKey(config)
                                           THEN "pull" ELSE "model"]
    /\ UNCHANGED <<file, config, env, keyring, client, entered>>

Pull(ok) ==
    /\ command.pc = "pull"
    /\ command' = IF ok THEN [command EXCEPT !.pc = "model"] ELSE NoCommand
    /\ UNCHANGED <<file, config, env, keyring, client, entered>>

ChangeModel ==
    /\ command.pc = "model"
    /\ LET c == [config EXCEPT !.model = command.model] IN
       config' = ConfigFor(c, env) /\ env' = EnvFor(c, env, keyring)
    /\ command' = [command EXCEPT !.pc = "open"]
    /\ UNCHANGED <<file, keyring, client, entered>>

(* save_config opens the file, which empties it, then writes; the REPL     *)
(* reloads the agent.                                                      *)
OpenFile ==
    /\ command.pc = "open"
    /\ file' = Emptied /\ command' = [command EXCEPT !.pc = "write"]
    /\ UNCHANGED <<config, env, keyring, client, entered>>

(* The directory, the opening or the writing may raise: the REPL reports   *)
(* it and goes on with what has changed and with the agent it had.         *)
SaveFails ==
    /\ command.pc \in {"open", "write"}
    /\ command' = NoCommand /\ client' = [client EXCEPT !.fresh = FALSE]
    /\ UNCHANGED <<file, config, env, keyring, entered>>

SaveAndReload ==
    /\ command.pc = "write"
    /\ file' = config /\ command' = NoCommand
    /\ BuildAgent(config, env, keyring)
    /\ UNCHANGED keyring

(* Other commands, as cmd_language, save the whole configuration too, or   *)
(* fail to.                                                                *)
SaveSetting ==
    /\ config # None /\ command.pc = "idle"
    /\ file' \in {Emptied, config}
    /\ UNCHANGED <<config, env, keyring, client, command, entered>>

(* `merlya config set model.provider` and `model.base_url`, with no REPL.  *)
ConfigSet(override, p, base) ==
    /\ config = None
    /\ LET c == Loaded(override) IN
       file' \in {Emptied, [c EXCEPT !.provider = p], [c EXCEPT !.base = base]}
    /\ UNCHANGED <<config, env, keyring, client, command, entered>>

(* The process ends or is killed; the next one has its shell's environment.*)
Exit(keys, host) ==
    /\ config # None
    /\ config' = None /\ client' = None /\ command' = NoCommand /\ entered' = {}
    /\ env' = ShellEnv(keys, host)
    /\ UNCHANGED <<file, keyring>>

Override == Providers \union {None}
ProviderNext ==
    \/ \E o \in Override : Start(o)
    \/ \E p \in Providers, typed \in BOOLEAN : Wizard(p, typed)
    \/ \E p \in Providers : WizardFails(p) \/ ModelProvider(p)
    \/ \E given \in BOOLEAN : TypeKey(given)
    \/ ChangeProvider
    \/ \E m \in Models : ModelName(m)
    \/ \E ok \in BOOLEAN : Pull(ok)
    \/ ChangeModel \/ OpenFile \/ SaveFails \/ SaveAndReload \/ SaveSetting
    \/ \E o \in Override, p \in Providers, b \in {"local", "cloud"} : ConfigSet(o, p, b)
    \/ \E keys \in SUBSET Keyed, host \in {None, "local", "cloud"} : Exit(keys, host)

-----------------------------------------------------------------------------
Idle == config # None /\ command.pc = "idle"

(* cmd_model_show: the provider, and a base address where there is one.    *)
Shown == IF config.base # None THEN config.base ELSE config.provider

(* The agent's requests go to the address that /model show displays, and   *)
(* their key is the provider's own, as long as the last configuration was  *)
(* saved.  For openai, which sets no variable, the address is openai's     *)
(* whatever base is shown, and both hold until the process has been        *)
(* configured for openrouter (ensure_provider_env against the commands and *)
(* the restarts that change the configuration under it).                   *)
GoesWhereShown ==
    Idle /\ client.fresh =>
       LET own == config.provider # "openai" \/ "openrouter" \notin entered IN
       /\ own => client.key \in {config.provider, None}
       /\ own /\ (config.provider # "openai" \/ config.base = None) => client.to = Shown
       /\ own /\ config.provider = "openai" => client.to = "openai"

(* With ollama no request leaves for another provider ("Switch to local    *)
(* Ollama for privacy", docs/guides/llm-providers.md).                     *)
StaysWithOllama ==
    Idle /\ config.provider = "ollama" => SpecialistClient.to \in {"local", "cloud"}
=============================================================================
