-------------------------------- MODULE Login --------------------------------
(***************************************************************************)
(* How a connection to a host is authenticated: the choice of a method, the*)
(* passphrases and passwords kept for the next time, the questions to the  *)
(* user, and the jump host.  Passphrases are stored under three names each,*)
(* which hosts and keys share; logins wait for the user and overlap.       *)
(***************************************************************************)
EXTENDS Naturals

CONSTANTS Logins,      \* concurrent calls of get_connection
          Machines, Keys,
          MaxLogins,   \* bound: calls in an execution
          None

VARIABLES interactive, \* whether the process has a user to ask
          hasAgent, defaultKey, encrypted,   \* the agent has keys; ~/.ssh; keys with a passphrase
          keyOf,       \* the key configured for a host
          phrases,     \* stored passphrases: slot -> the key it belongs to
          callback,    \* the passphrase callback of the pool: None, of the tools, or of /ssh to a host
          passwords,   \* stored passwords: id of a host -> "right", "wrong" or None
          login,       \* per call: how far it is
          logins,
          untried,     \* history: keys under whose path the callback of /ssh has stored
          stranded,    \* whether a tunnel is open whose connection came to nothing
          cancelled,   \* history: a login was cancelled while its tunnel was open
          settled,     \* history: machines a user has connected to with a password
          refused      \* history: one of them had no method in a batch afterwards

loginVars == <<interactive, hasAgent, defaultKey, encrypted, keyOf, phrases, callback,
               passwords, login, logins, untried, stranded, cancelled, settled, refused>>

(* The tools name the host as the inventory does, /ssh by its address.     *)
Via == {"name", "address"}
Ids == Machines \X Via

(* ssh:passphrase:<host>, <name of the key's file>, <its path>; all keys   *)
(* are called id_ed25519, in different directories.                        *)
FileName == <<"id_ed25519">>
Path(k) == <<k>>
Slots == Ids \union {FileName} \union {Path(k) : k \in Keys}
SlotsOf(id, k) == {id, FileName, Path(k)}

NoLogin == [pc |-> "idle", id |-> None, key |-> None, cached |-> None, attempt |-> 0,
            method |-> None, guess |-> None]

LoginInit ==
    /\ interactive \in BOOLEAN /\ hasAgent \in BOOLEAN
    /\ defaultKey \in {None, CHOOSE k \in Keys : TRUE} /\ encrypted \in {Keys, {}}
    /\ keyOf = [h \in Machines |-> None]
    /\ phrases = [s \in Slots |-> None] /\ passwords = [i \in Ids |-> None]
    /\ login = [t \in Logins |-> NoLogin] /\ logins = 0
    /\ callback = None /\ untried = {} /\ stranded = FALSE /\ cancelled = FALSE /\ settled = {} /\ refused = FALSE

setting == <<interactive, hasAgent, defaultKey, encrypted, keyOf>>
kept == <<phrases, callback, untried>>
history == <<stranded, cancelled, settled, refused>>

(* _get_passphrase, _lookup_passphrase: the first slot that has one.       *)
Cached(id, k) ==
    IF k \notin encrypted THEN None
    ELSE IF phrases[id] # None THEN phrases[id]
    ELSE IF phrases[FileName] # None THEN phrases[FileName] ELSE phrases[Path(k)]

Stored(id, k, phrase) ==
    [s \in Slots |-> IF s \in SlotsOf(id, k) THEN phrase ELSE phrases[s]]
(* What is stored has opened the key, or is removed because it did not; the*)
(* callback of /ssh stores what was typed before the key is read with it.  *)
Store(id, k, phrase) == phrases' = Stored(id, k, phrase) /\ untried' = untried \ {k}
StoreUntried(id, k, phrase) == phrases' = Stored(id, k, phrase) /\ untried' = untried \union {k}
StoreNothing == UNCHANGED <<phrases, untried>>

Opens(k, phrase) == k \notin encrypted \/ phrase = k

With(q, method) == [q EXCEPT !.pc = "connect", !.method = method]

(* _prepare_key_auth up to the first question: a wrong passphrase is       *)
(* removed from all slots before the user is asked for another, and when   *)
(* there is nobody to ask.                                                 *)
Load(t, q, k) ==
    LET cached == Cached(q.id, k)
        new == [q EXCEPT !.key = k, !.cached = cached, !.attempt = 1] IN
    /\ login' = [login EXCEPT ![t] = CASE Opens(k, cached) -> With(new, "key")
                                       [] ~Opens(k, cached) /\ interactive -> [new EXCEPT !.pc = "phrase"]
                                       [] OTHER -> NoLogin]
    /\ IF Opens(k, cached) \/ cached = None THEN StoreNothing ELSE Store(q.id, k, None)

-----------------------------------------------------------------------------
(* /ssh connect sets its callback, /ssh exec and test and the tools theirs *)
(* where there is none; then get_connection without one in the pool, and   *)
(* prepare_auth.                                                           *)
Connect(t, h, via) ==
    /\ login[t].pc = "idle" /\ logins < MaxLogins /\ logins' = logins + 1
    /\ callback' \in IF via = "address" THEN {h} \union ({callback} \ {None})
                     ELSE IF callback = None THEN {"tools"} ELSE {callback}
    /\ LET q == [NoLogin EXCEPT !.id = <<h, via>>]
           key == IF keyOf[h] # None THEN keyOf[h] ELSE IF hasAgent THEN None ELSE defaultKey IN
       IF key # None THEN Load(t, q, key) /\ UNCHANGED refused
       ELSE /\ login' = [login EXCEPT ![t] =
                  CASE hasAgent -> With(q, "agent")
                    [] ~hasAgent /\ passwords[q.id] # None -> [With(q, "password") EXCEPT !.guess = passwords[q.id]]
                    [] ~hasAgent /\ passwords[q.id] = None /\ interactive -> [q EXCEPT !.pc = "method"]
                    [] OTHER -> NoLogin]
            /\ refused' = (refused \/ (login'[t].pc = "idle" /\ h \in settled))
            /\ StoreNothing
    /\ UNCHANGED <<setting, passwords, stranded, cancelled, settled>>

(* _prompt_auth_method and _prompt_key_path: without an existing key the   *)
(* agent's socket is passed on.                                            *)
ChooseKey(t, k) ==
    /\ login[t].pc = "method"
    /\ IF k = None THEN login' = [login EXCEPT ![t] = With(@, "agent")] /\ StoreNothing
                   ELSE Load(t, login[t], k)
    /\ UNCHANGED <<setting, callback, passwords, logins, history>>

ChoosePassword(t) ==
    /\ login[t].pc = "method"
    /\ LET q == login[t] IN
       login' = [login EXCEPT ![t] = IF passwords[q.id] = None THEN [q EXCEPT !.pc = "password"]
                                     ELSE [With(q, "password") EXCEPT !.guess = passwords[q.id]]]
    /\ UNCHANGED <<setting, kept, passwords, logins, history>>

(* _prepare_password_auth stores what was typed.                           *)
TypePassword(t, typed) ==
    /\ login[t].pc = "password"
    /\ passwords' = IF typed # None THEN [passwords EXCEPT ![login[t].id] = typed] ELSE passwords
    /\ login' = [login EXCEPT ![t] = [With(@, IF typed # None THEN "password" ELSE "nothing") EXCEPT !.guess = typed]]
    /\ UNCHANGED <<setting, kept, logins, history>>

(* Mutant: what was typed is stored before the key is read with it.        *)
M_TypePhrase(t, typed) ==
    /\ login[t].pc = "phrase"
    /\ LET q == login[t] IN
       /\ login' = [login EXCEPT ![t] = With(q, IF typed = q.key THEN "key" ELSE "nothing")]
       /\ IF typed = None THEN StoreNothing ELSE Store(q.id, q.key, typed)
    /\ UNCHANGED <<setting, callback, passwords, logins, history>>

(* _load_key_directly: three attempts, the first with what was stored.     *)
TypePhrase(t, typed) ==
    /\ login[t].pc = "phrase"
    /\ LET q == login[t] IN
       CASE typed = None -> /\ login' = [login EXCEPT ![t] = With(q, "nothing")] /\ StoreNothing
         [] typed = q.key -> /\ login' = [login EXCEPT ![t] = With(q, "key")]
                             /\ Store(q.id, q.key, typed)
         [] OTHER -> /\ login' = [login EXCEPT ![t] = IF q.attempt = 2 THEN With(q, "nothing")
                                                     ELSE [q EXCEPT !.attempt = @ + 1]]
                     /\ Store(q.id, q.key, None)
    /\ UNCHANGED <<setting, callback, passwords, logins, history>>

(* _setup_jump_tunnel, for a host behind another: the tools pass the key of*)
(* the jump host, and for one with a passphrase _load_jump_key calls the   *)
(* callback, which blocks the loop.  That of /ssh looks in the slots of its*)
(* host and of the key, and stores what is typed at once; a wrong          *)
(* passphrase fails the login, and without one the agent is tried, except  *)
(* that the tools' callback raises when there is nobody to ask.            *)
OpenTunnel(t, k, typed, ok) ==
    /\ login[t].pc = "connect" /\ (k # None => login[t].id[2] = "name")
    /\ LET asked == k \in encrypted /\ callback # None
           host == <<callback, "name">>
           found == IF asked /\ callback \in Machines THEN Cached(host, k) ELSE None
           phrase == IF found # None THEN found ELSE typed IN
       /\ typed # None => asked /\ found = None /\ interactive
       /\ asked /\ (IF phrase = None THEN callback = "tools" /\ ~interactive ELSE ~Opens(k, phrase)) => ~ok
       /\ login' = [login EXCEPT ![t] = IF ok THEN [@ EXCEPT !.pc = "tunnelled"] ELSE NoLogin]
       /\ IF typed # None /\ callback \in Machines THEN StoreUntried(host, k, typed) ELSE StoreNothing
    /\ UNCHANGED <<setting, callback, passwords, logins, history>>

M_Answer(t, accepts) ==
    /\ login[t].pc \in {"connect", "tunnelled"}
    /\ login' = [login EXCEPT ![t] = NoLogin]
    /\ stranded' = (stranded \/ (login[t].pc = "tunnelled" /\ ~accepts))
    /\ UNCHANGED <<setting, kept, passwords, logins, cancelled, settled, refused>>

(* connect_with_options: after PermissionDenied with a key a second attempt*)
(* is made without it.  When it fails _create_connection closes the tunnel.*)
Answer(t, accepts) ==
    /\ login[t].pc \in {"connect", "tunnelled"}
    /\ LET q == login[t]
           fits == q.method = "password" => q.guess = "right" IN
       /\ accepts => fits
       /\ login' = [login EXCEPT ![t] = IF ~accepts /\ q.method = "key"
                                        THEN [q EXCEPT !.method = "nothing"] ELSE NoLogin]
       /\ settled' = IF accepts /\ q.method = "password" /\ interactive
                     THEN settled \union {q.id[1]} ELSE settled
    /\ UNCHANGED <<setting, kept, passwords, logins, stranded, cancelled, refused>>

(* CancelledError is not an Exception: the tunnel stays.                   *)
Cancel(t) ==
    /\ login[t].pc # "idle"
    /\ stranded' = (stranded \/ login[t].pc = "tunnelled")
    /\ cancelled' = (cancelled \/ login[t].pc = "tunnelled")
    /\ login' = [login EXCEPT ![t] = NoLogin]
    /\ UNCHANGED <<setting, kept, passwords, logins, settled, refused>>

(* /ssh config: it asks until the key opens, and stores under the name.    *)
Configure(h, k, typed) ==
    /\ interactive /\ logins < MaxLogins /\ logins' = logins + 1
    /\ LET phrase == IF Opens(k, Cached(<<h, "name">>, k)) THEN Cached(<<h, "name">>, k) ELSE typed IN
       /\ phrase # None \/ k \notin encrypted => Opens(k, phrase)
       /\ IF Opens(k, phrase)
          THEN /\ keyOf' = [keyOf EXCEPT ![h] = k]
               /\ IF phrase # None THEN Store(<<h, "name">>, k, phrase) ELSE StoreNothing
          ELSE StoreNothing /\ UNCHANGED keyOf
    /\ UNCHANGED <<interactive, hasAgent, defaultKey, encrypted, callback, passwords, login, history>>

(* The next process; the secrets are those of the keyring.                 *)
Restart(user) ==
    /\ interactive' = user /\ stranded' = FALSE /\ callback' = None
    /\ login' = [t \in Logins |-> NoLogin]
    /\ UNCHANGED <<hasAgent, defaultKey, encrypted, keyOf, phrases, passwords, logins,
                   untried, cancelled, settled, refused>>

LoginNext ==
    \/ \E t \in Logins :
          \/ \E h \in Machines, via \in Via : Connect(t, h, via)
          \/ \E k \in Keys \union {None} : ChooseKey(t, k) \/ TypePhrase(t, k)
          \/ \E typed \in {"right", "wrong"} \union {None} : TypePassword(t, typed)
          \/ \E ok \in BOOLEAN :
                \/ \E k, typed \in Keys \union {None} : OpenTunnel(t, k, typed, ok)
                \/ Answer(t, ok)
          \/ ChoosePassword(t) \/ Cancel(t)
    \/ \E h \in Machines, k \in Keys, typed \in Keys \union {None} : Configure(h, k, typed)
    \/ \E user \in BOOLEAN : Restart(user)

-----------------------------------------------------------------------------
(* A passphrase kept under the path of a key opens it, whatever keys and   *)
(* hosts share the other names it is kept under and however questions      *)
(* overlap, unless the callback of /ssh has put it there for a jump host   *)
(* and the key has not been loaded since (_load_key_directly,              *)
(* _store_passphrase, _prompt_private_key, passphrase_cb).                 *)
PhraseFitsKey == \A k \in Keys \ untried : phrases[Path(k)] \in {k, None}

(* A connection that fails takes its tunnel with it, unless it is cancelled*)
(* (_create_connection).                                                   *)
TunnelsEnd == stranded => cancelled

(* "To fix this, configure authentication before running in batch mode:    *)
(* ... Execute: /ssh connect" (_prompt_auth_method).                       *)
ConnectPreparesBatch == ~refused
=============================================================================
