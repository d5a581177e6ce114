------------------------------ MODULE Elevation ------------------------------
(***************************************************************************)
(* Elevated commands on one host: how a specialist or a subagent turns the *)
(* command of the model into one with sudo, doas or su                     *)
(* (merlya/agent/specialists/elevation.py, merlya/agent/tools/core/ssh.py),*)
(* how the user is asked for a password, which is verified and stored      *)
(* (merlya/tools/interaction.py), and how ssh_execute then runs the command*)
(* (merlya/tools/core/ssh.py).  Several calls run concurrently.            *)
(*                                                                         *)
(* A command is its prefix and what is left behind the prefix: "cmd", or a *)
(* text that is no longer the command.  The calls name the host as its row *)
(* does, by its hostname, or by a name that is both.  Hints of passwords   *)
(* named in the request are left out.                                      *)
(***************************************************************************)
EXTENDS Naturals

CONSTANTS Tasks,              \* the concurrent calls
          MaxPasswordRetries, \* MAX_PASSWORD_RETRIES
          None

VARIABLES host,       \* what its row is found by ("not": it has none), and its method
          remote,     \* the remote side: sudoer, expect (is installed)
          interactive,
          secrets,    \* the password stored for each service on the host
          cached,     \* _elevation_method_cache of the host
          task        \* the state of each call

elevationVars == <<host, remote, interactive, secrets, cached, task>>

Methods == {"none", "sudo", "sudo_password", "doas", "doas_password", "su"}
Services == {"sudo", "doas", "root"}
Passwords == {"of user", "of root", "wrong"}
Prefixes == {"", "sudo", "sudo -S", "doas", "su -c"}

Cmd(prefix, base) == [prefix |-> prefix, base |-> base]
Plain(prefix) == Cmd(prefix, "cmd")

(* The lookups by name and then by hostname find the row of the host; one  *)
(* by name only may not.                                                   *)
InInventory == host.found # "not"
FoundByName == host.found \in {"name", "both"}

(* The password prompt that a command opens on its standard input.         *)
NeedsPassword(cmd) == cmd.prefix \in {"sudo -S", "su -c"}

(* The forms in which the method is applied by prepare_host_elevation.     *)
Prepared(method, cmd) ==
    CASE method = "none" -> cmd
      [] method = "sudo" -> Cmd("sudo", cmd.base)
      [] method = "sudo_password" -> Cmd("sudo -S", cmd.base)
      [] method \in {"doas", "doas_password"} -> Cmd("doas", cmd.base)
      [] method = "su" -> Cmd("su -c", cmd.base)

(* The service whose password the method needs.                            *)
ServiceOf(method) == CASE method = "sudo_password" -> "sudo"
                       [] method = "doas_password" -> "doas"
                       [] method = "su" -> "root"
                       [] OTHER -> None

(* The service a subagent asks for (_determine_service_type).              *)
ServiceFor(method, cmd) == CASE method = "su" -> "root"
                             [] method = "sudo" -> "sudo"
                             [] OTHER -> IF cmd.prefix = "su -c" THEN "root" ELSE "sudo"

Fallback(service) == IF service \in {"sudo", "doas"} THEN "root" ELSE "sudo"

(* The service under which a password is found, or None.                   *)
Lookup(service) == CASE service # None /\ secrets[service] # None -> service
                     [] service # None /\ secrets[service] = None
                        /\ secrets[Fallback(service)] # None -> Fallback(service)
                     [] OTHER -> None

(* strip_sudo_prefix knows no "sudo -S": the option stays in the base, and *)
(* so do the quotes of the argument of su -c.                              *)
Stripped(cmd) == CASE cmd.prefix = "sudo -S" -> "-S cmd"
                   [] cmd.prefix = "su -c" -> "'cmd'"
                   [] OTHER -> cmd.base

(* Mutant: sudo is kept on a host that is known for su.                    *)
M_Transform(known, cmd) ==
    CASE cmd.prefix = "su -c" /\ known = "sudo" -> Cmd("sudo", Stripped(cmd))
      [] cmd.prefix = "su -c" /\ known = "sudo_password" -> Cmd("sudo -S", Stripped(cmd))
      [] cmd.prefix = "sudo" /\ known = "sudo_password" -> Cmd("sudo -S", cmd.base)
      [] OTHER -> cmd

(* _auto_transform_elevation_command: the command is adapted to the method *)
(* known for the host.                                                     *)
Transform(known, cmd) ==
    CASE cmd.prefix \in {"sudo", "sudo -S"} /\ known = "su" -> Cmd("su -c", Stripped(cmd))
      [] cmd.prefix = "su -c" /\ known = "sudo" -> Cmd("sudo", Stripped(cmd))
      [] cmd.prefix = "su -c" /\ known = "sudo_password" -> Cmd("sudo -S", Stripped(cmd))
      [] cmd.prefix = "sudo" /\ known = "sudo_password" -> Cmd("sudo -S", cmd.base)
      [] OTHER -> cmd

(* The method ssh_execute goes by: that of the row, if there is one.       *)
Known == IF InInventory THEN host.method ELSE cached

(* A call: its agent, the command and the reference to a password that the *)
(* model gives.                                                            *)
Call(mode, cmd, ref) ==
    [pc |-> "start", mode |-> mode, cmd |-> cmd, ref |-> ref, service |-> None,
     tries |-> 0, typed |-> None, verified |-> None, lost |-> FALSE, outcome |-> None]

ElevationInit ==
    /\ host \in [found : {"not", "name", "hostname", "both"}, method : Methods]
    /\ host.found = "not" => host.method = "none"
    /\ remote \in [sudoer : BOOLEAN, expect : BOOLEAN]
    /\ interactive \in BOOLEAN
    /\ secrets = [s \in Services |-> None]
    /\ cached = None
    /\ \E mode \in {"specialist", "subagent"} :
       task \in [Tasks -> {Call(mode, Plain(p), ref) : p \in Prefixes, ref \in {None, "sudo"}}]

Ends(t, outcome) == task' = [task EXCEPT ![t].pc = "done", ![t].outcome = outcome]

(* prepare_host_elevation: a command that comes with a password is left as *)
(* it is; another is put into the form of the method, and its password is  *)
(* looked up or has to be asked for.                                       *)
Prepare(t) ==
    /\ task[t].pc = "start" /\ task[t].mode = "specialist"
    /\ LET service == ServiceOf(host.method)
       IN  task' = IF task[t].ref # None THEN [task EXCEPT ![t].pc = "run"]
                   ELSE [task EXCEPT ![t].cmd = Prepared(host.method, @),
                                     ![t].service = service, ![t].ref = Lookup(service),
                                     ![t].pc = IF service = None \/ Lookup(service) # None
                                               THEN "run" ELSE "asking"]
    /\ UNCHANGED <<host, remote, interactive, secrets, cached>>

(* _resolve_elevation_credentials: only a command that wants a password is *)
(* given one, that of the model if it exists.                              *)
Collect(t) ==
    /\ task[t].pc = "start" /\ task[t].mode = "subagent"
    /\ LET service == ServiceFor(IF InInventory THEN host.method ELSE None, task[t].cmd)
           given == task[t].ref # None /\ secrets[task[t].ref] # None
       IN  task' = IF ~NeedsPassword(task[t].cmd) \/ given THEN [task EXCEPT ![t].pc = "run"]
                   ELSE [task EXCEPT ![t].service = service, ![t].ref = Lookup(service),
                                     ![t].pc = IF Lookup(service) # None THEN "run" ELSE "asking"]
    /\ UNCHANGED <<host, remote, interactive, secrets, cached>>

(* request_credentials: a password that is stored by now is used as it is; *)
(* without a user to ask there is none; else the user is prompted.         *)
Request(t) ==
    /\ task[t].pc = "asking"
    /\ LET service == task[t].service
       IN  CASE secrets[service] # None -> task' = [task EXCEPT ![t].ref = service, ![t].pc = "run"]
             [] secrets[service] = None /\ ~interactive -> Ends(t, "no credentials")
             [] OTHER -> task' = [task EXCEPT ![t].pc = "prompt"]
    /\ UNCHANGED <<host, remote, interactive, secrets, cached>>

(* What the remote side says of a password, unless a test fails: sudo -S   *)
(* true tells; the expect script for su exits with 0 once su has asked for *)
(* the password, whatever su thinks of it.                                 *)
Verified(p) ==
    {m \in {"sudo", "su"} : \/ m = "sudo" /\ remote.sudoer /\ p = "of user"
                            \/ m = "su" /\ remote.expect} \cup {None}

(* The user types a password, which is verified with sudo, then with su.   *)
(* One that su takes is stored under the service that was asked for; the   *)
(* method is cached.                                                       *)
Prompt(t) ==
    /\ task[t].pc = "prompt"
    /\ \E p \in Passwords : \E m \in Verified(p) :
          /\ IF m = None
             THEN /\ IF task[t].tries + 1 = MaxPasswordRetries THEN Ends(t, "no credentials")
                     ELSE task' = [task EXCEPT ![t].tries = @ + 1]
                  /\ UNCHANGED <<secrets, cached>>
             ELSE /\ task' = [task EXCEPT ![t].typed = p, ![t].tries = 0, ![t].verified = m, ![t].pc = "persist"]
                  /\ cached' = m
                  /\ secrets' = IF m = "su" THEN [secrets EXCEPT ![task[t].service] = p] ELSE secrets
    /\ UNCHANGED <<host, remote, interactive>>

(* The method that worked is saved in the row of the host, if that is found*)
(* by name and nothing is raised, which is only logged.                    *)
Persist(t) ==
    /\ task[t].pc = "persist"
    /\ \E lost \in {FALSE, FoundByName} :
          /\ host' = IF FoundByName /\ ~lost
                     THEN [host EXCEPT !.method = IF task[t].verified = "sudo" THEN "sudo_password" ELSE "su"]
                     ELSE host
          /\ task' = [task EXCEPT ![t].pc = "store", ![t].lost = lost]
    /\ UNCHANGED <<remote, interactive, secrets, cached>>

(* The password is stored: one for su under the service root.              *)
Store(t) ==
    /\ task[t].pc = "store"
    /\ LET service == IF task[t].verified = "su" THEN "root" ELSE task[t].service
       IN  /\ secrets' = [secrets EXCEPT ![service] = task[t].typed]
           /\ task' = [task EXCEPT ![t].ref = service, ![t].pc = "run"]
    /\ UNCHANGED <<host, remote, interactive, cached>>

(* What _auto_resolve_elevation_password finds without a reference: it     *)
(* looks under the hostname, the passwords are under what the calls say.   *)
AutoResolved(cmd) ==
    IF ~NeedsPassword(cmd) \/ host.found = "name" THEN None
    ELSE LET first == IF cached = "su" THEN "root" ELSE "sudo"
         IN  IF secrets[first] # None THEN secrets[first] ELSE secrets[Fallback(first)]

(* How a command ends that is given a password, or none.                   *)
Answer(cmd, password) ==
    CASE cmd.prefix \in {"sudo -S", "su -c"} /\ password = None -> "hangs"
      [] cmd.base # "cmd" -> "broken"
      [] cmd.prefix = "sudo -S" -> IF remote.sudoer /\ password = "of user" THEN "ok" ELSE "denied"
      [] cmd.prefix = "su -c" -> IF password = "of root" THEN "ok" ELSE "denied"
      [] OTHER -> "ok"

(* ssh_execute: a password is resolved before the command is transformed;  *)
(* a reference to nothing, or a command that needs a password and has      *)
(* none, is refused.                                                       *)
Execute(t) ==
    /\ task[t].pc = "run"
    /\ LET cmd == task[t].cmd
           password == IF task[t].ref # None THEN secrets[task[t].ref] ELSE AutoResolved(cmd)
           run == Transform(Known, cmd)
       IN  IF password = None /\ (task[t].ref # None \/ NeedsPassword(cmd)) THEN Ends(t, "refused")
           ELSE task' = [task EXCEPT ![t].cmd = run, ![t].pc = "done",
                                     ![t].outcome = Answer(run, password)]
    /\ UNCHANGED <<host, remote, interactive, secrets, cached>>

ElevationStep(t) == \/ Prepare(t) \/ Collect(t) \/ Request(t) \/ Prompt(t)
                    \/ Persist(t) \/ Store(t) \/ Execute(t)
ElevationNext == \E t \in Tasks : ElevationStep(t)

-----------------------------------------------------------------------------
(* A specialist never has a command wait for a password that nobody sends  *)
(* (ssh_execute, line 286: it will timeout waiting for password input), on *)
(* a host of the inventory: prepare_host_elevation and ssh_execute decide  *)
(* by a method that a concurrent call may change in between.               *)
NothingHangs ==
    \A t \in Tasks : task[t].mode = "specialist" /\ InInventory => task[t].outcome # "hangs"

(* A password the user has just typed and that was verified with sudo or   *)
(* su is not then sent to the other of the two, unless another call has    *)
(* had a password verified meanwhile, the calls name the host by its       *)
(* hostname, or the method could not be saved (request_credentials, line   *)
(* 454: this allows ssh.py to auto-transform commands).                    *)
PasswordFitsCommand ==
    \A t \in Tasks :
        /\ task[t].pc = "done" /\ task[t].mode = "specialist" /\ task[t].verified # None
        /\ FoundByName /\ ~task[t].lost /\ \A u \in Tasks \ {t} : task[u].verified = None
        => /\ task[t].cmd.prefix = "su -c" => task[t].verified = "su"
           /\ task[t].cmd.prefix = "sudo -S" => task[t].verified = "sudo"

=============================================================================
