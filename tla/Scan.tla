-------------------------------- MODULE Scan --------------------------------
(***************************************************************************)
(* /scan: the hosts named are looked up, connected to and checked, one     *)
(* after another or several at once; the checks of a host run together and *)
(* their results are counted and put into a report.  What a check asks of  *)
(* the host is kept as the trouble that is there and whether its commands  *)
(* print something ("full"), cannot run or see nothing ("none"), or meet a *)
(* broken connection ("lost").                                             *)
(***************************************************************************)
EXTENDS Naturals, FiniteSets, FiniteSetsExt

CONSTANTS Names,       \* what the user names on the command line
          MaxHosts,    \* of Semaphore(5)
          MaxChecks,   \* bound: checks of each section in one behaviour
          None

VARIABLES kind,        \* ScanOptions.scan_type
          width,       \* hosts at once: 1, or MaxHosts with --parallel
          system,      \* the checks of the system section that the options leave
          security,
          host,        \* name -> where its scan is
          found,       \* name -> check -> what was there and what was heard
          sections,    \* name -> check -> ToolResult, those that are kept
          report       \* name -> what the user gets to see

scanVars == <<kind, width, system, security, host, found, sections, report>>

-----------------------------------------------------------------------------
(* What a check returns: a ToolResult or SecurityResult with the severity  *)
(* the scan reads off it, and the trouble its data holds.                  *)
Nothing == [success |-> FALSE, severity |-> "info", data |-> "none"]
Raises == [success |-> FALSE, severity |-> "raise", data |-> "none"]
Gives(severity, data) == [success |-> TRUE, severity |-> severity, data |-> data]

Warned(l) == IF l = "fine" THEN "info" ELSE "warning"

SystemInfo(l, a) == IF a = "lost" THEN Nothing ELSE Gives("info", l)
Memory(l, a) == IF a = "full" THEN Gives(Warned(l), l) ELSE Nothing
Cpu(l, a) == IF a = "full" THEN Gives(Warned(l), l) ELSE Nothing
DiskUsage(l, a) == IF a = "full" THEN Gives(Warned(l), l) ELSE Nothing
(* The data of all the disks has no key "warning", but "warnings".         *)
AllDisks(l, a) == IF a = "full" THEN Gives("info", l) ELSE Nothing
Docker(l, a) == IF a = "lost" THEN Nothing ELSE Gives("info", l)
Services(l, a) == CASE a = "full" -> Gives("info", l)
                    [] a = "none" -> Nothing
                    [] a = "lost" -> Raises
Cron(l, a) == IF a = "lost" THEN Raises ELSE Gives("info", l)
Processes(l, a) == IF a = "full" THEN Gives("info", l) ELSE Nothing
(* It returns a plain dict, which has no attribute success.                *)
RecentErrors(l, a) == IF a = "lost" THEN Raises ELSE Nothing

(* A probe whose tool is missing counts as a failed one.                   *)
GatewayReachable(l, a) == a = "full" /\ l # "gateway"
DnsWorking(l, a) == a = "full" /\ l # "dns"
InternetReachable(l, a) == a = "full" /\ l # "internet"
Network(l, a) == IF a = "lost" THEN Raises
                 ELSE Gives("info", CASE ~GatewayReachable(l, a) -> "gateway"
                                      [] ~DnsWorking(l, a) -> "dns"
                                      [] ~InternetReachable(l, a) -> "internet"
                                      [] OTHER -> "fine")

(* The output is split at every "---", so that the figures never stand in  *)
(* one section with their header: no figure is read.  Services are asked   *)
(* for by a command of their own.                                          *)
Figures(l) == "fine"
HealthScore(l) == 100 - (IF l = "down" THEN 10 ELSE 0) - (IF Figures(l) = "overload" THEN 30 ELSE 0)
Health(l, a) == CASE a # "full" -> Gives("info", "unreachable")
                  [] a = "full" /\ l = "down" -> Gives("info", "down")
                  [] a = "full" /\ l # "down" -> Gives("info", IF HealthScore(l) >= 80 THEN "fine" ELSE l)

OpenPorts(l, a) == IF a = "full" THEN Gives("info", l) ELSE Nothing
(* These report what they see; a command that fails has seen nothing.      *)
Seen(l, a) == CASE a = "full" -> Gives(IF l = "fine" THEN "info" ELSE l, l)
                [] a = "none" -> Gives("info", "fine")
                [] a = "lost" -> Nothing
SecurityConfig(l, a) == Seen(l, a)
Users(l, a) == Seen(l, a)
(* The first line of a key in OpenSSH's own format never says ENCRYPTED.   *)
SshKeys(l, a) == Seen(IF l = "protected" THEN "warning" ELSE l, a)
SudoConfig(l, a) == Seen(l, a)
(* For a unit that is not installed systemctl prints "inactive" before the *)
(* echo of "not-found", and it is taken for one that is down.              *)
CriticalServices(l, a) == Seen(IF l = "absent" THEN "critical" ELSE l, a)
FailedLogins(l, a) == Seen(l, a)
PendingUpdates(l, a) == Seen(l, a)

QuickChecks == {"memory", "cpu", "disk", "ports"}
SystemChecks == {"system_info", "memory", "cpu", "health", "disks", "docker",
                 "services", "network", "cron", "processes", "logs"}
SecurityChecks == {"ports", "ssh_config", "users", "ssh_keys", "sudo",
                   "critical_services", "failed_logins", "updates"}

Levels(c) == CASE c \in {"memory", "cpu", "disk", "disks", "sudo"} -> {"fine", "warning"}
               [] c = "health" -> {"fine", "down", "overload"}
               [] c = "network" -> {"fine", "gateway", "dns", "internet"}
               [] c = "logs" -> {"fine", "errors"}
               [] c = "users" -> {"fine", "critical"}
               [] c = "ssh_keys" -> {"fine", "protected", "warning", "critical"}
               [] c = "critical_services" -> {"fine", "absent", "warning", "critical"}
               [] c \in {"ssh_config", "failed_logins", "updates"} ->
                      {"fine", "warning", "critical"}
               [] OTHER -> {"fine"}

Check(c, l, a) == CASE c = "system_info" -> SystemInfo(l, a)
                    [] c = "memory" -> Memory(l, a)
                    [] c = "cpu" -> Cpu(l, a)
                    [] c = "disk" -> DiskUsage(l, a)
                    [] c = "disks" -> AllDisks(l, a)
                    [] c = "health" -> Health(l, a)
                    [] c = "docker" -> Docker(l, a)
                    [] c = "services" -> Services(l, a)
                    [] c = "network" -> Network(l, a)
                    [] c = "cron" -> Cron(l, a)
                    [] c = "processes" -> Processes(l, a)
                    [] c = "logs" -> RecentErrors(l, a)
                    [] c = "ports" -> OpenPorts(l, a)
                    [] c = "ssh_config" -> SecurityConfig(l, a)
                    [] c = "users" -> Users(l, a)
                    [] c = "ssh_keys" -> SshKeys(l, a)
                    [] c = "sudo" -> SudoConfig(l, a)
                    [] c = "critical_services" -> CriticalServices(l, a)
                    [] c = "failed_logins" -> FailedLogins(l, a)
                    [] c = "updates" -> PendingUpdates(l, a)

-----------------------------------------------------------------------------
Picked == system \cup security

(* One check of a host ends, on whatever is there, over a connection that  *)
(* may break.                                                              *)
Answer(n, c) ==
    /\ host[n] = "checking" /\ c \notin DOMAIN found[n]
    /\ \E l \in Levels(c), a \in {"full", "none", "lost"} :
          /\ a # "full" => l = CHOOSE x \in Levels(c) : x # "fine" \/ Levels(c) = {"fine"}
          /\ found' = [found EXCEPT ![n] = [k \in DOMAIN @ \cup {c} |->
                          IF k = c THEN [level |-> l, answer |-> a] ELSE @[k]]]
    /\ UNCHANGED <<kind, width, system, security, host, sections, report>>

(* gather has them all: what raised or failed is left out, the rest is     *)
(* counted.                                                                *)
Results(n) == [c \in DOMAIN found[n] |-> Check(c, found[n][c].level, found[n][c].answer)]
Kept(n) == {c \in DOMAIN found[n] : Results(n)[c].success}
M_Issues(n) == {c \in Picked : \E m \in Names : c \in Kept(m) /\ Results(m)[c].severity \in {"warning", "critical"}}
Issues(n) == {c \in Kept(n) : Results(n)[c].severity \in {"warning", "critical"}}
WithSeverity(n, s) == Cardinality({c \in Issues(n) : Results(n)[c].severity = s})

SeverityScore(critical, warnings) == Min({100, 25 * critical + 10 * warnings})

(* The lines of the report that carry a warning sign.                      *)
ResourceMarks(c, r) == c \in {"memory", "cpu", "disk", "disks"} /\ r.data # "fine"
HealthMarks(c, r) == c = "health" /\ r.data # "fine"
(* It looks for a key dns_resolution that is not there, and takes the      *)
(* record of the internet check for its outcome.                           *)
NetworkMarks(c, r) == c = "network" /\ r.data = "gateway"
SecurityMarks(c, r) == c \in {"ssh_config", "users", "critical_services", "failed_logins", "updates"}
                       /\ r.data # "fine"
Marked(n) == {c \in Kept(n) : LET r == Results(n)[c] IN
                 \/ ResourceMarks(c, r) \/ HealthMarks(c, r)
                 \/ NetworkMarks(c, r) \/ SecurityMarks(c, r)}

Count(n) ==
    /\ host[n] = "checking" /\ DOMAIN found[n] = Picked
    /\ LET critical == WithSeverity(n, "critical")
           warnings == WithSeverity(n, "warning")
       IN report' = [report EXCEPT ![n] =
                        [success |-> TRUE, critical |-> critical, warnings |-> warnings,
                         score |-> SeverityScore(critical, warnings),
                         issues |-> Issues(n),
                         marked |-> IF kind = "quick" THEN {} ELSE Marked(n)]]
    /\ sections' = [sections EXCEPT ![n] = [c \in Kept(n) |-> Results(n)[c].data]]
    /\ host' = [host EXCEPT ![n] = "done"]
    /\ UNCHANGED <<kind, width, system, security, found>>

Failed == [success |-> FALSE, critical |-> 0, warnings |-> 0, score |-> 0, issues |-> {}, marked |-> {}]
Fail(n) == /\ host' = [host EXCEPT ![n] = "done"]
           /\ report' = [report EXCEPT ![n] = Failed]
           /\ UNCHANGED <<kind, width, system, security, found, sections>>

(* The name is looked up; one that the inventory does not have is reported.*)
Lookup(n) ==
    /\ host[n] = "asked"
    /\ Cardinality({m \in Names : host[m] \in {"connecting", "checking"}}) < width
    /\ \/ Fail(n)
       \/ /\ host' = [host EXCEPT ![n] = "connecting"]
          /\ UNCHANGED <<kind, width, system, security, found, sections, report>>

Connect(n) ==
    /\ host[n] = "connecting"
    /\ \/ Fail(n)
       \/ /\ host' = [host EXCEPT ![n] = "checking"]
          /\ UNCHANGED <<kind, width, system, security, found, sections, report>>

UpTo(checks) == {s \in SUBSET checks : Cardinality(s) <= MaxChecks}

(* The checks that a kind of scan and its options leave.                   *)
SystemPart(k) == CASE k = "quick" -> QuickChecks \ {"ports"}
                   [] k = "system" -> SystemChecks \ {"processes", "logs"}
                   [] k = "security" -> {}
                   [] k = "full" -> SystemChecks
SecurityPart(k) == CASE k = "quick" -> {"ports"}
                     [] k = "system" -> {}
                     [] k \in {"security", "full"} -> SecurityChecks

ScanInit ==
    /\ kind \in {"quick", "system", "security", "full"}
    /\ width \in {1, MaxHosts}
    /\ system \in UpTo(SystemPart(kind))
    /\ security \in UpTo(SecurityPart(kind))
    /\ host = [n \in Names |-> "asked"]
    /\ found = [n \in Names |-> [c \in {} |-> None]]
    /\ sections = [n \in Names |-> [c \in {} |-> None]]
    /\ report = [n \in Names |-> None]

Hosting(n) == \/ Lookup(n) \/ Connect(n) \/ Count(n)
              \/ \E c \in Picked : Answer(n, c)
ScanNext == \E n \in Names : Hosting(n)

-----------------------------------------------------------------------------
(* What the scan counts against a host is what its checks saw there: every *)
(* issue is about trouble that this host has, but for the two false alarms;*)
(* trouble of a kind the scan counts is counted when the check could see   *)
(* it; a broken connection or a failing check of one host changes nothing  *)
(* for another; and without a false alarm the severities and the score     *)
(* follow (_scan_quick, _scan_system_parallel, _scan_security_parallel,    *)
(* _calculate_severity_score).  The false alarms are a key of OpenSSH's own*)
(* format with a passphrase, reported as without (audit_ssh_keys), and a   *)
(* service that is not installed, reported as down                         *)
(* (check_critical_services).                                              *)
CountedKinds == {"memory", "cpu", "disk"} \cup (SecurityChecks \ {"ports"})
CountsAreTrue ==
    \A n \in Names : report[n] # None /\ report[n].success =>
        LET seen == {c \in Picked \cap CountedKinds : found[n][c].answer = "full"}
            alarms == {c \in seen : found[n][c].level \in {"protected", "absent"}}
            troubled == {c \in seen \ alarms : found[n][c].level # "fine"}
            grave == {c \in troubled : found[n][c].level = "critical"}
        IN /\ report[n].issues \ alarms = troubled
           /\ alarms = {} =>
                 /\ report[n].critical = Cardinality(grave)
                 /\ report[n].score = Min({100, 25 * Cardinality(grave)
                                                + 10 * Cardinality(troubled \ grave)})

(* "System Checks: CPU, memory, disk, Docker, services, network, cron,     *)
(* processes, logs" (docs/commands.md:197): trouble that one of these saw  *)
(* is to be seen in the report.  It is not: the figures of the health      *)
(* summary are never read, the report shows "Internet: connected" whatever *)
(* the probe found, and the recent errors never get into it.               *)
TroubleIsShown ==
    \A n \in Names : report[n] # None /\ report[n].success =>
        \A c \in system : kind # "quick" /\ found[n][c].answer = "full" /\ found[n][c].level # "fine"
                          => c \in report[n].marked
=============================================================================
