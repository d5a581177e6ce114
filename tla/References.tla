------------------------------ MODULE References ------------------------------
(***************************************************************************)
(* The @references in a command: hosts are replaced by their addresses,    *)
(* asking the user for unknown ones, then secrets by their values; and the *)
(* copy of the command that is logged and shown has no values.  Text is a  *)
(* sequence of cells, so that what is cut out by position can be seen.     *)
(***************************************************************************)
EXTENDS Naturals, Sequences, SequencesExt, FiniteSetsExt

CONSTANTS Width,        \* reference -> characters of its name
          Qualified,    \* references with a colon
          Keywords,     \* references like db-password, which look like secrets
          MaxParts,     \* bound: parts of a command
          None

VARIABLES inventory,   \* reference -> whether a host is called so
          names,       \* the references that the DNS knows
          secrets,     \* reference -> characters of the stored value, or None
          legacy,      \* whether some sudo:<host>:password is stored
          line         \* the command under way

referenceVars == <<inventory, names, secrets, legacy, line>>

Refs == DOMAIN Width
Word == "word"
Mask == << <<"masked", 1>> >>

(* What the parts of a command, an address, a typed address and a value    *)
(* look like.                                                              *)
Cells(what, n) == [i \in 1..n |-> <<what, i>>]
Written(part) == IF part = Word THEN Cells(Word, 1) ELSE Cells(part, Width[part] + 1)
Address(r) == Cells("address", 2)
Typed == Cells("typed", 1)
Value(r, n) == Cells("value", n)

(* REFERENCE_PATTERN.finditer: the positions of the "@".                   *)
Matches(text) == {p \in 1..Len(text) : text[p][1] \in Refs /\ text[p][2] = 1}
RefAt(text, p) == text[p][1]

(* text[:start] + by + text[end:], the span being one of `of`.             *)
Cut(text, of, p, by) ==
    SubSeq(text, 1, p - 1) \o by \o SubSeq(text, p + Width[RefAt(of, p)] + 1, Len(text))

(* _find_secret_with_fallback: the length of the value found.              *)
Secret(r) == IF secrets[r] # None THEN secrets[r]
             ELSE IF r \in Keywords /\ legacy THEN 1 ELSE None

NoLine == [pc |-> "idle", parts |-> <<>>, text |-> <<>>, resolved |-> <<>>, safe |-> <<>>, left |-> {},
           hosts |-> {}, answers |-> <<>>, values |-> <<>>]

ReferencesInit ==
    /\ inventory \in [Refs \ Qualified -> BOOLEAN] /\ names \in SUBSET (Refs \ Qualified)
    /\ secrets \in [Refs -> {0, 2} \union {None}] /\ legacy \in BOOLEAN
    /\ line = NoLine

-----------------------------------------------------------------------------
(* resolve_all_references reads the hosts; a command with a password in    *)
(* plain text was refused before (_prepare_command).                       *)
Begin(parts) ==
    /\ line.pc = "idle"
    /\ LET text == FlattenSeq([i \in 1..Len(parts) |-> Written(parts[i])]) IN
       line' = [NoLine EXCEPT !.pc = "hosts", !.parts = parts, !.text = text, !.resolved = text,
                              !.left = Matches(text), !.answers = [p \in Matches(text) |-> None],
                              !.hosts = {r \in DOMAIN inventory : inventory[r]}]
    /\ UNCHANGED <<inventory, names, secrets, legacy>>

M_NextMatch == Min(line.left)

(* The matches are replaced from the last one to the first.                *)
NextMatch == Max(line.left)

(* resolve_host_references, one match: a name with a colon, or that looks  *)
(* like a secret, is left; then the inventory, the DNS, a full domain name *)
(* and the user.                                                           *)
ResolveHost ==
    /\ line.pc = "hosts" /\ line.left # {}
    /\ LET p == NextMatch
           r == RefAt(line.text, p)
           skip == r \in Qualified \/ (r \in Keywords /\ r \notin line.hosts /\ r \notin names) IN
       line' = CASE ~skip /\ r \in line.hosts ->
                       [line EXCEPT !.resolved = Cut(@, line.text, p, Address(r)), !.left = @ \ {p}]
                 [] ~skip /\ r \notin line.hosts /\ r \in names ->
                       [line EXCEPT !.resolved = Cut(@, line.text, p, Cells("name", Width[r])), !.left = @ \ {p}]
                 [] ~skip /\ r \notin line.hosts \union names -> [line EXCEPT !.pc = "ask"]
                 [] OTHER -> [line EXCEPT !.left = @ \ {p}]
    /\ UNCHANGED <<inventory, names, secrets, legacy>>

(* In a batch the prompt raises, and the call fails.                       *)
Answer(address) ==
    /\ line.pc = "ask"
    /\ LET p == NextMatch IN
       line' = [line EXCEPT !.pc = "hosts", !.left = @ \ {p}, !.answers[p] = address,
                            !.resolved = IF address = None THEN @ ELSE Cut(@, line.text, p, address)]
    /\ UNCHANGED <<inventory, names, secrets, legacy>>

Fail ==
    /\ line.pc = "ask" /\ line' = NoLine
    /\ UNCHANGED <<inventory, names, secrets, legacy>>

(* resolve_secrets, on what is left; values is history.                    *)
FindSecrets ==
    /\ line.pc = "hosts" /\ line.left = {}
    /\ line' = [line EXCEPT !.pc = "secrets", !.text = line.resolved, !.safe = line.resolved,
                            !.left = Matches(line.resolved), !.values = [r \in Refs |-> Secret(r)]]
    /\ UNCHANGED <<inventory, names, secrets, legacy>>

(* One match: names of hosts are not secrets, an unknown secret is left.   *)
ResolveSecret ==
    /\ line.pc = "secrets" /\ line.left # {}
    /\ LET p == NextMatch
           r == RefAt(line.text, p) IN
       line' = IF r \in line.hosts \/ Secret(r) = None
               THEN [line EXCEPT !.left = @ \ {p}]
               ELSE [line EXCEPT !.left = @ \ {p}, !.safe = Cut(@, line.text, p, Mask),
                                 !.resolved = Cut(@, line.text, p, Value(r, Secret(r)))]
    /\ UNCHANGED <<inventory, names, secrets, legacy>>

Resolved == line.pc = "secrets" /\ line.left = {}

Run ==
    /\ Resolved /\ line' = NoLine
    /\ UNCHANGED <<inventory, names, secrets, legacy>>

(* Meanwhile the user edits hosts and secrets.                             *)
Edit(r, n) ==
    /\ line.pc = "ask"
    /\ \/ secrets' = [secrets EXCEPT ![r] = n] /\ UNCHANGED inventory
       \/ r \notin Qualified /\ inventory' = [inventory EXCEPT ![r] = ~@] /\ UNCHANGED secrets
    /\ UNCHANGED <<names, legacy, line>>

ReferencesNext ==
    \/ \E n \in 1..MaxParts : \E parts \in [1..n -> Refs \union {Word}] : Begin(parts)
    \/ ResolveHost \/ Fail \/ FindSecrets \/ ResolveSecret \/ Run
    \/ \E address \in {Typed, None} : Answer(address)
    \/ \E r \in Refs, n \in {0, 2} \union {None} : Edit(r, n)

-----------------------------------------------------------------------------
(* What a part of the command should become, in the command that is run    *)
(* (by the value of a secret) and in the one that is shown.                *)
Meant(part, answer, shown) ==
    IF part = Word \/ part \in line.hosts THEN IF part = Word THEN Written(Word) ELSE Address(part)
    ELSE IF part \in names \ Qualified THEN Cells("name", Width[part])
    ELSE IF answer # None THEN answer
    ELSE IF line.values[part] = None THEN Written(part)
    ELSE IF shown THEN Mask ELSE Value(part, line.values[part])

(* Where part i begins in the text of the command.                         *)
StartOf(i) == 1 + Len(FlattenSeq([j \in 1..(i - 1) |-> Written(line.parts[j])]))
Expected(shown) ==
    FlattenSeq([i \in 1..Len(line.parts) |->
        Meant(line.parts[i],
              IF line.parts[i] = Word THEN None ELSE line.answers[StartOf(i)], shown)])

(* Every reference becomes what it stands for, whatever is before and after*)
(* it, and what is shown is the same with the values of secrets masked;    *)
(* for values, addresses and names of different lengths, several times in  *)
(* a command (resolve_host_references, resolve_secrets).                   *)
ReferencesReplaced ==
    Resolved => line.resolved = Expected(FALSE) /\ line.safe = Expected(TRUE)
=============================================================================
