----------------------------- MODULE Questions -----------------------------
(***************************************************************************)
(* What the tools ask the user.  ask_user keeps the answers of the session *)
(* under a fingerprint of the question and gives them again when it is     *)
(* asked too often; the prompts of calls that run together take turns by a *)
(* lock.  A question is asked in the open, as a secret or with choices; its*)
(* words may be the same each time.                                        *)
(***************************************************************************)
EXTENDS Naturals, FiniteSets, Sequences

CONSTANTS Callers,      \* tool calls that run together
          Words,        \* what may be asked
          MaxSameQuestion,
          MaxAsked,     \* bound: calls in one behaviour
          None

Kinds == {"open", "secret", "choice", "confirm"}

VARIABLES interactive,  \* _is_interactive(): stdin is a terminal
          auto,         \* ConsoleUI.auto_confirm, set by --yes
          responses,    \* AskUserCache.responses: fingerprint -> answer
          counts,       \* AskUserCache.counts: fingerprint -> times asked
          prompt,       \* who holds ConsoleUI._prompt_lock
          call,         \* caller -> the call it is in
          asked,
          typed,        \* answers the user has typed: <<words, kind, number>>
          given         \* caller -> what its last call returned

questionVars == <<interactive, auto, responses, counts, prompt, call, asked, typed, given>>

-----------------------------------------------------------------------------
(* The choices are part of it, whether the answer is a secret is not.      *)
Fingerprint(w, kind) == <<w, kind = "choice">>
Fingerprints == Words \X BOOLEAN

NoCall == [pc |-> "idle", words |-> None, kind |-> None, default |-> FALSE]

QuestionsInit ==
    /\ interactive \in BOOLEAN /\ auto \in BOOLEAN
    /\ responses = [f \in Fingerprints |-> None]
    /\ counts = [f \in Fingerprints |-> 0]
    /\ prompt = None
    /\ call = [c \in Callers |-> NoCall]
    /\ asked = 0
    /\ typed = {}
    /\ given = [c \in Callers |-> None]

Return(c, answer) == /\ given' = [given EXCEPT ![c] = answer]
                     /\ call' = [call EXCEPT ![c] = NoCall]
Wait(c, w, kind, default) ==
    /\ call' = [call EXCEPT ![c] = [pc |-> "waiting", words |-> w, kind |-> kind, default |-> default]]
    /\ UNCHANGED given
Enter(c) == call[c].pc = "idle" /\ asked < MaxAsked /\ asked' = asked + 1

(* What prompt() gives by itself under --yes, kept as an answer of number 0.*)
Default(w, kind) == <<w, kind, 0>>

(* ask_user: a question asked too often gets the answer it has had,        *)
(* whatever it is asked for now.  Without a terminal only a default can    *)
(* answer; with --yes a prompt takes its default, which is kept, or fails, *)
(* but for one with choices, which waits.                                  *)
AskUser(c, w, kind, default) ==
    LET f == Fingerprint(w, kind)
        known == counts[f] >= MaxSameQuestion /\ responses[f] # None IN
    /\ Enter(c) /\ kind # "confirm"
    /\ counts' = [counts EXCEPT ![f] = @ + 1]
    /\ \/ /\ known /\ Return(c, <<w, kind, "answer", responses[f]>>)
          /\ UNCHANGED responses
       \/ /\ ~known /\ ~interactive
          /\ Return(c, <<w, kind, IF default THEN "default" ELSE "error">>)
          /\ UNCHANGED responses
       \/ /\ ~known /\ interactive /\ auto /\ kind # "choice" /\ (kind = "open" => ~default)
          /\ Return(c, <<w, kind, "error">>)
          /\ UNCHANGED responses
       \/ /\ ~known /\ interactive /\ auto /\ kind = "open" /\ default
          /\ Return(c, <<w, kind, "default">>)
          /\ responses' = [responses EXCEPT ![f] = Default(w, kind)]
       \/ /\ ~known /\ interactive /\ (auto => kind = "choice") /\ Wait(c, w, kind, default)
          /\ UNCHANGED responses
    /\ UNCHANGED <<interactive, auto, prompt, typed>>

(* request_confirmation: --yes agrees, and without a terminal it fails.    *)
RequestConfirmation(c, w) ==
    /\ Enter(c)
    /\ \/ auto /\ Return(c, <<w, "confirm", "yes">>)
       \/ ~auto /\ ~interactive /\ Return(c, <<w, "confirm", "error">>)
       \/ ~auto /\ interactive /\ Wait(c, w, "confirm", FALSE)
    /\ UNCHANGED <<interactive, auto, responses, counts, prompt, typed>>

(* The prompt of a call has the lock and its question is on the screen.    *)
Show(c) ==
    /\ call[c].pc = "waiting" /\ prompt = None
    /\ prompt' = c
    /\ call' = [call EXCEPT ![c].pc = "asking"]
    /\ UNCHANGED <<interactive, auto, responses, counts, asked, typed, given>>

(* The user types an answer, or Ctrl-C.                                    *)
Type(c) ==
    /\ call[c].pc = "asking"
    /\ LET a == <<call[c].words, call[c].kind, Cardinality(typed) + 1>> IN
          /\ typed' = typed \cup {a}
          /\ call' = [call EXCEPT ![c].pc = "answered", ![c].default = a]
    /\ prompt' = None
    /\ UNCHANGED <<interactive, auto, responses, counts, asked, given>>
Interrupt(c) ==
    /\ call[c].pc = "asking"
    /\ prompt' = None
    /\ Return(c, <<call[c].words, call[c].kind, "cancelled">>)
    /\ UNCHANGED <<interactive, auto, responses, counts, asked, typed>>

M_Keep(c) ==
    /\ call[c].pc = "answered"
    /\ responses' = [responses EXCEPT ![Fingerprint(call[c].words, call[c].kind)] = call[c].default]
    /\ Return(c, <<call[c].words, call[c].kind, "answer", call[c].default>>)
    /\ UNCHANGED <<interactive, auto, counts, prompt, asked, typed>>

(* The call has its answer, and keeps it for the session unless secret.    *)
Keep(c) ==
    /\ call[c].pc = "answered"
    /\ responses' = IF call[c].kind \in {"open", "choice"}
                    THEN [responses EXCEPT ![Fingerprint(call[c].words, call[c].kind)] = call[c].default]
                    ELSE responses
    /\ Return(c, <<call[c].words, call[c].kind, "answer", call[c].default>>)
    /\ UNCHANGED <<interactive, auto, counts, prompt, asked, typed>>

QuestionsNext == \E c \in Callers :
    \/ \E w \in Words : \/ RequestConfirmation(c, w)
                        \/ \E kind \in Kinds, default \in BOOLEAN : AskUser(c, w, kind, default)
    \/ Show(c) \/ Type(c) \/ Interrupt(c) \/ Keep(c)

-----------------------------------------------------------------------------
(* A call gets an answer of the user to its own words, however many calls  *)
(* ask together and whatever was asked before: never one that was typed    *)
(* for other words, never a secret unless it asked for one, and a yes to   *)
(* an action only from a prompt for that action (ask_user's cache and the  *)
(* lock of the prompts).                                                   *)
AnswersAreTheirs ==
    \A c \in Callers : given[c] # None /\ Len(given[c]) = 4 =>
        LET a == given[c][4] IN
        /\ a[3] # 0 => a \in typed
        /\ a[1] = given[c][1]
        /\ a[2] = "secret" => given[c][2] = "secret"
        /\ given[c][2] = "confirm" => a[2] = "confirm"
        /\ given[c][2] = "choice" <=> a[2] = "choice"
=============================================================================
