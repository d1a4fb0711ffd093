-------------------------------- MODULE Config --------------------------------
(***************************************************************************)
(* config_wizard.load_config: each option of a run comes from the           *)
(* environment, from a built-in default, or from the operator's answer to   *)
(* the wizard; and the phases put a default of their own in place of an     *)
(* option that is not there.  A value is where it comes from and what it    *)
(* is, of which the code tells apart the empty text, a number, a zero and   *)
(* any other text.                                                          *)
(***************************************************************************)
EXTENDS Naturals, Sequences

CONSTANTS
    CONFIG_QUESTIONS,   \* the options' keys, in the order they are asked
    Numbers,            \* the options that are integers
    Default             \* per option, what the code's own value is

Options == {CONFIG_QUESTIONS[i] : i \in DOMAIN CONFIG_QUESTIONS}

\* Each option is asked once, and an integer has an integer for its default.
WellFormed ==
    /\ CONFIG_QUESTIONS \in Seq(Options)
    /\ \A i, j \in DOMAIN CONFIG_QUESTIONS :
         CONFIG_QUESTIONS[i] = CONFIG_QUESTIONS[j] => i = j
    /\ Numbers \subseteq Options
    /\ Default \in [Options -> {"empty", "number", "text"}]
    /\ \A q \in Options : q \in Numbers => Default[q] = "number"

Kinds == {"empty", "number", "zero", "text"}

Value(by, kind) == [by |-> by, kind |-> kind]

None == Value("nobody", "empty")

VARIABLES
    at,             \* "environment", "choice", "questions", "run"
    env,            \* the environment variable of each option, or "unset"
    no_prompt,      \* RECONBOX_NO_PROMPT=1
    configure,      \* RECONBOX_CONFIGURE=1
    terminal,       \* stdin is a terminal
    config,         \* the dictionary load_config returns
    asking,         \* the question under way
    heard           \* per option, the answer that was taken, or None

vars == <<at, env, no_prompt, configure, terminal, config, asking, heard>>

inputs == <<env, no_prompt, configure, terminal>>

Init ==
    /\ at = "environment"
    /\ env \in [Options -> Kinds \cup {"unset"}]
    /\ no_prompt \in BOOLEAN /\ configure \in BOOLEAN /\ terminal \in BOOLEAN
    /\ config = [q \in Options |-> None]
    /\ asking = 1
    /\ heard = [q \in Options |-> None]

\* An integer option that is no integer becomes the default, an empty value None.
coerce(q, v) ==
    CASE v.kind = "empty" -> None
      [] q \in Numbers /\ v.kind = "text" -> Value("default", "number")
      [] OTHER -> v

wizard_enabled == ~no_prompt /\ (configure \/ terminal)

\* os.environ.get(env, default) for each option; then the wizard, or none.
DefaultsFromEnv ==
    /\ at = "environment"
    /\ config' = [q \in Options |->
                    coerce(q, IF env[q] = "unset" THEN Value("default", Default[q])
                              ELSE Value("env", env[q]))]
    /\ at' = IF wizard_enabled THEN "choice" ELSE "run"
    /\ UNCHANGED <<inputs, asking, heard>>

\* "Configure advanced options now?": yes; or anything else, or no input at all.
Choose ==
    /\ at = "choice"
    /\ at' \in {"questions", "run"}
    /\ UNCHANGED <<inputs, config, asking, heard>>

Asked == CONFIG_QUESTIONS[asking]

NextQuestion ==
    /\ at = "questions" /\ asking <= Len(CONFIG_QUESTIONS)
    /\ asking' = asking + 1
    /\ UNCHANGED <<at, inputs>>

validate(q, kind) == q \in Numbers => kind # "text"

\* _ask: an answer that is not valid is asked for again and changes nothing.
Answer ==
    /\ NextQuestion
    /\ \E kind \in Kinds \ {"empty"} :
         /\ validate(Asked, kind)
         /\ config' = [config EXCEPT ![Asked] = coerce(Asked, Value("answer", kind))]
         /\ heard' = [heard EXCEPT ![Asked] = Value("answer", kind)]

\* A blank line, or the end of the input, which may come at any question.
Keep == NextQuestion /\ UNCHANGED <<config, heard>>

Captured ==
    /\ at = "questions" /\ asking > Len(CONFIG_QUESTIONS)
    /\ at' = "run"
    /\ UNCHANGED <<inputs, config, asking, heard>>

Next == DefaultsFromEnv \/ Choose \/ Answer \/ Keep \/ Captured

Spec == Init /\ [][Next]_vars

\* config.get(key) or DEFAULT, as the phases read an option: None and the integer
\* zero are both as good as nothing.
used(q) ==
    IF config[q] = None \/ (q \in Numbers /\ config[q].kind = "zero")
    THEN Value("default", Default[q])
    ELSE config[q]

----------------------------------------------------------------------------
(* Properties. *)

\* Whatever the environment and the operator say, the phases that need a number
\* have one that is not zero: a value that is no integer is not handed on to the
\* tool, nor does it end the run (config_wizard.py:155-158, network_scan.py:422).
NumbersUsable == at = "run" => \A q \in Numbers : used(q).kind = "number"

Fits(q, kind) == kind \notin {"unset", "empty"} /\ (q \in Numbers => kind = "number")

\* "Environment variables (always respected ...)", then the wizard "on top"
\* (config_wizard.py:11, 206): what a phase uses is the operator's answer to that
\* question, if one was taken; else the environment's value; and the default only
\* where neither fits.  An operator who skips a question, or whose input ends
\* halfway, loses no option to it.
OptionsExplained ==
    at = "run" => \A q \in Options :
        used(q) = CASE heard[q] # None /\ Fits(q, heard[q].kind) -> heard[q]
                    [] heard[q] = None /\ Fits(q, env[q]) -> Value("env", env[q])
                    [] OTHER -> Value("default", Default[q])

=============================================================================
