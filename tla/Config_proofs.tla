---------------------------- MODULE Config_proofs ----------------------------
(***************************************************************************)
(* Proofs about Config, for any list of options, any of them integers, and  *)
(* any defaults: what each option of the run is and where it comes from.    *)
(***************************************************************************)
EXTENDS Config, TLAPS

\* What an option is taken from: the answer, the environment, or the default.
Source(q) ==
    IF heard[q] # None THEN heard[q]
    ELSE IF env[q] = "unset" THEN Value("default", Default[q]) ELSE Value("env", env[q])

\* From the first step on, the dictionary is that, made to fit the option's type.
ConfigInv ==
    at # "environment" => \A q \in Options : config[q] = coerce(q, Source(q))

\* An answer that was taken is one validate let through; before the wizard, none was.
HeardInv ==
    \A q \in Options :
        \/ heard[q] = None
        \/ /\ at \in {"questions", "run"}
           /\ \E kind \in Kinds \ {"empty"} : validate(q, kind) /\ heard[q] = Value("answer", kind)

Shapes ==
    /\ env \in [Options -> Kinds \cup {"unset"}]
    /\ DOMAIN config = Options /\ DOMAIN heard = Options
    /\ asking \in Nat \ {0}

IInv == Shapes /\ HeardInv /\ ConfigInv

LEMMA InitIInv == Init => IInv
BY DEF Init, IInv, Shapes, HeardInv, ConfigInv, Value, None

\* Asking leaves the index inside the list, and so names an option.
LEMMA AskedIsOption ==
    ASSUME WellFormed, IInv, NextQuestion
    PROVE  /\ Asked \in Options
           /\ Shapes' <=> DOMAIN config' = Options /\ DOMAIN heard' = Options
<1>1. asking \in DOMAIN CONFIG_QUESTIONS
  BY DEF WellFormed, IInv, Shapes, NextQuestion
<1> QED
  BY <1>1 DEF IInv, Shapes, NextQuestion, inputs, Asked, Options

\* An answer that is taken replaces the environment's value and nothing else.
LEMMA AnswerIInv ==
    ASSUME WellFormed, IInv, Answer
    PROVE  IInv'
<1>1. Asked \in Options /\ NextQuestion
  BY AskedIsOption DEF Answer
<1>2. PICK kind \in Kinds \ {"empty"} :
        /\ validate(Asked, kind)
        /\ config' = [config EXCEPT ![Asked] = coerce(Asked, Value("answer", kind))]
        /\ heard' = [heard EXCEPT ![Asked] = Value("answer", kind)]
  BY DEF Answer
<1>3. Shapes'
  BY <1>1, <1>2, AskedIsOption DEF IInv, Shapes
<1>4. \A q \in Options :
        /\ heard'[q] = IF q = Asked THEN Value("answer", kind) ELSE heard[q]
        /\ config'[q] = IF q = Asked THEN coerce(q, Value("answer", kind)) ELSE config[q]
  BY <1>2 DEF IInv, Shapes
<1>5. HeardInv'
  BY <1>1, <1>2, <1>4 DEF IInv, HeardInv, NextQuestion, validate
<1>6. ConfigInv'
  <2>1. Value("answer", kind) # None
    BY DEF Value, None
  <2> QED
    BY <1>1, <1>4, <2>1 DEF IInv, ConfigInv, Source, NextQuestion, inputs, coerce
<1> QED
  BY <1>3, <1>5, <1>6 DEF IInv

LEMMA NextIInv == WellFormed /\ IInv /\ [Next]_vars => IInv'
<1> SUFFICES ASSUME WellFormed, IInv, [Next]_vars PROVE IInv'
  OBVIOUS
<1>1. CASE DefaultsFromEnv
  BY <1>1 DEF DefaultsFromEnv, IInv, Shapes, HeardInv, ConfigInv, Source, inputs, coerce
<1>2. CASE Choose
  BY <1>2 DEF Choose, IInv, Shapes, HeardInv, ConfigInv, Source, inputs, coerce
<1>3. CASE Answer
  BY <1>3, AnswerIInv
<1>4. CASE Keep
  BY <1>4 DEF Keep, NextQuestion, IInv, Shapes, HeardInv, ConfigInv, Source, inputs, coerce
<1>5. CASE Captured
  BY <1>5 DEF Captured, IInv, Shapes, HeardInv, ConfigInv, Source, inputs, coerce
<1>6. CASE UNCHANGED vars
  BY <1>6 DEF vars, IInv, Shapes, HeardInv, ConfigInv, Source, coerce
<1> QED
  BY <1>1, <1>2, <1>3, <1>4, <1>5, <1>6 DEF Next

LEMMA Inductive ==
    ASSUME WellFormed
    PROVE  Spec => []IInv
<1>1. IInv /\ [Next]_vars => IInv'
  BY NextIInv
<1> QED
  BY <1>1, InitIInv, PTL DEF Spec

----------------------------------------------------------------------------

\* A number of an integer option is a number, wherever it came from.
THEOREM NumbersCorrect ==
    ASSUME WellFormed
    PROVE  Spec => []NumbersUsable
<1>1. ASSUME IInv PROVE NumbersUsable
  <2> SUFFICES ASSUME at = "run", NEW q \in Numbers PROVE used(q).kind = "number"
    BY DEF NumbersUsable
  <2>1. q \in Options /\ Default[q] = "number"
    BY DEF WellFormed
  <2>2. config[q] = coerce(q, Source(q))
    BY <1>1, <2>1 DEF IInv, ConfigInv
  <2>3. Source(q).kind \in Kinds
    BY <1>1, <2>1 DEF IInv, HeardInv, Shapes, Source, Value, None, Kinds
  <2> QED
    BY <2>1, <2>2, <2>3 DEF used, coerce, Value, None, Kinds
<1>2. Spec => []IInv
  BY Inductive
<1> QED
  BY <1>1, <1>2, PTL

\* Each option is the operator's, the environment's or the code's own, in that
\* order, and a value that does not fit yields to the code's own.
THEOREM PrecedenceCorrect ==
    ASSUME WellFormed
    PROVE  Spec => []OptionsExplained
<1>1. ASSUME IInv PROVE OptionsExplained
  <2> SUFFICES ASSUME at = "run", NEW q \in Options
               PROVE  used(q) = CASE heard[q] # None /\ Fits(q, heard[q].kind) -> heard[q]
                                  [] heard[q] = None /\ Fits(q, env[q]) -> Value("env", env[q])
                                  [] OTHER -> Value("default", Default[q])
    BY DEF OptionsExplained
  <2>1. config[q] = coerce(q, Source(q))
    BY <1>1 DEF IInv, ConfigInv
  <2>2. Default[q] \in {"empty", "number", "text"} /\ (q \in Numbers => Default[q] = "number")
    BY DEF WellFormed
  <2>3. CASE heard[q] # None
    <3>1. PICK kind \in Kinds \ {"empty"} : validate(q, kind) /\ heard[q] = Value("answer", kind)
      BY <1>1, <2>3 DEF IInv, HeardInv
    <3> QED
      BY <2>1, <2>2, <2>3, <3>1 DEF used, coerce, Source, Fits, validate, Value, None, Kinds
  <2>4. CASE heard[q] = None
    <3>1. env[q] \in Kinds \cup {"unset"}
      BY <1>1 DEF IInv, Shapes
    <3> QED
      BY <2>1, <2>2, <2>4, <3>1 DEF used, coerce, Source, Fits, Value, None, Kinds
  <2> QED
    BY <2>3, <2>4
<1>2. Spec => []IInv
  BY Inductive
<1> QED
  BY <1>1, <1>2, PTL

=============================================================================
