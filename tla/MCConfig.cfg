\* One option of each sort, every environment, every way through the wizard.
CONSTANTS
    CONFIG_QUESTIONS <- MCQuestions
    Numbers = {"source_port"}
    Default <- MCDefault
SPECIFICATION Spec
CHECK_DEADLOCK FALSE
INVARIANTS
    NumbersUsable
    OptionsExplained
