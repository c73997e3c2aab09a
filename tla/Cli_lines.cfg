SPECIFICATION Spec
CONSTANTS
    Lines <- MCLines
    Numerals <- MCNumerals
    Answers <- MCAnswers
    MaxTail = 5
INVARIANT TypeOK
INVARIANT ScansGrammar
INVARIANT WizardUnderstood
CHECK_DEADLOCK FALSE
