SPECIFICATION Spec
CONSTANTS
    Codes <- ExitCodes
    Names <- OutcomeNames
    MaxAdds = 2
INVARIANTS ClassifiedIsScanned
