SPECIFICATION Spec
CONSTANTS
    Codes <- ExitCodes
    Names <- OutcomeNames
    MaxAdds = 3
INVARIANTS ConsistentIsScanned ClassifiedNameIsScanned NamesAreUnique ClassificationIsStable
