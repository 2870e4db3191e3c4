CONSTANTS
    Identifiers <- MCIdentifiers
SPECIFICATION Spec
INVARIANT DescriptionKeepsLineBreaks
