CONSTANTS
    Identifiers <- MCIdentifiers
SPECIFICATION Spec
INVARIANT DescriptionChoosesSection
