SPECIFICATION Spec
CONSTANTS
  Identifiers <- MCIdentifiers
  Member <- MCMember
  Urls <- MCUrls
  None = None
INVARIANTS OneResponse OnlyAdmittedAreFetched StatusTellsOutcome RefusedForCause ErrorsNameTheRequest
