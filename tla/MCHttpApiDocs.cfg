SPECIFICATION Spec
CONSTANTS
  Identifiers <- MCIdentifiers
  Member <- MCMember
  Urls <- MCUrls
  None = None
INVARIANT AdvertisedAreServed
