SPECIFICATION Spec
CONSTANTS
  Object <- MCObject
  NamesOf <- MCNamesOf
  Ancestors <- MCAncestors
  Verbs <- WorldVerbs
  PersonOf <- MCPersonOf
  KeyText <- MCKeyText
  Owner <- MCOwner
  Unfree = {"vault"}
  Residents <- MCResidents
  Surfaces <- MCSurfaces
  PlayerStart = "hall"
  Person = {"ann", "bob", "cyd"}
  Writes <- MCWrites
  MaxLetters = 3
  Daemon = {"bell", "crow", "drum"}
  Npc = {"crow"}
  Staff = {"ann", "wiz"}
  Admin = {"wiz"}
  Haunt = {"park", "pier", "tomb"}
  Shut = {"tomb"}
  Source = {"look", "say"}
  MaxSchedule = 2
  Actor = {"ann", "bob"}
  Permission = {"write", "grant", "entrust"}
  Row <- MCRow
  FirstOwner = "ann"
  FirstWizards = {"ann"}
  Callee = {"ball", "thing", "root"}
  Called = {"ball", "thing"}
  Line <- MCLine
  Parents <- MCParents
  VerbOwner <- MCVerbOwner
  Runner = {"ann", "wiz"}
  Typists = {"ann"}
  Assumed = {"ann"}
  Wizards = {"wiz"}
  Replies = {"thing"}
  MaxFrames = 3
  MaxPosted = 1
  Scenes <- MCScenes
  MaxLeaving = 1
  MaxExits = 3
INVARIANTS CommandsTypeOK ContainersYield LocksHold BurrowLeadsBack RepliesGoBack AgentsAreAccounted BatchesCover  CallsAreAttributed
