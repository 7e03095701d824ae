SPECIFICATION Spec
CONSTANTS
  NoNode = NoNode
  Chart <- Soldier
  OnEvents = {"SEEN", "HIT"}
INVARIANTS TypeOK TimersFollowStates EnteredAreActive LegalConfiguration
PROPERTIES EnteringArms
CHECK_DEADLOCK FALSE
