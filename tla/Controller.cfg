SPECIFICATION FairSpec
CONSTANT
    Configurations = {{}, {"fork", "helper"}, {"fork", "helper", "timeout"}}
INVARIANTS
    TypeOK
    PromotionNeverSkipped
    ManagerNeverFightsDemotion
    PendingHasCommand
PROPERTIES
    DroppedVipStaysAway
    PresidentServes
    DeadServerRecovers
