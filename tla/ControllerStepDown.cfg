SPECIFICATION FairSpec
CONSTANT
    Configurations = {{}}
PROPERTY MasterModeReverted
