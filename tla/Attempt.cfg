SPECIFICATION Spec
CONSTANTS
    Configs <- MCConfigs
    ActionSet <- MCActions
    Locations <- MCLocations
    Addresses <- MCAddresses
    Local = {"lo"}
    Private = {"lan"}
    Blocked = {"localhost"}
    Encoded = {"%2e"}
    Answers <- MCAnswers
    RetryAfters <- MCRetryAfters
    MaxDuration = 30000000
INVARIANTS
    StaysWithinPolicy
    RetriesFollowSchedule
    SettingsAreUsed
CHECK_DEADLOCK FALSE
