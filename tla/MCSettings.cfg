SPECIFICATION FairSpec
CONSTANTS
    Oses = {"tk", "mac"}
    Values = {0, 1}
    Bad = {2}
    Unset = Unset
    Default = 0
    Torn = Torn
    Off = Off
    Files <- MCFiles
    Dialogs = {d1, d2}
    Restarts = {r1}
    MaxEdits = 1
    MaxUses = 3
    MaxKills = 1
INVARIANTS
    MenuShowsSettings
    
    SettingsSurvive

    
CHECK_DEADLOCK FALSE
