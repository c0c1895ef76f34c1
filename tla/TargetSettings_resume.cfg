SPECIFICATION Spec
CONSTANTS
    Machines <- TwoMachines
    Options <- ThreeOptions
    Zones <- TwoZones
    GenLines <- Comments
    HostLines <- Localhost
    Within <- Substrings
INVARIANTS
    SettingsAgree
PROPERTIES
    SettingsStay
    SettingsDone
CHECK_DEADLOCK FALSE
