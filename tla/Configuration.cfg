SPECIFICATION Spec
CONSTANTS
    Paths <- OnePath
    Plugins <- OnePlugin
    Defaults = {}
    Refers <- NoReference
    ConfigFile <- OneEntry
    Requested = {2}
CHECK_DEADLOCK FALSE
INVARIANTS PresetsRespectPlugins
