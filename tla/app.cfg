SPECIFICATION MCSpec
CONSTANTS
    Agents = {"a1", "a2"}
    Sessions = {s1, s2}
    Runs = {r1}
    None = None
    Nothing = None
    Files <- Edited
    First <- Original
    Watches = {"watcher", "dev"}
    MaxEdits = 2
    MaxBundles = 2
    MaxUses = 1
    Streams = {r1, r2}
    Wrappings = {TRUE, FALSE}
    MaxEvents = 2
    Ids = {1, 2, 3}
    Roots = {1}
    Limits = {1, 2}
    MaxTries = 2
    Names = {"search", "mine"}
    MaxDecorated = 1
    Parts = {"facade", "stream", "delegation", "plugins", "skills", "logging", "diagnostics", "sinks", "commands", "scaffold", "dev"}
    MaxSkillCalls = 4
    MaxLogCalls = 3
    MaxCalls = 2
    MaxHistory = 2
    MaxEmits = 3
    MaxCommands = 2
    MaxTurns = 2
    Slots = {1, 2}
    MaxSaves = 3
INVARIANTS BundlesAccounted  
PROPERTIES RunsKnown LeftAsFound EverythingSettles
CHECK_DEADLOCK FALSE
