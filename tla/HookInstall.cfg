SPECIFICATION Spec
CONSTANTS
    Platforms = {"claude", "codex"}
    OtherEvents = {}
    Commands = {"constitution", "old/constitution", "lint"}
    Constitutional = {"constitution", "old/constitution"}
    Binaries = {"constitution", "old/constitution"}
    Patterns = {"", "Bash", "Read|Write|Edit", "Glob|Grep", "Edit"}
    Settings = {"none", "some"}
    NoSettings = "none"
    TheirGroups <- Groups
    TheirEvents <- Edited
    InitialFiles <- Initial
    MaxGroups = 2
INVARIANTS
    TypeOK
    TheirsKept
    OwnHooksOnce
    UninstallClean
