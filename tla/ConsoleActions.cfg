SPECIFICATION MCSpec
CONSTANTS
    Ports = {1, 2}
    Starts = {{1}, {1, 2}}
    Slots = {1, 2}
    Kinds = {"update", "toggle", "delete", "scope", "port-scope", "mode", "create", "restart-ai-node", "diagnose"}
    Tasks = {{"delete", "again"}, {"toggle", "delete"}, {"delete", "filter"}, {"create", "filter", "again"}, {"restart-ai-node", "diagnose", "refresh"}, {"scope", "port-scope"}, {"port-scope", "mode"}}
    None = None
    MaxChanges = 2
    MaxPolls = 1
INVARIANTS ActionsTypeOK OneAtATime DialogHeld
PROPERTIES ConfirmedOnly CreationKept PanelCatchesUp
CHECK_DEADLOCK FALSE
