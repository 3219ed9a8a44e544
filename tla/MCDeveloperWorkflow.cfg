CONSTANTS
    None = None
    Processes = {p1, p2}
    Descriptors = {"d1", "d2"}
    Spawners = {"d1"}
    Tenants = {"t1", "t2"}
    Tenant = "t1"
    Envelopes = {"e1", "e2"}
    Scenes <- MCScenes
    MaxCommands = 5
SYMMETRY Symmetry
SPECIFICATION Spec
CHECK_DEADLOCK FALSE
INVARIANTS StoreIsBacked OneBodyPerKey CompletedAsDelivered AnnouncedCanResume
