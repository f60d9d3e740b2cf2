SPECIFICATION Spec
CONSTANTS
    Parts <- AllParts
    ListFlags <- SomeFlags
    Promised = {"a", "b"}
    Fn = {"f", "g"}
    Value = {"x", "y"}
    Settings <- Animations
    QueuedFns = {"hold", "next", "nextQueue"}
    Requests <- SomeRequests
    Inner <- JsonOnly
    Cors = FALSE
    MaxRequests = 2
    Elem = {"list", "item"}
    Ancestors <- InList
    Match <- Selected
    Bindings <- SomeBindings
    Starts <- Pages
    Handlers = {"f"}
    MaxEvents = 3
    Limit <- Bounds
INVARIANTS
    CallbacksSound
    EffectsSound
    RequestsSound
    EventsSound
PROPERTIES
    DeferredSteps
CHECK_DEADLOCK FALSE
