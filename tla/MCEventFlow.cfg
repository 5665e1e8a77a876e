SPECIFICATION Spec
CONSTANTS
    Handlers = {"event_handler_json", "event_handler_query", "executes", "emits"}
    Queries <- AllQueries
    Filters = {"l", "r"}
    InputFilters = {"none", "l"}
    Sources = {"file", "emit", "execute", "capture"}
    MaxSources = 3
    MaxMatching = 3
INVARIANTS
    FreedOnce
    HandledOnce
    EngineExact
    QueryExact
    
    NestingBounded
CHECK_DEADLOCK FALSE
