SPECIFICATION Spec
CONSTANTS
    Requests = {r1, r2, scrape}
    Scrapes = {scrape}
    Interim = {hints}
    Final = {ok, notFound, serverError}
    OK = ok
    ServerError = serverError
    None = None
    MaxCalls = 3
SYMMETRY Symmetry
INVARIANTS
    TypeOK
    LogsWhatWasSent
    CountsWhatWasSent
CHECK_DEADLOCK FALSE
