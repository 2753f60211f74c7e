SPECIFICATION Spec
CONSTANTS
    Tasks = {t1, t2}
    None = None
    MaxStrays = 1
    Scenarios = {{"eof", "cancel"}, {"stray", "reset"}, {"close", "bodyError"}, {"detach", "asyncBody", "close", "reset"}}
SYMMETRY Symmetry
INVARIANTS ReadInterest ExchangesApart NoStrandedWaiter
