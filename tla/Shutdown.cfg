SPECIFICATION LiveSpec
CONSTANTS
    Watchers = {w1, w2, w3}
    Closers = {s1}
    Protocols = {p1, p2, p3}
    Sniffing = {p1}
    Jamming = {p2}
    Hosts = {h1}
    N = 2
    MaxResets = 1
    MaxErrors = 1
    Scenes <- MCScenes
INVARIANTS GracefulSafe AcceptBooks DrainedBeforeEnd GoAwaysTrue
PROPERTIES DrainsEveryone GracefulEnds ConnsShutdownEnds ServerEnds
