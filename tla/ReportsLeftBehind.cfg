\* Two characters, two connections to character servers and one to a map server,
\* 5 packets, one after another, and 1 close: ann is told to two connections, logs in
\* and leaves; one of her two entries stays and answers for bob.
SPECIFICATION SerialSpec
CONSTANTS
    None = None
    NoRequest = NoRequest
    l1 = l1
    l2 = l2
    c1 = c1
    s1 = s1
    s2 = s2
    Conns = {l1, l2, c1}
    Servers = {s1}
    Hosts = {h1}
    h1 = h1
    Chars = {ann, bob}
    bob = bob
    ann = ann
    Maps = {prontera, geffen}
    prontera = prontera
    geffen = geffen
    Spots = {p1}
    p1 = p1
    MaxFrames = 5
    MaxOverlap = 2
    MaxCloses = 1
    MaxReports = 0
    MaxRetries = 2
    ServerOf <- MCServerOf
    Host <- MCHost
    Requests <- MCRequests
CHECK_DEADLOCK FALSE
INVARIANTS
    CurrentMap
