\* One character, two connections to character servers and one to each of two map
\* servers of one host, 3 packets (2 once handlers overlapped), 1 close or lost link,
\* 2 reports, 1 refusal: old announcements, overlapping handlers, late handlers of a
\* closed connection, an id used again, a login that finds two entries and the close
\* after it, a full retry count.  The Analyzer may stay idle at the end.
SPECIFICATION FairSpec
CONSTANTS
    None = None
    NoRequest = NoRequest
    l1 = l1
    l2 = l2
    c1 = c1
    c2 = c2
    s1 = s1
    s2 = s2
    Conns = {l1, l2, c1, c2}
    Servers = {s1, s2}
    Hosts = {h1}
    h1 = h1
    Chars = {ann}
    ann = ann
    Maps = {prontera, geffen}
    prontera = prontera
    geffen = geffen
    Spots = {p1}
    p1 = p1
    MaxFrames = 3
    MaxOverlap = 2
    MaxCloses = 1
    MaxReports = 2
    MaxRetries = 1
    ServerOf <- MCServerOf
    Host <- MCHost
    Requests <- MCRequests
CHECK_DEADLOCK FALSE
INVARIANTS
    TypeOK
    RightMap
    ForgottenOnClose
    KeptUntilSettled
PROPERTIES
    EventuallySettled
