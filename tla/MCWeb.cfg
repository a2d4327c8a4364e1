CONSTANTS
    n1 = n1
    n2 = n2
    c1 = c1
    c2 = c2
    Conns = {c1, c2}
    GENS = 2
    IDLE_POLLS = 1
    PRECONNECT_POLLS = 0
    Uploads <- Chains
    Current = {"A", "B"}
    TLS_CERTS_MAX = 6
    RECORD_CERTS = 2
    Requests <- Heads
    Streams = {"metrics", "log"}
    MaxSeq = 2
    Networks = {n1, n2}
    Subscribed = {"state", "result"}
    Meddles = FALSE
    RING = 8
    Frames = {3, 4, 7}
    W6100_MAX_FRAME = 4

SPECIFICATION MCSpec
SYMMETRY Alike
INVARIANTS
    StreamsAreWhole
    CertificatesInUse
    InstalledIsFound
    ProvisionedIsJoined
    InStep
    NoFrameForgotten
