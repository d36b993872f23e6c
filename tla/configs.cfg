CONSTANTS
    None = None
    bare = bare
    full = full
    k1 = k1
    k2 = k2
    s1 = s1
    s2 = s2
    pw1 = pw1
    pw2 = pw2
    api = api
    agent = agent
    w1 = w1
    w2 = w2
    d1 = d1
    d2 = d2
    r1 = r1
    ConfigIds = {k1}
    SourceIds = {}
    Configs <- MCConfigs
    Refs <- MCRefs
    Secrets = {}
    Procs = {api, agent}
    ConfigTasks = {w1, w2}
    SourceTasks = {}
    ReadTasks = {r1}
    Home <- TwoProcHome
    Retention = 1
    MaxTime = 3

SPECIFICATION Spec

INVARIANT TypeOK
INVARIANT CachedConfigFresh
PROPERTY OnlyCreateRevives
PROPERTY LifecycleSpec
