CONSTANTS
    None = None
    bare = bare
    full = full
    k1 = k1
    k2 = k2
    s1 = s1
    s2 = s2
    pw1 = pw1
    pw2 = pw2
    api = api
    agent = agent
    w1 = w1
    w2 = w2
    d1 = d1
    d2 = d2
    r1 = r1
    ConfigIds = {}
    SourceIds = {s1}
    Configs <- MCConfigs
    Refs <- MCRefs
    Secrets = {pw1, pw2}
    Procs = {api, agent}
    ConfigTasks = {}
    SourceTasks = {d1, d2}
    ReadTasks = {r1}
    Home <- TwoProcHome
    Retention = 0
    MaxTime = 1

SPECIFICATION Spec

INVARIANT CachedSourceFresh
INVARIANT StoredSecretIsLastSet
