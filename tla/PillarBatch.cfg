CONSTANTS
    h1 = h1
    h2 = h2
    h3 = h3
    e1 = e1
    e2 = e2
    e3 = e3
    None = None
    Hosts <- ThreeHosts
    Envs <- AllEnvs
    EnvOf <- SharedEnv
    Batch = 2
    Kills = TRUE
SPECIFICATION FairSpec
INVARIANTS TypeOK AtMostBatch ErrorsReported RendersOwnHost NeverStuck
PROPERTIES ScriptEnds WorkShrinks
