\* Every handler, with every outcome of its tools and of the disk.
CONSTANTS
    public = public
    priv_space = priv_space
    priv_hash = priv_hash
    Communities <- MCCommunities
    Public = public
    Safe <- MCSafe
    MaxWalks = 2
SPECIFICATION Spec
CHECK_DEADLOCK FALSE
INVARIANTS
    TypeOK
    FailureIsLogged
    RaisesOnlyForTheDisk
    SuccessHasEvidence
    SecretsLive
    MountsAccountedFor
