\* Every name, answer and wordlist, with a cap of two candidates and one of none.
CONSTANTS
    plain = plain
    capitals = capitals
    rooted = rooted
    cloudy = cloudy
    dashed = dashed
    ns1 = ns1
    ns2 = ns2
    complaint = complaint
    Names <- MCNames
    Ip = ip
    NoName = none
    Valid <- MCValid
    Cloud <- MCCloud
    LowerCase <- MCLowerCase
    Dotted <- MCDotted
    Nameservers <- MCNameservers
    Complaints = {complaint}
    Safe <- MCSafe
    MaxLines = 2
    Wordlists <- MCWordlists
    MaxEntries = 2
    Caps = {0, 2}
SPECIFICATION Spec
CHECK_DEADLOCK FALSE
INVARIANTS
    NamesAreVetted
    TransfersTrue
    CandidatesExact
    SubdomainsExact
