SPECIFICATION Spec
CONSTANTS
    Hosts <- MCHosts
    DomainRules <- MCDomainRules
    Occurs <- MCOccurs
    W = 3
    Nets <- MCNets
    Builtins <- MCBuiltins
INVARIANTS
    DecisionIsModelB
    BuiltinsHold
PROPERTY
    DenyOnlyRestricts
