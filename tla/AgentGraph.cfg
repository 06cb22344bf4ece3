SPECIFICATION Spec
CONSTANTS
    HostNodes <- TwoHosts
    Rules <- HostRules
    Namespaces <- OneNamespace
    Fragments <- AllFragments
    StrayExits <- NoExits
    MaxParts = 3
    MaxMounts = 1
INVARIANTS NeverLost NoTrap
CHECK_DEADLOCK FALSE
