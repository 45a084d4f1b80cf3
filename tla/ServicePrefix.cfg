SPECIFICATION Spec
CONSTANTS
    Tree = {system, prefix}
    System = system
    MaxJobs = 3
PROPERTY PrefixLeavesSystem
