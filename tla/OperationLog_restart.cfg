SPECIFICATION Spec
CONSTANTS
    Ops = {o1}
    Twice = {}
    MaxFaults = 1
PROPERTY RecoveryRestartable
