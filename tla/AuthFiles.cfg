CONSTANTS
    va = va
    vb = vb
    ha = ha
    Vaults = {va, vb}
    HostOf <- OneHost
    Conf = Conf
    Contents <- SomeContents
    Profiles <- SomeProfiles
    Surroundings <- SomeSurroundings
    MaxEdits = 2
    Absent = Absent
    Broken = Broken
    None = None
SPECIFICATION Spec
INVARIANTS TypeOK TokenIsOwn
PROPERTIES AsDocumented OnlyUpwards
