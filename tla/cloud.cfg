CONSTANTS
    MaxInstances = 2
    MaxCrashes = 1
SPECIFICATION CloudSpec
INVARIANTS
    CleanLeavesNothing
    CleanThenSetupDeploys
    DeployedIsRecorded
    InstalledAtItsAddress
    ProvisionedUnlessLate
    InstalledUnlessMissed
PROPERTIES
    RestartsChangeNothing
    KeptSiteServes
