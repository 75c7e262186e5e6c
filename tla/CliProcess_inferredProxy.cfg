SPECIFICATION Spec
CONSTANTS
    NoCommand = NoCommand
    Null = Null
    Missing = Missing
    Malformed = Malformed
    Absent = Absent
    NotFound = NotFound
    NoConfig = NoConfig
    NoSdk = NoSdk
    EnvProxy = {Null, "envProxy"}
    Lines <- SomeLines
    Projects <- SomeProjects
    Machines <- SomeMachines
    Logs <- SomeLogs
INVARIANTS InferredProxyPersists
