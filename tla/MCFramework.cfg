SPECIFICATION Spec
CONSTANTS
    Fds = {fd1}
    Files = {plugin}
    SharedObjects = {plugin}
    Loadable = {plugin}
    MaxChanges = 3
    MaxTasks = 1
INVARIANTS
    PluginsMapped
    MonitorSurvives
PROPERTIES
    PluginsGetLoaded
    StopReturns
CHECK_DEADLOCK FALSE
