SPECIFICATION SettingsSpec
CONSTANTS Unset = Unset
          False = False
          Null = Null
          EnvModules = {}
          ModuleNames = {m}
          MaxLoggers = 1
          MaxPatches = 3
INVARIANT ProfilingToggles
CHECK_DEADLOCK FALSE
