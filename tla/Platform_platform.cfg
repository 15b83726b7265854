SPECIFICATION PlatformSpec
CONSTANTS
  Configs = {"db"}
  Labels = {"prod", "plan"}
  NamespaceOf <- MCNamespaceOf
  NamespaceLabels <- MCNamespaceLabels
  Scenes <- MCScenes
  Benches <- MCBenches
  ProviderSpecs <- MCProviderSpecs
  SecretStates <- MCSecretStates
  Clouds <- MCClouds
  SanitizeName <- MCSanitizeName
  MaxJobs = 2
  Settings <- MCSettings
  Fleet = {"a", "b", "c"}
  Threshold = 40
  Manners <- MCManners
  CrdNames = {"configurations", "policies"}
  MaxOutages = 2
  Rollouts <- MCRollouts
INVARIANTS DefaultsEnforced DefaultsHeld PolicyDecided VerdictHolds CodeAgrees PreloadOnce ServingComplete
PROPERTIES Deletable ProviderSettles ContextStable ShareKept DriftNotForgotten ServerSettles
CHECK_DEADLOCK FALSE
