SPECIFICATION Spec
CONSTANTS
  a = a
  b = b
  preview = preview
  original = original
  Devices = {a, b}
  Blobs = {preview, original}
  Owner <- MCOwner
  Previews = {preview}
  Settings <- MCSettings
  MaxConns = 2
  MaxSwitches <- MCMaxSwitches
  MaxRestarts = 1
  None = None
INVARIANTS IntentsCurrent WantsFollowEntries NoneForgotten
PROPERTIES NoUnwantedDownload
CHECK_DEADLOCK FALSE
