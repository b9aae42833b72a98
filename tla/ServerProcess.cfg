\* Two requests compete for one place, and a client may stall, end, overrun a limit of two
\* chunks or disconnect anywhere, while the server stops.
CONSTANTS
  Handlers = {h1, h2}
  Places = 1
  Limit = 2
SPECIFICATION ProcessSpec
INVARIANTS
  SocketInv
  UploadInv
  DeadlineCoversBody
PROPERTIES
  SlotIsReleased
  PlacesReturn
  ServerExits
