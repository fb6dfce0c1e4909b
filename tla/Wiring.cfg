CONSTANTS
  admin = admin
  site = site
  h = h
  g = g
  other = other
  Names = {admin, site, own}
  Own = own
  Hosts = {h, g}
  Middleware = authentik
  Others = {other}
  HostLength = 20
  PathLength = 15
  Labelled <- MCLabelled
  NoHost = nohost
  Unaudited = unaudited
  Nothing = nothing
SPECIFICATION WiringSpec
INVARIANTS
  WiringTypeOK
  CleanIsGated
  CallbackLands
  RenderedIsClean
PROPERTIES
  PasteKeepsGates
