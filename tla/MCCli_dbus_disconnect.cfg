SPECIFICATION FairSpec
CONSTANTS
  c1 = c1
  c2 = c2
  c3 = c3
  s1 = s1
  s2 = s2
  Clients <- MCClients
  Servers <- MCServers
  Profile <- MCProfile
  None = None
  ConnectMode = "DBUS"
PROPERTIES
  TornDownIsNoticed
