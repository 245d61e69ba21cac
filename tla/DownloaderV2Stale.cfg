\* As DownloaderV2.cfg, one fault: the server forgets the session.
CONSTANTS
  N = 3
  Detailed = {1, 3}
  PageSize = 2
  MaxItems = 2
  MaxFaults = 1
SPECIFICATION FairSpec
PROPERTIES
  Reauthenticates
