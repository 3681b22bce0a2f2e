SPECIFICATION DownloadsSpec
CONSTANTS
  o1 = o1
  o2 = o2
  friendsA = friendsA
  friendsB = friendsB
  twice = twice
  garbage = garbage
  ann = ann
  bob = bob
  cy = cy
  NoData = NoData
  NoClient = NoClient
  Ops <- MCOps
  Clients <- MCOps
  Bodies <- MCBodies
  Ids <- MCIds
  Items <- MCItems
  Cancellable <- MCCancellable
  u1 = u1
  u2 = u2
  u3 = u3
  n12 = n12
  n3 = n3
  r1 = r1
  l1 = l1
  l2 = l2
  NoImage = NoImage
  Idle = Idle
  Urls <- MCUrls
  Names <- MCNames
  FileName <- MCFileName
  Rows <- MCRows
  Loads <- MCLoads
  MaxQueue = 1
INVARIANTS
  StoreIsOneReply
  ThrowsOnlyOnRepeat
  OnlyNamesakes
  ReloadFindsPicture
PROPERTIES
  CommitsDeliveredReply
  SaveEnds
  DownloadArrives
