\* Two containers under the schedule and one request, a release and a failure; every
\* listing of at most two tags.
SPECIFICATION BothLiveSpec
CONSTANTS
  app = app
  web = web
  Containers = {app, web}
  Repo <- RepoOf
  StartTag <- StartOf
  AdminActions = {"update", "upgrade", "stop"}
  MaxAdmin = 1
  MaxPublished = 1
  MaxFaults = 1
  Tags <- FewTags
  MaxTags = 2
INVARIANTS  VerdictSound 
 
CHECK_DEADLOCK FALSE
