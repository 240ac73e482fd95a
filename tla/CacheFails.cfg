SPECIFICATION LocationsSpec
CONSTANTS
  ObjectId = {o1}
  NoObject = NoObject
  NetHost = {h1, h2, h3}
  Reader = {f1}
  Shards = 2
  MinShards = 2
  MaxMove = 1
  MaxRefusal = 1
INVARIANT CacheCostsNoAnswer
