SPECIFICATION Spec
CONSTANTS
  ns = ns
  auth = auth
  shop = shop
  app = app
  web = web
  mysql = mysql
  get = get
  post = post
  publish = publish
  select = select
  NoAttr = NoAttr
  Segment <- MCSegment
  Digits = {"7", "8"}
  Placeholders = {"{n}", ":id"}
  Template = "{n}"
  Unescape <- MCUnescape
  Malformed = {"100%"}
  Emitter <- MCEmitter
  Rel <- MCRel
  Label <- MCLabel
  Link <- MCLink
  Requests <- MCRequests
  Resources <- MCResources
  Datapoints <- MCPoints
  UnknownType = "none"
  MetricTypes = {"gauge", "sum", "histogram", "exponential histogram", "summary"}
INVARIANTS
  TypeOK
  DerivesEachAlone
  CallerMeetsCallee
  NumbersCollapse
CHECK_DEADLOCK FALSE
