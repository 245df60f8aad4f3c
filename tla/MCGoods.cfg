SPECIFICATION Spec
CONSTANTS
  paper = paper
  ink = ink
  Goods = {paper, ink}
  Requested <- Asked
  Batches = {b1, b2}
  Handlers = {h1, h2}
  MaxDispatches = 2
CHECK_DEADLOCK FALSE
INVARIANTS
  GoodsAreAccountedFor
  CompletedIsDelivered
PROPERTIES
  DeliveryIsNoticed
