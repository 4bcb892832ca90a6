\* A pool of two proxies that is shorter than the budget, and two refarms.
CONSTANTS
  h1 = h1  h2 = h2  NoHandoff = NoHandoff
  Handoffs = {h1, h2}
  MaxRefarms = 2
  ProxyRetries = 3
  PoolSize = 2
  TransientRetries = 3
SPECIFICATION Spec
INVARIANTS TypeOK OneClientOpen HandoffInForce BoundIdentity BrowserIsLastResort RequestsBounded
