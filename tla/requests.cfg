SPECIFICATION Spec
CONSTANTS
  Requests = {1, 2}
  Middlewares = 2
  MaxEvents = 1
  MaxRetries = 1
  Cards <- SomeCards
INVARIANTS
  MiddlewareUnwinds
  WorkBehindMiddleware
  OneTaskPerCall
  ErrorsAgree
  FallsBack
CHECK_DEADLOCK FALSE
