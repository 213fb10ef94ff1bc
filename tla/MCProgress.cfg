\* Two calls for one place, three attempts each; see MCProgress for the other parts.
CONSTANTS
    Callers = {c1, c2}
    Quota = 1
    MaxAttempts = 3
    Depth = 1
    c1 = c1  c2 = c2  d1 = d1  h1 = h1  h2 = h2  j1 = j1  p1 = p1
    i1 = i1  i2 = i2  nobody = nobody
    w1 = w1  r1 = r1  t1 = t1  name = name  public = public  private = private
SPECIFICATION ProgressSpec
CHECK_DEADLOCK FALSE
PROPERTIES
    ImplementsAtomic
    Settled
    CallsEnd
    EventuallyReady
