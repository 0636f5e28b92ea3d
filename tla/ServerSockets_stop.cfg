\* Two connections and two sockets of other parts compete for five numbers;
\* stop may be called at any time.
CONSTANTS
  c1 = c1
  c2 = c2
  o1 = o1
  o2 = o2
  MaxFd = 5
  Conns <- MCConns
  Others <- MCOthers
  Free = Free
  Listener = Listener
SPECIFICATION Spec
SYMMETRY Interchangeable
INVARIANTS TypeOK OwnNumbers NoLeak ListenerClosed AcceptWoken
