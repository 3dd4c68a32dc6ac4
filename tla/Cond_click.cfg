\* One popper and the three listeners of broadcast.go.
SPECIFICATION Spec
CONSTANTS
  Poppers = {"p1"}
  PerPopper = 2
  Listeners = {"l1", "l2", "l3"}
PROPERTY ListenersNotified
