CONSTANTS
  MaxTasks = 5
  Boot = Boot
  None = None
SPECIFICATION Spec
\* After a switch the CPU either loops inside switch or jumps into a
\* fresh task's stack, both with IF clear and IRQ0 in service: no tick
\* follows, so these states have no successor.
CHECK_DEADLOCK FALSE
INVARIANT HandlerNeverSpins
