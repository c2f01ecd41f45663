SPECIFICATION LiveSpec
CONSTANTS
  Worker = {w1, w2, w3}
  NoWorker = NoWorker
  MaxTasks = 4
INVARIANTS TypeOK WorkConserving DrainedWhenJoined StatsAddUp
PROPERTY WorkEnds
