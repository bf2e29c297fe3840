SPECIFICATION FairSpec
CONSTANTS
  a = a
  x = x
  f = f
  Source = {down, engine}
  Name = {a, x}
  Size = 12
  Text <- BalancedText
  File <- SelfFile
  Exec = x
  Lua = {}
  Engine = engine
  Console = down
  MaxDepth = 1
PROPERTIES
  QueueSpec
  BufferDrains
