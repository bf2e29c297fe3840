SPECIFICATION ConsoleSpec
CONSTANTS
  a = a
  x = x
  f = f
  Source = {engine, console}
  Name = {a, x, f}
  Size = 9
  Text <- WildText
  File <- SelfFile
  Exec = x
  Lua = {f}
  Engine = engine
  Console = console
  MaxDepth = 2
  Pool = {p1, p2}
  Block = {b1, b2, b3}
  Bytes = {1, 2}
  Limit = {0, 3}
  FileName = {config}
  Saved = {config}
  Content = {v1}
  Slot = {f1, f2}
  Desc = {fd1, fd2, fd3}
  Letter = {"s"}
  Rest = {0, 1, 2}
  MaxNames = 3
  Number <- MCNumber
  Volume <- MCVolume
  LoLimit = 0
  HiLimit = 1
  Key = {"enter", "backquote"}
  ENTER = "enter"
  BACKQUOTE = "backquote"
  Binding = {t1, t2}
  MaxEvents = 3
  MainReturns = {0, 1, 2}
  MaxFrames = 3
  MaxLeft = 2
  MaxLen = 6
  MaxText = 5
  MaxTokens = 3
  TokLen = 5
  Rank = {0, 1, 2}
  Side = {0, 1, 2}
  ModeList <- MCModes
  NONE = NONE
  Ent = {e1}
  JUNK = JUNK
INVARIANTS
  ScansSafe
  TokensRight
  TablesKept
  ListKept
  KeysReleased
  CallsRight
  PointerKept
PROPERTIES
  IsHeap
  ReadsSaved
