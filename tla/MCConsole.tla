----------------------------- MODULE MCConsole ------------------------------
(* Small instances of modules that share no variable, side by side: the    *)
(* initial states choose the one that moves, and what a part may start     *)
(* from is chosen for that part alone.                                     *)
EXTENDS MCCmdBuf, Pools, Files, Tables, Lists, Tokens, Input, LuaStack, Window

VARIABLE part

Parts == {"cmdbuf", "pools", "files", "tables", "input", "stack", "lists", "tokens", "window"}

ConsoleInit ==
  /\ part \in Parts
  /\ ListsInit
  /\ part # "lists" => tie = 0 /\ many = 0
  /\ TokensInit
  /\ part # "tokens" => text = <<>>
  /\ WindowInit
  /\ part # "window" => rmode = <<>> /\ custom = <<0, 0>> /\ rfull = FALSE /\ nograb = FALSE
  /\ Init /\ PoolsInit /\ TablesInit /\ InputInit /\ StackInit
  /\ FilesInit
  /\ part # "files" => paths = 2 /\ \A i \in 1..4, n \in FileName: disk[i][n] = "none"

ConsoleNext ==
  /\ UNCHANGED part
  /\ \/ part = "cmdbuf" /\ Next
        /\ UNCHANGED <<poolsVars, filesVars, tablesVars, inputVars, stackVars, listsVars, tokensVars, windowVars>>
     \/ part = "pools" /\ PoolsNext
        /\ UNCHANGED <<vars, filesVars, tablesVars, inputVars, stackVars, listsVars, tokensVars, windowVars>>
     \/ part = "files" /\ FilesNext
        /\ UNCHANGED <<vars, poolsVars, tablesVars, inputVars, stackVars, listsVars, tokensVars, windowVars>>
     \/ part = "tables" /\ TablesNext
        /\ UNCHANGED <<vars, poolsVars, filesVars, inputVars, stackVars, listsVars, tokensVars, windowVars>>
     \/ part = "input" /\ InputNext
        /\ UNCHANGED <<vars, poolsVars, filesVars, tablesVars, stackVars, listsVars, tokensVars, windowVars>>
     \/ part = "stack" /\ StackNext
        /\ UNCHANGED <<vars, poolsVars, filesVars, tablesVars, inputVars, listsVars, tokensVars, windowVars>>
     \/ part = "lists" /\ ListsNext
        /\ UNCHANGED <<vars, poolsVars, filesVars, tablesVars, inputVars, stackVars, tokensVars, windowVars>>
     \/ part = "tokens" /\ TokensNext
        /\ UNCHANGED <<vars, poolsVars, filesVars, tablesVars, inputVars, stackVars, listsVars, windowVars>>
     \/ part = "window" /\ WindowNext
        /\ UNCHANGED <<vars, poolsVars, filesVars, tablesVars, inputVars, stackVars, listsVars, tokensVars>>

ConsoleSpec ==
  ConsoleInit /\
  [][ConsoleNext]_<<vars, poolsVars, filesVars, tablesVars, inputVars, stackVars, listsVars, tokensVars, windowVars,
                    part>>

MCVolume == <<"s", 1>>
MCNumber == {-1, 0, 1, 2}

MCModes == {<<>>, <<<<2, 1>>, <<1, 2>>>>}
=============================================================================
