SPECIFICATION Spec
CONSTANTS
  Users = {"bob"}
  Operator = "op"
  NameOf <- People
  NewNames <- OtherNames
  Rooms = {"general", "den"}
  DefaultRoom = "general"
  NoRoom = ""
  TextOf <- RoomTexts
  Sorted <- Alphabet
  Lines <- Hello
  LastDay = 2
  MaxEvents = 3
  MaxStarts = 2
  Inputs = {"chat", "switch", "leave", "crash", "mute", "rename", "announce",
            "shutdown"}
INVARIANTS TypeOK NothingUnlogged RestartKeepsHistory 
CHECK_DEADLOCK FALSE
