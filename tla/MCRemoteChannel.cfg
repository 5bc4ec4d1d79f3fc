SPECIFICATION Spec
CONSTANTS
    Letters = {"l", "h"}
    Newline = "nl"
    Commands <- MCCommands
    Boot <- MCBoot
    Ping <- MCPing
    MaxLine = 2
    PacketBytes = 3
    Capacity = 2
    Overlong = Overlong
    MaxCmds = 2
    Wrap = 4
    None = None
CHECK_DEADLOCK FALSE
INVARIANTS TypeOK CopyIsOldest
PROPERTIES PingIsAnswered ImplementsChannel
