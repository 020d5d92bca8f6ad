\* A first word of several letters is killed.
SPECIFICATION CliSpec
CONSTANTS
    Nodes <- MCNodes
    Root = "root"
    Null = "null"
    Commands <- MCCommands
    Key <- MCKey
    Handlers <- MCHandlers
    Letters = {"a", "b"}
    LineSize = 7
    Unusual = {}
PROPERTY FirstWordsKilled
