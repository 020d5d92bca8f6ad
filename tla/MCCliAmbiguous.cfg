\* Completion after a word that names several commands and is not the last.
SPECIFICATION CliSpec
CONSTANTS
    Nodes <- MCNodes
    Root = "root"
    Null = "null"
    Commands <- MCCommands
    Key <- MCKey
    Handlers <- MCHandlers
    Letters = {"a", "b"}
    LineSize = 7
    Unusual = {}
PROPERTY CompletionExtends
