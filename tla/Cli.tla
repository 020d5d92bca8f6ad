-------------------------------- MODULE Cli --------------------------------
(***************************************************************************)
(* The command line of src/utility/cli.c: the line editor over the console,*)
(* completion, and the search for the command that a line names, in a main *)
(* loop like that of examples/rf/cc3000/cli/main.c.  The terminal is what  *)
(* the user sees of the line after the prompt; it obeys BS, FF, CR, LF and *)
(* the two escape sequences the editor sends.                              *)
(*                                                                         *)
(* All of it runs in the main program, so one key is one step.             *)
(***************************************************************************)
EXTENDS Integers, FiniteSets, FiniteSetsExt, Sequences, SequencesExt

CONSTANTS Nodes,      \* the commands of all levels
          Root,       \* stands for the parent of the top level
          Null,       \* no command
          Commands,   \* the list of commands below each node and the root
          Key,        \* the key of each command
          Handlers,   \* the commands that have a handler
          Letters,
          LineSize,       \* BSP430_CLI_CONSOLE_BUFFER_SIZE
          Unusual     \* what the user does although the editor gets it wrong

\* cli.h: no key is a prefix of the key of a sibling.
ASSUME CliAssumption ==
    /\ Root \notin Nodes /\ Null \notin Nodes \union {Root}
    /\ Commands \in [Nodes \union {Root} -> Seq(Nodes)]
    /\ Key \in [Nodes -> Seq(Letters) \ {<< >>}]
    /\ \A p \in Nodes \union {Root} : \A c, d \in Range(Commands[p]) :
           c # d => ~IsPrefix(Key[c], Key[d])
    /\ \A c \in Nodes : Cardinality({p \in Nodes \union {Root} :
                                         c \in Range(Commands[p])}) = 1
    /\ Handlers \subseteq Nodes /\ LineSize \in Nat \ {0}
    /\ {" ", "["} \intersect Letters = {}
    /\ Unusual \subseteq {"empty", "full"}

VARIABLES line,      \* consoleBuffer_ up to cbEnd_
          screen,    \* the terminal's last line, up to the cursor
          loop,      \* what the main loop is about to do
          executed   \* what the last line was found to name

cliVars == <<line, screen, loop, executed>>

\* What separates tokens (isspace).
Blank == " "

\* The characters that ProcessInput stores.
LineChars == Letters \union {Blank, "["}

Prompt == <<">", Blank>>

-----------------------------------------------------------------------------
(* xBSP430cliNextToken, iBSP430cliMatchCommand, processSubcommand_.        *)

\* The first token, and what remains behind it.
NextToken(t) ==
    LET first == Min({i \in 1..Len(t) : t[i] # Blank} \union {Len(t) + 1})
        end == Min({i \in first..Len(t) : t[i] = Blank} \union {Len(t) + 1})
    IN  [key |-> SubSeq(t, first, end - 1), rest |-> SubSeq(t, end, Len(t))]

\* Mutant: the lengths are mixed up, a key matches whatever goes on from it.
MatchCommandAny(cmds, key) == {i \in DOMAIN cmds : IsPrefix(Key[cmds[i]], key)}

\* The places of the matches in a set of commands.
MatchCommand(cmds, key) == {i \in DOMAIN cmds : IsPrefix(key, Key[cmds[i]])}

\* The link that one call makes: the command set searched, the command found
\* in it if there is just one, the text behind it, and the text searched.
CommandLink(cmds, t) ==
    LET token == NextToken(t)
        matches == MatchCommand(cmds, token.key)
        found == token.key # << >> /\ Cardinality(matches) = 1
    IN  [set |-> cmds, cmd |-> IF found THEN cmds[CHOOSE i \in matches : TRUE] ELSE Null,
         args |-> IF found THEN token.rest ELSE t, text |-> t]

\* It calls itself while there are commands below and text left; else the
\* link is the last one.
NextLink(link) ==
    IF link.cmd # Null /\ Commands[link.cmd] # << >> /\ NextToken(link.args).key # << >>
    THEN CommandLink(Commands[link.cmd], link.args)
    ELSE link

\* The chain's last link.  Each call takes a token off the text, so that there
\* are no more of them than characters.
ProcessSubcommand(t) ==
    LET chain[n \in 0..Len(t)] ==
            IF n = 0 THEN CommandLink(Commands[Root], t) ELSE NextLink(chain[n - 1])
    IN  chain[Len(t)]

\* iBSP430cliExecuteCommand: the handler's command, or the diagnostic.
ExecuteCommand(t) ==
    LET link == ProcessSubcommand(t)
        key == NextToken(link.text).key
    IN  IF link.cmd \in Handlers THEN link.cmd
        ELSE IF link.cmd # Null
        THEN IF Commands[link.cmd] # << >> THEN "Missing" ELSE "Config"
        ELSE IF key # << >> /\ Cardinality(MatchCommand(link.set, key)) > 1
        THEN "MultiMatch" ELSE "Unrecognized"

-----------------------------------------------------------------------------
(* Completion: what is to be appended, and how many candidates there are.  *)

\* Mutant: the length stays that of the first candidate.
CompletionHelperCallbackFirst(cdp, key) ==
    IF cdp.candidates = << >>
    THEN [candidates |-> <<key>>, append_len |-> Len(key)]
    ELSE [candidates |-> Append(cdp.candidates, key), append_len |-> cdp.append_len]

\* The first candidate and the length up to which all others agree with it.
CompletionHelperCallback(cdp, key) ==
    IF cdp.candidates = << >>
    THEN [candidates |-> <<key>>, append_len |-> Len(key)]
    ELSE [candidates |-> Append(cdp.candidates, key),
          append_len |-> Max({n \in 0..Min({cdp.append_len, Len(key)}) :
                                 SubSeq(key, 1, n) = SubSeq(cdp.candidates[1], 1, n)})]

\* The callback is called for each match, as the search comes to it.
Candidates(cmds, key) ==
    LET cdp[n \in 0..Len(cmds)] ==
            IF n = 0 THEN [candidates |-> << >>, append_len |-> 0]
            ELSE IF n \in MatchCommand(cmds, key)
            THEN CompletionHelperCallback(cdp[n - 1], Key[cmds[n]])
            ELSE cdp[n - 1]
    IN  cdp[Len(cmds)]

\* doCompletion_: a word that names one command is finished and followed by a
\* space; otherwise the candidates are looked for among the commands of the
\* last set, or below the command.
Completion(t) ==
    LET link == ProcessSubcommand(t)
        cmds == IF link.cmd = Null THEN link.set ELSE Commands[link.cmd]
        key == NextToken(link.args).key
        cdp == Candidates(cmds, key)
    IN  IF link.cmd # Null /\ link.args = << >>
        THEN [append |-> SubSeq(Key[link.cmd], Len(NextToken(link.text).key) + 1,
                                Len(Key[link.cmd])) \o <<Blank>>,
              candidates |-> 1]
        ELSE [append |-> IF Len(key) < cdp.append_len
                         THEN SubSeq(cdp.candidates[1], Len(key) + 1, cdp.append_len)
                              \o (IF Len(cdp.candidates) = 1 THEN <<Blank>> ELSE << >>)
                         ELSE << >>,
              candidates |-> Len(cdp.candidates)]

-----------------------------------------------------------------------------
(* The terminal.                                                           *)

\* "\e[nD\e[K".  A terminal takes a count of zero for one, and stops at the
\* left margin.
EraseLeft(n) == SubSeq(screen, 1, Max({0, Len(screen) - Max({n, 1})}))

-----------------------------------------------------------------------------
(* iBSP430cliConsoleBufferProcessInput, by the key that cgetchar returns.  *)

Backspace ==
    /\ line' = IF line = << >> THEN line ELSE Front(line)
    /\ screen' = IF line = << >> THEN screen ELSE Front(screen)

\* On an empty line it erases a part of the prompt.
KillLine ==
    /\ line # << >> \/ "empty" \in Unusual
    /\ screen' = EraseLeft(Len(line))
    /\ line' = << >>

\* Mutant: the spaces behind the word are not skipped.
KeptLengthStopsAtSpace ==
    Max({0} \union {k \in 1..(Len(line) - 1) : line[k + 1] = Blank}) + 1

\* What stays before kp.  Both loops decrement first and stop at the start of
\* the buffer, so that a long first word keeps its first letter.
KeptLength ==
    LET last == Max({0} \union {k \in 1..(Len(line) - 1) : line[k + 1] # Blank})
    IN  IF last = 0 THEN 0
        ELSE Max({0} \union {k \in 1..(last - 1) : line[k + 1] = Blank}) + 1

\* On an empty line cbEnd_ would be set before the buffer.
KillWord ==
    /\ line # << >>
    /\ screen' = EraseLeft(Len(line) - KeptLength)
    /\ line' = SubSeq(line, 1, KeptLength)

\* A full buffer rings the bell.
Insert(c) ==
    /\ line' = IF Len(line) + 1 >= LineSize THEN line ELSE Append(line, c)
    /\ screen' = IF Len(line) + 1 >= LineSize THEN screen ELSE Append(screen, c)

Edit ==
    /\ loop = "input"
    /\ Backspace \/ KillLine \/ KillWord \/ \E c \in LineChars : Insert(c)
    /\ UNCHANGED <<loop, executed>>

\* Completion would append more than there is room for.
Overfills == Len(line) + Len(Completion(line).append) >= LineSize

\* The keys that make it return, with what the main loop does next.
Return == [HT |-> "complete", ESC |-> "escape", FF |-> "repaint", CR |-> "ready"]

ProcessInputReturns ==
    /\ loop = "input"
    /\ \E key \in DOMAIN Return :
           /\ key = "HT" /\ Overfills => "full" \in Unusual
           /\ loop' = Return[key]
           /\ screen' = IF key \in {"FF", "CR"} THEN << >> ELSE screen
    /\ UNCHANGED <<line, executed>>

\* iBSP430cliConsoleBufferConsumeEscape: an escape sequence ends with a
\* letter, a control sequence after "[" too.  Other keys are discarded.
ConsumeEscape ==
    \/ loop = "escape" /\ loop' \in {"csi", "input"}
       /\ UNCHANGED <<line, screen, executed>>
    \/ loop = "csi" /\ loop' = "input"
       /\ UNCHANGED <<line, screen, executed>>

-----------------------------------------------------------------------------
(* The main loop.                                                          *)

\* iBSP430cliConsoleBufferExtend
Extended(text) == line \o SubSeq(text, 1, Min({Len(text), LineSize - 1 - Len(line)}))

\* iBSP430cliConsoleBufferCompletion writes the end of the line, as long as
\* what was to be appended, or the candidates on lines of their own.
Complete ==
    LET done == Completion(line) IN
    /\ loop = "complete"
    /\ line' = Extended(done.append)
    /\ IF done.append = << >> /\ done.candidates > 0
       THEN screen' = << >> /\ loop' = "repaint"
       ELSE /\ screen' = screen \o SubSeq(line', Max({0, Len(line') - Len(done.append)}) + 1,
                                          Len(line'))
            /\ loop' = "input"
    /\ UNCHANGED executed

Repaint ==
    /\ loop = "repaint"
    /\ screen' = Prompt \o line
    /\ loop' = "input"
    /\ UNCHANGED <<line, executed>>

\* Mutant: the command is not cleared.
CommandReadyKeepsLine ==
    /\ loop = "ready"
    /\ executed' = ExecuteCommand(line)
    /\ screen' = Prompt
    /\ loop' = "input"
    /\ UNCHANGED line

\* The command is executed, the prompt written without it, the buffer cleared.
CommandReady ==
    /\ loop = "ready"
    /\ executed' = ExecuteCommand(line)
    /\ line' = << >>
    /\ screen' = Prompt
    /\ loop' = "input"

CliInit == line = << >> /\ screen = << >> /\ loop = "repaint" /\ executed = Null

CliNext ==
    \/ Edit \/ ProcessInputReturns \/ ConsumeEscape
    \/ Complete \/ Repaint \/ CommandReady

CliSpec == CliInit /\ [][CliNext]_cliVars

-----------------------------------------------------------------------------
(* What the user means by a line, without the order of the code's search.  *)

\* The words of a text.
Words(t) ==
    LET starts == {i \in 1..Len(t) : t[i] # Blank /\ (i = 1 \/ t[i - 1] = Blank)}
        end(i) == Min({j \in i..Len(t) : t[j] = Blank} \union {Len(t) + 1}) - 1
        s == SetToSortSeq(starts, <)
    IN  [k \in DOMAIN s |-> SubSeq(t, s[k], end(s[k]))]

\* The words, and the one that is about to be begun.
Typed(t) == IF t = << >> \/ Last(t) = Blank THEN Append(Words(t), << >>) ELSE Words(t)

\* The way to a command from the top.
Path[c \in Nodes] ==
    LET parent == CHOOSE p \in Nodes \union {Root} : c \in Range(Commands[p])
    IN  IF parent = Root THEN <<c>> ELSE Append(Path[parent], c)

Abbreviates(words, path) ==
    \A i \in DOMAIN words \intersect DOMAIN path : IsPrefix(words[i], Key[path[i]])

\* The commands that can be meant when the words go on.
Possible(t) ==
    {c \in Nodes : Len(Typed(t)) <= Len(Path[c]) /\ Abbreviates(Typed(t), Path[c])}

\* The commands that the words, or the first of them, can name.
Named(t) ==
    {c \in Nodes : Len(Path[c]) <= Len(Words(t)) /\ Abbreviates(Words(t), Path[c])}

\* What the user sees behind the prompt is what is in the buffer, after any
\* edits, completions, full buffers, escape sequences and commands.
ScreenShowsLine ==
    loop \in {"input", "escape", "csi", "complete"} => screen = Prompt \o line

\* Where the previous word begins, as cli.h describes the key.
WordStart ==
    LET end == Max({0} \union {i \in 1..Len(line) : line[i] # Blank})
    IN  Max({0} \union {i \in 1..end : line[i] = Blank})

\* The first word is the previous one, and longer than a letter.
LongFirstWord == WordStart = 0 /\ \E i \in 2..Len(line) : line[i] # Blank

\* Killing a word erases the spaces at the end and the last word, no less, but
\* for a first word of several letters.
WordsKilled ==
    [][Edit /\ KillWord /\ ~LongFirstWord => line' = SubSeq(line, 1, WordStart)]_cliVars

\* cli.h says of the key that it "erases back to space".  Of a first word of
\* several letters one is left.
FirstWordsKilled == [][Edit /\ KillWord /\ LongFirstWord => line' = << >>]_cliVars

\* The text that it appends belongs to a word with others behind it.
CompletesEarlierWord ==
    LET link == ProcessSubcommand(line)
        token == NextToken(link.text)
    IN  link.cmd = Null /\ token.rest # << >>
            /\ Cardinality(MatchCommand(link.set, token.key)) > 1

\* Completion appends what all the commands have in common that can be meant,
\* no less and no more, and a space if there is one command on that level; it
\* never changes what can be meant, and leaves alone a line that means nothing.
\* Left out is what it does after an earlier word that is ambiguous.
CompletionRight ==
    [][loop = "complete" /\ ~CompletesEarlierWord =>
           LET whole == IF line' # line /\ Last(line') = Blank THEN Front(line') ELSE line'
               next == {c \in Possible(line) : Len(Path[c]) = Len(Typed(line))}
           IN  /\ IsPrefix(line, line')
               /\ Possible(line) = {} => line' = line
               /\ Possible(whole) = Possible(line)
               /\ Possible(line) # {} =>
                      /\ \A x \in Letters : Possible(Append(whole, x)) # Possible(line)
                      /\ whole # line' <=> Cardinality(next) = 1]_cliVars

\* cli.h says that completion "identifies text that would unambiguously extend
\* the command".  After an ambiguous word with others behind it, the text does
\* not extend the command, and the line means something else or nothing.
CompletionExtends ==
    [][loop = "complete" /\ CompletesEarlierWord => Possible(line') = Possible(line)]_cliVars

\* A line executes a command exactly if its words name that command and the
\* commands above it, no other, and no word is left over that should have
\* named one below it.
ExecutesNamed ==
    [][loop = "ready" =>
           \A c \in Nodes : executed' = c <=>
               /\ Named(line) = Range(Path[c])
               /\ c \in Handlers
               /\ Commands[c] # << >> => Len(Words(line)) = Len(Path[c])]_cliVars

=============================================================================
