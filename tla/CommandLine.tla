---------------------------- MODULE CommandLine -----------------------------
(***************************************************************************)
(* From a line to commands, in AdvMysh: parse_command cuts the line into   *)
(* words, findAmpersand takes a last "&" off, resolve_path puts the first  *)
(* directory of PATH that has the file before a command's name, doPipeExec *)
(* copies the words before and after the first "|", and all words are      *)
(* freed.  The lines are those whose first word is no builtin: builtins,   *)
(* found after findAmpersand, are in Mysh.  PATH is set.                   *)
(* Indices begin with 1 here and with 0 in the code.                       *)
(***************************************************************************)
EXTENDS Integers, Sequences, SequencesExt

CONSTANTS
  Chars,    \* the characters there are, as strings
  Lines,    \* the lines read, without their newline
  Paths,    \* the values of PATH
  FileSets  \* the sets of files there may be, by their full names

Quote == "quote"
Space == " "
Amp == <<"&">>
Bar == <<"|">>

\* An empty line is replaced by a word before it is parsed.
ASSUME LinesAssumption ==
  /\ {Quote, Space, "&", "|", ":", "/"} \subseteq Chars
  /\ \A l \in Lines : l \in Seq(Chars) /\ l # <<>>
  /\ \A p \in Paths : p \in Seq(Chars)

VARIABLES
  line, PATH, files,   \* the input of a round, constant
  pc,          \* the code that runs
  inputIndex, spaceFlag,
  buffer,      \* the characters before charIndex
  argv, argc,  \* argv without the NULLs behind the last word
  findAmp,     \* whether it is -1 or not
  argv1, argv2,
  parsedPath,  \* the entries; the last is being written, if pc is "path"
  pathIndex,   \* nonParsedPointer, then the entry looked at
  heap         \* the words allocated and not freed

input == <<line, PATH, files>>
parseVars == <<inputIndex, spaceFlag, buffer>>
pathVars == <<parsedPath, pathIndex>>
pipeVars == <<argv1, argv2>>
vars == <<input, pc, parseVars, argv, argc, findAmp, pipeVars, pathVars, heap>>

Init ==
  /\ line \in Lines /\ PATH \in Paths /\ files \in FileSets
  /\ pc = "parse"
  /\ inputIndex = 1 /\ spaceFlag = 1 /\ buffer = <<>>
  /\ argv = <<>> /\ argc = 0 /\ findAmp = FALSE
  /\ argv1 = <<>> /\ argv2 = <<>>
  /\ parsedPath = <<>> /\ pathIndex = 1
  /\ heap = {}

-----------------------------------------------------------------------------
(* parse_command                                                           *)

AtEnd(i) == i > Len(line)

\* arg[stringIndex++] = a copy of the buffer.
PushWord(w) ==
  /\ argv' = Append(argv, w)
  /\ argc' = argc + 1
  /\ heap' = heap \cup {<<"argv", argc + 1>>}

Reads(c) == pc = "parse" /\ ~AtEnd(inputIndex) /\ line[inputIndex] = c

\* What the buffer holds of an unfinished word stays in it.
OpenQuote ==
  /\ Reads(Quote)
  /\ pc' = "quote"
  /\ inputIndex' = inputIndex + 1
  /\ UNCHANGED <<input, spaceFlag, buffer, argv, argc, findAmp, pipeVars, pathVars, heap>>

QuotedChar ==
  /\ pc = "quote" /\ ~AtEnd(inputIndex) /\ line[inputIndex] # Quote
  /\ buffer' = Append(buffer, line[inputIndex])
  /\ inputIndex' = inputIndex + 1
  /\ UNCHANGED <<input, pc, spaceFlag, argv, argc, findAmp, pipeVars, pathVars, heap>>

\* No closing quote: the loop reads on behind the line, where anything may be.
Overrun ==
  /\ pc = "quote" /\ AtEnd(inputIndex)
  /\ pc' = "undefined"
  /\ UNCHANGED <<input, parseVars, argv, argc, findAmp, pipeVars, pathVars, heap>>

CloseQuote ==
  /\ pc = "quote" /\ ~AtEnd(inputIndex) /\ line[inputIndex] = Quote
  /\ PushWord(buffer)
  /\ buffer' = <<>>
  /\ inputIndex' = inputIndex + 1
  /\ pc' = "parse"
  /\ UNCHANGED <<input, spaceFlag, findAmp, pipeVars, pathVars>>

SkipSpace ==
  /\ Reads(Space) /\ spaceFlag = 1
  /\ inputIndex' = inputIndex + 1
  /\ UNCHANGED <<input, pc, spaceFlag, buffer, argv, argc, findAmp, pipeVars, pathVars, heap>>

\* Fault: spaceFlag is not set again.
KeepsSpaceFlag ==
  /\ Reads(Space) /\ spaceFlag # 1
  /\ PushWord(buffer)
  /\ buffer' = <<>>
  /\ inputIndex' = inputIndex + 1
  /\ UNCHANGED <<input, pc, spaceFlag, findAmp, pipeVars, pathVars>>

EndWord ==
  /\ Reads(Space) /\ spaceFlag # 1
  /\ spaceFlag' = 1
  /\ PushWord(buffer)
  /\ buffer' = <<>>
  /\ inputIndex' = inputIndex + 1
  /\ UNCHANGED <<input, pc, findAmp, pipeVars, pathVars>>

\* Any other character; the last of the line ends a word.
OrdinaryChar ==
  /\ \E c \in ToSet(line) \ {Quote, Space} : Reads(c)
  /\ spaceFlag' = 0
  /\ buffer' = Append(buffer, line[inputIndex])
  /\ inputIndex' = inputIndex + 1
  /\ IF AtEnd(inputIndex + 1) THEN PushWord(buffer') ELSE UNCHANGED <<argv, argc, heap>>
  /\ UNCHANGED <<input, pc, findAmp, pipeVars, pathVars>>

\* The loop ends, and argv[0] is compared with "exit": undefined for NULL.
Parsed ==
  /\ pc = "parse" /\ AtEnd(inputIndex)
  /\ pc' = IF argv = <<>> THEN "null" ELSE "ampersand"
  /\ UNCHANGED <<input, parseVars, argv, argc, findAmp, pipeVars, pathVars, heap>>

-----------------------------------------------------------------------------
(* findAmpersand, and fetch_command, which reads argv[0]                   *)

Fetch == pc' = IF argv' = <<>> THEN "null" ELSE "path"

NoAmpersand ==
  /\ pc = "ampersand"
  /\ Last(argv) # Amp
  /\ UNCHANGED <<input, parseVars, argv, argc, findAmp, pipeVars, pathVars, heap>>
  /\ Fetch

\* Fault: the slot still points to the word freed.
FreesAmpersandOnly ==
  /\ pc = "ampersand"
  /\ Last(argv) = Amp
  /\ heap' = heap \ {<<"argv", Len(argv)>>}
  /\ findAmp' = TRUE
  /\ UNCHANGED <<input, parseVars, argv, argc, pipeVars, pathVars>>
  /\ Fetch

TakeAmpersand ==
  /\ pc = "ampersand"
  /\ Last(argv) = Amp
  /\ heap' = heap \ {<<"argv", Len(argv)>>}
  /\ argv' = Front(argv)
  /\ argc' = argc - 1
  /\ findAmp' = TRUE
  /\ Fetch
  /\ UNCHANGED <<input, parseVars, pipeVars, pathVars>>

-----------------------------------------------------------------------------
(* resolve_path, of argv[0] and, in a pipe, of argv2[0]                    *)

\* The entry being written, with c behind it.
Extended(c) == Append(Front(parsedPath), Append(Last(parsedPath), c))

\* The parse ends with PATH, but looks only behind a character it has taken.
PathGoesOn ==
  /\ pathIndex' = IF pathIndex = Len(PATH) THEN 1 ELSE pathIndex + 1
  /\ pc' = IF pathIndex = Len(PATH) THEN "search" ELSE "entry"
  /\ UNCHANGED <<input, parseVars, argv, argc, findAmp, pipeVars, heap>>

PathBegins ==
  /\ pc = "path"
  /\ parsedPath' = << <<>> >>
  /\ pathIndex' = 1
  /\ pc' = IF PATH = <<>> THEN "undefined" ELSE "entry"
  /\ UNCHANGED <<input, parseVars, argv, argc, findAmp, pipeVars, heap>>

\* Fault: the last entry is not ended when PATH ends with a colon.
ColonAtEndIgnored ==
  /\ pc = "entry" /\ PATH[pathIndex] = ":"
  /\ parsedPath' = IF pathIndex = Len(PATH) THEN parsedPath ELSE Append(parsedPath, <<>>)
  /\ PathGoesOn

Colon ==
  /\ pc = "entry" /\ PATH[pathIndex] = ":"
  /\ parsedPath' = Append(parsedPath, <<>>)
  /\ PathGoesOn

EntryChar ==
  /\ pc = "entry" /\ PATH[pathIndex] # ":"
  /\ parsedPath' = Extended(PATH[pathIndex])
  /\ PathGoesOn

\* The name that is resolved, and what comes after it.
InPipe == argv2 # <<>>
Name == IF InPipe THEN argv2[1] ELSE argv[1]
AfterSearch == IF InPipe THEN "run" ELSE "pipe"

FullName == parsedPath[pathIndex] \o <<"/">> \o Name

Found ==
  /\ pc = "search" /\ FullName \in files
  /\ IF InPipe THEN argv2' = [argv2 EXCEPT ![1] = FullName] /\ UNCHANGED argv
               ELSE argv' = [argv EXCEPT ![1] = FullName] /\ UNCHANGED argv2
  /\ pc' = AfterSearch
  /\ UNCHANGED <<input, parseVars, argc, findAmp, argv1, pathVars, heap>>

NotHere ==
  /\ pc = "search" /\ FullName \notin files
  /\ pathIndex' = pathIndex + 1
  /\ pc' = IF pathIndex = Len(parsedPath) THEN AfterSearch ELSE "search"
  /\ UNCHANGED <<input, parseVars, argv, argc, findAmp, pipeVars, parsedPath, heap>>

-----------------------------------------------------------------------------
(* The search for "|", and doPipeExec                                      *)

\* Fault: the loop does not stop at the first "|".
IsLastBar(i) == argv[i] = Bar /\ \A j \in i + 1 .. Len(argv) : argv[j] # Bar

\* pipeFlag: the first "|" among the words.
IsFirstBar(i) == argv[i] = Bar /\ \A j \in 1 .. i - 1 : argv[j] # Bar

\* No "|", or one as first word, which pipeFlag = 0 cannot tell from none.
NoPipe ==
  /\ pc = "pipe"
  /\ \A i \in 2 .. Len(argv) : ~IsFirstBar(i)
  /\ pc' = "run"
  /\ UNCHANGED <<input, parseVars, argv, argc, findAmp, pipeVars, pathVars, heap>>

\* Fault: the second command begins with the bar.
CopyFromBar ==
  /\ pc = "pipe"
  /\ \E i \in 2 .. Len(argv) :
       /\ IsFirstBar(i)
       /\ argv1' = SubSeq(argv, 1, i - 1)
       /\ argv2' = SubSeq(argv, i, Len(argv))
  /\ heap' = heap \cup {<<"argv1", i>> : i \in DOMAIN argv1'} \cup {<<"argv2", i>> : i \in DOMAIN argv2'}
  /\ pc' = "path"
  /\ UNCHANGED <<input, parseVars, argv, argc, findAmp, pathVars>>

\* Both commands are copied; then resolve_path reads argv2[0].
CopyCommands ==
  /\ pc = "pipe"
  /\ \E i \in 2 .. Len(argv) :
       /\ IsFirstBar(i)
       /\ argv1' = SubSeq(argv, 1, i - 1)
       /\ argv2' = SubSeq(argv, i + 1, Len(argv))
  /\ heap' = heap \cup {<<"argv1", i>> : i \in DOMAIN argv1'} \cup {<<"argv2", i>> : i \in DOMAIN argv2'}
  /\ pc' = IF argv2' = <<>> THEN "null" ELSE "path"
  /\ UNCHANGED <<input, parseVars, argv, argc, findAmp, pathVars>>

\* The commands have run: free of the copies, FREE_2D_ARRAY of the words.
FreeWords ==
  /\ pc = "run"
  /\ heap' = heap \ ({<<"argv", i>> : i \in 1 .. argc}
                     \cup {<<"argv1", i>> : i \in DOMAIN argv1}
                     \cup {<<"argv2", i>> : i \in DOMAIN argv2})
  /\ pc' = "done"
  /\ UNCHANGED <<input, parseVars, argv, argc, findAmp, pipeVars, pathVars>>

Next ==
  \/ OpenQuote \/ QuotedChar \/ Overrun \/ CloseQuote
  \/ SkipSpace \/ EndWord \/ OrdinaryChar \/ Parsed
  \/ NoAmpersand \/ TakeAmpersand
  \/ PathBegins \/ Colon \/ EntryChar \/ Found \/ NotHere
  \/ NoPipe \/ CopyCommands \/ FreeWords

Spec == Init /\ [][Next]_vars

-----------------------------------------------------------------------------
(* What a line means                                                       *)

QuotesBefore(k) == Cardinality({j \in 1 .. k - 1 : line[j] = Quote})
Opening(k) == line[k] = Quote /\ QuotesBefore(k) % 2 = 0
Plain(k) == line[k] \notin {Quote, Space} /\ QuotesBefore(k) % 2 = 0

\* Every quote is closed, and none opens in the middle of a word.
WellFormed ==
  /\ QuotesBefore(Len(line) + 1) % 2 = 0
  /\ \A k \in 2 .. Len(line) : Opening(k) => ~Plain(k - 1)

Starts == {k \in DOMAIN line : Opening(k) \/ (Plain(k) /\ (k = 1 \/ ~Plain(k - 1)))}

\* The characters of the word that begins at k.
WordAt(k) ==
  IF Opening(k)
    THEN SubSeq(line, k + 1, (CHOOSE j \in k + 1 .. Len(line) :
           line[j] = Quote /\ \A m \in k + 1 .. j - 1 : line[m] # Quote) - 1)
    ELSE SubSeq(line, k, CHOOSE j \in k .. Len(line) :
           /\ \A m \in k .. j : Plain(m)
           /\ j = Len(line) \/ ~Plain(j + 1))

\* The numbers of a finite set in their order.
InOrder(S) ==
  [n \in 1 .. Cardinality(S) |-> CHOOSE k \in S : Cardinality({j \in S : j < k}) = n - 1]

Words ==
  LET starts == InOrder(Starts) IN [i \in DOMAIN starts |-> WordAt(starts[i])]

\* PATH between colons.
Entries ==
  LET colons == {k \in DOMAIN PATH : PATH[k] = ":"}
      ends == InOrder(colons \cup {0, Len(PATH) + 1})
  IN [i \in 1 .. Len(ends) - 1 |-> SubSeq(PATH, ends[i] + 1, ends[i + 1] - 1)]

\* A name, as the first entry of PATH that has it spells it.
Resolved(name) ==
  LET full(i) == Entries[i] \o <<"/">> \o name
      has == {i \in DOMAIN Entries : full(i) \in files}
  IN IF has = {} THEN name ELSE full(Min(has))

InBackground == Words # <<>> /\ Last(Words) = Amp
Command == IF InBackground THEN Front(Words) ELSE Words

\* Every "|" among the words; but one in front is a name if PATH has a file of
\* that name.
Bars == {i \in DOMAIN Command : Command[i] = Bar /\ (i = 1 => Resolved(Bar) = Bar)}
IsPipe == Bars # {} /\ 1 \notin Bars

-----------------------------------------------------------------------------
(* Properties                                                              *)

\* The words are those the line shows, in their order, none lost, split or
\* empty that was not typed as "".  (parser.c 44-103)
WordsAsTyped == pc = "ampersand" /\ WellFormed => argv = Words /\ argc = Len(Words)

\* What runs is what the line says: all words but a last "&", or those before
\* and behind the first "|", and in the background if there was the "&".
\* (parser.c 20-42; mysh.c 143-158; fs.c 167-197)
Understood ==
  pc = "run" /\ WellFormed =>
    /\ findAmp = InBackground
    /\ Tail(argv) = Tail(Command)
    /\ IF IsPipe
         THEN /\ Tail(argv1) = Tail(SubSeq(Command, 1, Min(Bars) - 1))
              /\ Tail(argv2) = Tail(SubSeq(Command, Min(Bars) + 1, Len(Command)))
         ELSE argv1 = <<>> /\ argv2 = <<>>

\* The names run are those the first fitting entry of PATH gives, whichever
\* side of a pipe they are on.  (fs.c 195, 213-267; mysh.c 143)
FirstInPath ==
  pc = "run" /\ WellFormed =>
    /\ argv[1] = Resolved(Command[1])
    /\ IsPipe => argv1[1] = argv[1] /\ argv2[1] = Resolved(Command[Min(Bars) + 1])

\* A NULL is taken for a string exactly when a command is missing: nothing but
\* blanks, a lone "&", or no word behind the bar of a pipe.  (mysh.c 78, 91;
\* fs.c 195)
NullWhenNoCommand ==
  /\ pc = "null" /\ WellFormed => Command = <<>> \/ (IsPipe /\ Min(Bars) = Len(Command))
  /\ pc = "run" /\ WellFormed => Command # <<>> /\ (IsPipe => Min(Bars) # Len(Command))

\* The words freed after a command are the words allocated: none is freed twice
\* and none is left.  (parser.c 34-36; mysh.c 205; fs.c 178-202)
EachWordFreedOnce ==
  /\ pc = "run" => \A i \in 1 .. argc : <<"argv", i>> \in heap
  /\ pc = "done" => heap = {}

=============================================================================
