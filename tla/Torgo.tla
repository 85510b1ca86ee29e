------------------------------- MODULE Torgo -------------------------------
(***************************************************************************)
(* The shell: torgo_main's loop, the prompt that reads a line, the parser  *)
(* that is resumed with one line after the other, and the argument vector  *)
(* each command is given.                                                  *)
(*                                                                         *)
(* One action is one key read at the prompt or one turn of the parser's    *)
(* loop.  A character is one of few: "n" stands for the letters, and is    *)
(* the letter that an escape turns into a newline; "nl", "quote" and       *)
(* "escape" are \n, the double quote and the backslash.  Variables cannot  *)
(* be set in this build, so that $name always expands to nothing.          *)
(*                                                                         *)
(* torgo_main adds input only when the parser has used up what it had: the *)
(* input chain is one string, and "rest" is what is left of it.            *)
(***************************************************************************)
EXTENDS Integers, Sequences, SequencesExt, FiniteSetsExt

CONSTANTS Keys,      \* the keys that are typed
          MaxKeys,   \* bound: the keys of a behaviour
          readMax    \* readPromptShell's limit (torgo_main passes 32)

Blanks    == {" "}
Operators == {"nl", ";"}
Chars     == Blanks \cup Operators \cup {"n", "quote", "escape", "$", "&"}

TorgoAssumption == /\ Keys \subseteq Chars \cup {"del", "eof"}
                   /\ MaxKeys \in Nat /\ readMax \in Nat \ {0}

VARIABLES
  shell,     \* where torgo_main is: "prompt", "parse", "wait" or "EOF"
  readBuf,   \* Shell.readBuf
  rest,      \* Parser.input, to the end of the input chain
  state,     \* Parser.state
  token,     \* Parser.token, the word that is being built
  tokens,    \* Parser.tokens, in the order they were read
  keys,      \* the number of keys typed
  input,     \* everything given to the parser so far
  executed   \* the commands executed: their words, and whether in background

parserVars == <<rest, state, token, tokens>>
torgoVars == <<shell, readBuf, parserVars, keys, input, executed>>

ParserState == {"Ready", "Word", "Quotation", "EscapeInWord", "EscapeInQuot",
                "Operator", "Complete"}

TorgoInit ==
  /\ shell = "prompt" /\ readBuf = <<>> /\ rest = <<>> /\ state = "Ready"
  /\ token = <<>> /\ tokens = <<>> /\ keys = 0 /\ input = <<>> /\ executed = <<>>

(***************************************************************************)
(* readPromptShell(): a key is appended, erases one, or ends the line.     *)
(***************************************************************************)
typed(k) == shell = "prompt" /\ keys < MaxKeys /\ k \in Keys /\ keys' = keys + 1

readChar(k) ==
  /\ typed(k) /\ k \in Chars \ {"nl"}
  /\ readBuf' = Append(readBuf, k)
  /\ UNCHANGED <<shell, parserVars, input, executed>>

dropLastCharBuf ==
  /\ typed("del")
  /\ readBuf' = IF readBuf = <<>> THEN readBuf ELSE Front(readBuf)
  /\ UNCHANGED <<shell, parserVars, input, executed>>

(* addInputParser(): the line goes to the parser. *)
addInputParser(line) ==
  /\ shell' = "parse" /\ rest' = line /\ input' = input \o line
  /\ readBuf' = <<>>
  /\ UNCHANGED <<state, token, tokens, executed>>

newline == typed("nl") /\ addInputParser(Append(readBuf, "nl"))

endOfFile ==
  /\ typed("eof")
  /\ \/ readBuf # <<>> /\ addInputParser(readBuf)
     \/ readBuf = <<>> /\ shell' = "EOF" /\ UNCHANGED <<readBuf, parserVars, input, executed>>

(***************************************************************************)
(* parseInputParser(): one turn of its loop, by the parser's state.        *)
(***************************************************************************)
parsing(s) == shell = "parse" /\ rest # <<>> /\ state = s

unchangedShell == UNCHANGED <<shell, readBuf, keys, input, executed>>

advance == rest' = Tail(rest)

parseReadyMutant ==
  LET c == Head(rest) IN
  /\ parsing("Ready")
  /\ tokens' = IF token = <<>> THEN tokens ELSE Append(tokens, token)
  /\ \/ c \in Blanks /\ advance /\ UNCHANGED state
     \/ c \in Operators /\ state' = "Operator" /\ UNCHANGED rest
     \/ c \notin Blanks \cup Operators /\ state' = "Word" /\ UNCHANGED rest
  /\ UNCHANGED token /\ unchangedShell
parseReady ==
  LET c == Head(rest) IN
  /\ parsing("Ready")
  /\ tokens' = IF token = <<>> THEN tokens ELSE Append(tokens, token)
  /\ token' = <<>>
  /\ \/ c \in Blanks /\ advance /\ UNCHANGED state
     \/ c \in Operators /\ state' = "Operator" /\ UNCHANGED rest
     \/ c \notin Blanks \cup Operators /\ state' = "Word" /\ UNCHANGED rest
  /\ unchangedShell

goTo(s) == advance /\ state' = s /\ UNCHANGED token
appendCharBuf(c) == advance /\ token' = Append(token, c)

parseWord ==
  LET c == Head(rest) IN
  /\ parsing("Word")
  /\ \/ c = "quote" /\ goTo("Quotation")
     \/ c = "escape" /\ goTo("EscapeInWord")
     \/ c \in Blanks \cup Operators /\ state' = "Ready" /\ UNCHANGED <<rest, token>>
     \/ c \in {"n", "$", "&"} /\ appendCharBuf(c) /\ UNCHANGED state
  /\ UNCHANGED tokens /\ unchangedShell

parseQuotation ==
  LET c == Head(rest) IN
  /\ parsing("Quotation")
  /\ \/ c = "quote" /\ goTo("Word")
     \/ c = "escape" /\ goTo("EscapeInQuot")
     \/ c \notin {"quote", "escape"} /\ appendCharBuf(c) /\ UNCHANGED state
  /\ UNCHANGED tokens /\ unchangedShell

escaped(c) == IF c = "n" THEN "nl" ELSE c

(* After an escape the parser goes back to where it was. *)
parseEscape ==
  /\ \/ parsing("EscapeInWord") /\ state' = "Word"
     \/ parsing("EscapeInQuot") /\ state' = "Quotation"
  /\ appendCharBuf(escaped(Head(rest)))
  /\ UNCHANGED tokens /\ unchangedShell

parseOperator == /\ parsing("Operator") /\ goTo("Complete")
                 /\ UNCHANGED tokens /\ unchangedShell

(* The loop ends without a command: there is nothing left but the next line. *)
mkParseIncompleteMutant ==
  /\ shell = "parse" /\ rest = <<>> /\ state # "Complete" /\ UNCHANGED torgoVars
mkParseIncomplete ==
  /\ shell = "parse" /\ rest = <<>> /\ state # "Complete"
  /\ shell' = "prompt"
  /\ UNCHANGED <<readBuf, parserVars, keys, input, executed>>

(***************************************************************************)
(* A command is complete: populateCmdArgsShell expands each word and looks *)
(* for a last & , and kexec is called.                                     *)
(***************************************************************************)
NameChars == {"n"}

(* The numbers of a set, from the least. *)
InOrder(S) == [j \in 1..Cardinality(S) |-> CHOOSE i \in S : Cardinality({k \in S : k <= i}) = j]

expand(word) ==
  LET name[i \in 0..Len(word)] ==        \* position i belongs to a $name
        i > 0 /\ (word[i] = "$" \/ (name[i - 1] /\ word[i] \in NameChars))
      kept == InOrder({i \in 1..Len(word) : ~ name[i]})
  IN [j \in DOMAIN kept |-> word[kept[j]]]

populateCmdArgsShell(words) ==
  LET argv == [i \in DOMAIN words |-> expand(words[i])]
      bg   == argv # <<>> /\ Last(argv) # <<>> /\ Last(Last(argv)) = "&"
  IN [argv |-> IF bg THEN [argv EXCEPT ![Len(argv)] = Front(@)] ELSE argv, bg |-> bg]

(* hasUnparsedInputParser(): the inner loop goes on, or the prompt is next. *)
nextTurn == shell' = IF rest = <<>> THEN "prompt" ELSE "parse"

(* kexec may fail; waitpid waits for a command that it started and that is not
   in the background. *)
mkParsedCommand ==
  LET command == populateCmdArgsShell(tokens) IN
  /\ shell = "parse" /\ state = "Complete"
  /\ executed' = Append(executed, command)
  /\ tokens' = <<>> /\ token' = <<>> /\ state' = "Ready"
  /\ nextTurn \/ (~ command.bg /\ shell' = "wait")
  /\ UNCHANGED <<readBuf, rest, keys, input>>

waitpidReturns ==
  /\ shell = "wait" /\ nextTurn
  /\ UNCHANGED <<readBuf, parserVars, keys, input, executed>>

parse == \/ parseReady
         \/ parseWord
         \/ parseQuotation
         \/ parseEscape
         \/ parseOperator
         \/ mkParseIncomplete
         \/ mkParsedCommand

TorgoNext == \/ \E k \in Keys : readChar(k)
             \/ dropLastCharBuf
             \/ newline
             \/ endOfFile
             \/ parse
             \/ waitpidReturns

(* The shell is never starved of the processor while it parses (ReadyRuns of
   Sched); nothing is assumed of who types, nor that a command ends. *)
TorgoSpec == TorgoInit /\ [][TorgoNext]_torgoVars /\ WF_torgoVars(parse)

-----------------------------------------------------------------------------
(***************************************************************************)
(* The grammar at the head of parser.c, as a definition: what the          *)
(* characters of s mean does not depend on how s came in.                  *)
(***************************************************************************)
EscapedIn(s) ==
  LET e[i \in 0..Len(s)] == i > 1 /\ s[i - 1] = "escape" /\ ~ e[i - 1] IN e

Marks(s, c) == {i \in DOMAIN s : s[i] = c /\ ~ EscapedIn(s)[i]}

QuotedIn(s, i) == Cardinality({j \in Marks(s, "quote") : j < i}) % 2 = 1

Separators(s, cs) == {i \in DOMAIN s : /\ s[i] \in cs /\ ~ EscapedIn(s)[i]
                                       /\ ~ QuotedIn(s, i)}

(* What is between two positions of s stands for this: no quotes, no
   backslashes, escapes replaced. *)
Reads(s, a, b) ==
  LET kept == InOrder(((a + 1)..(b - 1)) \ (Marks(s, "quote") \cup Marks(s, "escape")))
  IN [j \in DOMAIN kept |-> IF EscapedIn(s)[kept[j]] THEN escaped(s[kept[j]]) ELSE s[kept[j]]]

(* The separator before a position, or 0. *)
Before(seps, i) == Max({0} \cup {j \in seps : j < i})

(* The words of s between a separator, or 0, and another, in order, each by the
   position behind it.  EmptyToo keeps a word that is nothing but quotes. *)
WordsIn(s, a, b, EmptyToo) ==
  LET seps == Separators(s, Blanks \cup Operators)
      ends == InOrder({i \in seps : /\ a < i /\ i <= b
                                    /\ \/ Reads(s, Before(seps, i), i) # <<>>
                                       \/ EmptyToo /\ Before(seps, i) + 1 < i})
  IN [j \in DOMAIN ends |-> Reads(s, Before(seps, ends[j]), ends[j])]

Commands(s, EmptyToo) ==
  LET ops  == Separators(s, Operators)
      ends == InOrder(ops)
  IN [j \in DOMAIN ends |-> populateCmdArgsShell(WordsIn(s, Before(ops, ends[j]), ends[j], EmptyToo))]

TorgoTypeOK ==
  /\ shell \in {"prompt", "parse", "wait", "EOF"} /\ keys \in 0..MaxKeys
  /\ state \in ParserState /\ (shell # "parse" => state \notin {"Operator", "Complete"})
  /\ {readBuf, rest, token, input} \subseteq Seq(Chars) /\ tokens \in Seq(Seq(Chars))

(* At every prompt the commands executed are those the grammar finds in all
   that was typed, whatever the lines it came in: a quotation, an escape or a
   word that was cut off by the end of a line or of the input goes on in the
   next (parseInputParser "can still continue, it just needs more data"). *)
ExecutedAsTyped == TorgoTypeOK /\ (shell \in {"prompt", "EOF"} => executed = Commands(input, FALSE))

(* ... and the grammar's quotWord may be empty. *)
EmptyWordsKept == shell \in {"prompt", "EOF"} => executed = Commands(input, TRUE)

(* torgo_main's inner loop ends, whatever the line and however many commands it
   has: the shell comes back to its prompt (hasUnparsedInputParser) unless it
   waits for ever for a command that does not end. *)
PromptReturns == []<>(shell # "wait") => ((shell = "parse") ~> (shell = "prompt"))

(* The prompt returns when it has read readMax characters. *)
LineIsBounded == Len(rest) <= readMax /\ Len(readBuf) <= readMax
=============================================================================
