----------------------------- MODULE ObYamlConfig -----------------------------
(***************************************************************************)
(* How obinit reads its configuration (lib/src/ObYamlConfigReader.c): the  *)
(* main file, then the files of the directory that it names, each of which *)
(* may name a directory of its own, on top of the defaults of a new        *)
(* context (lib/src/ObContext.c).  The scanner of libyaml makes the tokens *)
(* of documents in block style that leave nothing out behind a key or a    *)
(* dash, indent their sequences, and have neither a dot in a key nor an    *)
(* empty key; the callbacks get what the switch of ObYaml makes of them.   *)
(* Other documents the code reads under wrong paths.                       *)
(*                                                                         *)
(* `open', `said', `named' and `items' tell what the files say.  The code  *)
(* has no such variables: the properties are about them.                   *)
(***************************************************************************)
EXTENDS ObYaml

CONSTANTS
  Key, Value,     \* keys and scalars of the documents
  MaxDepth,       \* bounds: blocks within each other, calls before which a
  MaxSaid,        \* block or an entry may begin, files
  MaxFiles

ASSUME ReaderAssumption ==
  /\ "" \notin Key
  /\ MaxDepth \in Nat /\ MaxSaid \in Nat /\ MaxFiles \in Nat

VARIABLES
  open,     \* the blocks that the scanner is in, each with the key of its entry
  at,       \* what is read next: a "node", the "first" entry of a block, an
            \* "entry" or the end of one, a "key", the "mark" behind a key, the
            \* "end" of the file, "files" of a directory; "done"
  parser,   \* the locals of obParseYamlFile, and all calls of the callbacks
  config,   \* the ObConfig of the context
  within,   \* the directories that are being read, with the locals of the calls:
            \* the path, and the config_dir to put back
  files,    \* the number of files that have been opened
  said,     \* what the files have said
  named,    \* the directory that each file on the way here has named
  items     \* what each item of a list of durables has said

document == <<open, at, parser>>
history == <<said, named, items>>
vars == <<document, config, within, files, history>>

------------------------------------------------------------------------------
(***************************************************************************)
(* The configuration and its callbacks.                                    *)
(***************************************************************************)

\* obInitializeObContext.
Defaults ==
  [enabled |-> FALSE, device |-> "/var/obdev", head |-> "root",
   repository |-> "overboot", tmpfsSize |-> "50%", configDir |-> "", configPath |-> <<>>,
   bindLayers |-> TRUE, useTmpfs |-> TRUE, clearUpper |-> FALSE,
   upperAsLower |-> FALSE, rollback |-> FALSE, safeMode |-> FALSE,
   durables |-> <<>>]

\* obAddDurable puts a new durable in front of the others.
BlankDurable == [path |-> "", copyOrigin |-> FALSE, forceFileType |-> FALSE]
AddDurable(conf) == [conf EXCEPT !.durables = <<BlankDurable>> \o @]

\* The callback changes the first durable, if there is one.
SetDurable(conf, durable) ==
  IF conf.durables = <<>> THEN conf
  ELSE [conf EXCEPT !.durables = <<durable>> \o Tail(@)]

IsTrue(value) == value = "true"

OnScalarValue(conf, path, value) ==
  CASE path = <<"enabled">> -> [conf EXCEPT !.enabled = IsTrue(value)]
    [] path = <<"layers", "visible">> -> [conf EXCEPT !.bindLayers = IsTrue(value)]
    [] path = <<"layers", "device">> -> [conf EXCEPT !.device = value]
    [] path = <<"layers", "repository">> -> [conf EXCEPT !.repository = value]
    [] path = <<"layers", "head">> -> [conf EXCEPT !.head = value]
    [] path = <<"upper", "type">> ->
         [conf EXCEPT !.useTmpfs = (value = "tmpfs"), !.clearUpper = (value = "volatile")]
    [] path = <<"upper", "size">> -> [conf EXCEPT !.tmpfsSize = value]
    [] path = <<"upper", "include_persistent_upper">> ->
         [conf EXCEPT !.upperAsLower = IsTrue(value)]
    [] path = <<"durables", "", "path">> ->
         SetDurable(conf, [conf.durables[1] EXCEPT !.path = value])
    [] path = <<"durables", "", "copy_origin">> ->
         SetDurable(conf, [conf.durables[1] EXCEPT !.copyOrigin = IsTrue(value)])
    [] path = <<"durables", "", "default_type">> ->
         SetDurable(conf, [conf.durables[1] EXCEPT !.forceFileType = (value = "file")])
    [] path = <<"config_dir">> -> [conf EXCEPT !.configDir = value]
    [] path = <<"safe_mode">> -> [conf EXCEPT !.safeMode = IsTrue(value)]
    [] path = <<"rollback">> -> [conf EXCEPT !.rollback = IsTrue(value)]
    [] OTHER -> conf

OnSequenceEntryStart(conf, path) ==
  IF path = <<"durables">> THEN AddDurable(conf) ELSE conf

\* A token goes through the switch, which may call a callback.
Scan(token) ==
  LET m == Step(parser, token)
  IN  /\ parser' = m
      /\ config' = IF m.calls = parser.calls THEN config
                   ELSE LET c == Last(m.calls)
                        IN  IF c.call = "value" THEN OnScalarValue(config, c.path, c.value)
                                                ELSE OnSequenceEntryStart(config, c.path)

------------------------------------------------------------------------------
(***************************************************************************)
(* The tokens of a document.                                               *)
(***************************************************************************)

\* The keys above the current node; those of a list are empty.
KeysOf(blocks) == [i \in DOMAIN blocks |-> blocks[i].key]
Here == KeysOf(open)

\* What is read after a node.
Behind(blocks) == IF blocks = <<>> THEN "end" ELSE "entry"

StartBlock(type, kind) ==
  /\ at = "node"
  /\ Len(open) < MaxDepth /\ Len(said) < MaxSaid
  /\ Scan(Token(type))
  /\ open' = Append(open, [kind |-> kind, key |-> ""])
  /\ at' = "first"
  /\ UNCHANGED <<within, files, history>>

StartMapping == StartBlock("BLOCK_MAPPING_START", "map")
StartSequence == StartBlock("BLOCK_SEQUENCE_START", "list")

\* Whether one more entry may begin in a block of this kind.
MoreIn(kind) ==
  /\ \/ at = "first"
     \/ at = "entry" /\ Len(said) < MaxSaid
  /\ open[Len(open)].kind = kind

NewKey ==
  /\ MoreIn("map")
  /\ Scan(Token("KEY"))
  /\ at' = "key"
  /\ UNCHANGED <<open, within, files, history>>

KeyScalar ==
  /\ at = "key"
  /\ \E k \in Key :
       /\ Scan(ScalarToken(k))
       /\ open' = [open EXCEPT ![Len(open)].key = k]
  /\ at' = "mark"
  /\ UNCHANGED <<within, files, history>>

ValueMark ==
  /\ at = "mark"
  /\ Scan(Token("VALUE"))
  /\ at' = "node"
  /\ UNCHANGED <<open, within, files, history>>

\* An item of a list begins; one of the list of durables is a durable.
NewItem ==
  /\ MoreIn("list")
  /\ Scan(Token("BLOCK_ENTRY"))
  /\ at' = "node"
  /\ said' = Append(said, EntryCall(Front(Here)))
  /\ items' = IF Front(Here) = <<"durables">> THEN Append(items, <<>>) ELSE items
  /\ UNCHANGED <<open, within, files, named>>

\* A setting of an item of the list of durables.
InItem(path) == Len(path) = 3 /\ path[1] = "durables" /\ path[2] = ""

ValueScalar ==
  /\ at = "node"
  /\ \E v \in Value :
       /\ Scan(ScalarToken(v))
       /\ said' = Append(said, ValueCall(Here, v))
       /\ named' = IF Here = <<"config_dir">> THEN [named EXCEPT ![Len(named)] = v] ELSE named
       /\ items' = IF InItem(Here)
                     THEN [items EXCEPT ![Len(items)] = Append(@, ValueCall(<<Here[3]>>, v))]
                     ELSE items
  /\ at' = Behind(open)
  /\ UNCHANGED <<open, within, files>>

EndBlock ==
  /\ at = "entry"
  /\ Scan(Token("BLOCK_END"))
  /\ open' = Front(open)
  /\ at' = Behind(open')
  /\ UNCHANGED <<within, files, history>>

------------------------------------------------------------------------------
(***************************************************************************)
(* obLoadYamlConfig of a file, loadYamlConfigDir of the directory that it  *)
(* names, and obLoadPartialYamlConfig of the files there, which gives each *)
(* a config_dir of its own.                                                *)
(***************************************************************************)

\* The directory of the files that are read below `dirs'.
DirOf(dirs) == IF dirs = <<>> THEN <<>> ELSE Last(dirs).dir

\* Mutant of Return: obLoadPartialYamlConfig does not put the directory back.
MutReturn(dirs) ==
  \/ /\ dirs = <<>>
     /\ at' = "done"
     /\ config' = [config EXCEPT !.configPath = <<>>]
     /\ UNCHANGED named
  \/ /\ dirs # <<>>
     /\ at' = "files"
     /\ config' = [config EXCEPT !.configPath = DirOf(dirs)]
     /\ named' = Front(named)

\* obLoadYamlConfig returns to main, or for a file of a directory to
\* obLoadPartialYamlConfig, which puts the config_dir of that directory back.
Return(dirs) ==
  \/ /\ dirs = <<>>
     /\ at' = "done"
     /\ config' = [config EXCEPT !.configPath = <<>>]
     /\ UNCHANGED named
  \/ /\ dirs # <<>>
     /\ at' = "files"
     /\ config' = [config EXCEPT !.configPath = DirOf(dirs), !.configDir = Last(dirs).saved]
     /\ named' = Front(named)

\* The file ends, with its document or empty, or could not be opened.
FileRead == at = "end" \/ (at = "node" /\ open = <<>>)

EndOfFile ==
  /\ FileRead
  /\ config.configDir = ""
  /\ Return(within)
  /\ UNCHANGED <<open, parser, within, files, said, items>>

OpenDirectory ==
  /\ FileRead
  /\ config.configDir # ""
  /\ within' = Append(within, [dir |-> Append(DirOf(within), config.configDir), saved |-> ""])
  /\ at' = "files"
  /\ UNCHANGED <<open, parser, config, files, history>>

ReadPartial ==
  /\ at = "files"
  /\ files < MaxFiles
  /\ within' = [within EXCEPT ![Len(within)].saved = config.configDir]
  /\ config' = [config EXCEPT !.configDir = ""]
  /\ parser' = NewParser(parser.calls)
  /\ open' = <<>>
  /\ at' = "node"
  /\ files' = files + 1
  /\ named' = Append(named, "")
  /\ UNCHANGED <<said, items>>

\* There are no more files in the directory, or it cannot be read.
LeaveDirectory ==
  /\ at = "files"
  /\ within' = Front(within)
  /\ Return(within')
  /\ UNCHANGED <<open, parser, files, said, items>>

Done ==
  /\ at = "done"
  /\ UNCHANGED vars

Init ==
  /\ open = <<>> /\ at = "node" /\ parser = NewParser(<<>>)
  /\ config = Defaults
  /\ within = <<>> /\ files = 1
  /\ said = <<>> /\ named = <<"">> /\ items = <<>>

Next ==
  \/ StartMapping \/ StartSequence \/ NewKey \/ KeyScalar \/ ValueMark
  \/ NewItem \/ ValueScalar \/ EndBlock
  \/ EndOfFile \/ OpenDirectory \/ ReadPartial \/ LeaveDirectory
  \/ Done

Spec == Init /\ [][Next]_vars

------------------------------------------------------------------------------
(***************************************************************************)
(* What the files say.                                                     *)
(***************************************************************************)

\* The value that was given for a path at the last place where one was.
Setting(calls, path, default) ==
  LET Given(i) == calls[i].call = "value" /\ calls[i].path = path
      last == {i \in DOMAIN calls : Given(i) /\ \A j \in DOMAIN calls : j > i => ~Given(j)}
  IN  IF last = {} THEN default ELSE calls[CHOOSE i \in last : TRUE].value

Flag(calls, path, default) == Setting(calls, path, default) = "true"

Durable(item) ==
  [path          |-> Setting(item, <<"path">>, ""),
   copyOrigin    |-> Flag(item, <<"copy_origin">>, "false"),
   forceFileType |-> Setting(item, <<"default_type">>, "directory") = "file"]

\* The configuration that the files describe.
AsWritten ==
  LET type == Setting(said, <<"upper", "type">>, "tmpfs")
  IN  [enabled      |-> Flag(said, <<"enabled">>, "false"),
       device       |-> Setting(said, <<"layers", "device">>, "/var/obdev"),
       head         |-> Setting(said, <<"layers", "head">>, "root"),
       repository   |-> Setting(said, <<"layers", "repository">>, "overboot"),
       tmpfsSize    |-> Setting(said, <<"upper", "size">>, "50%"),
       configDir    |-> Last(named),
       configPath   |-> config.configPath,
       bindLayers   |-> Flag(said, <<"layers", "visible">>, "true"),
       useTmpfs     |-> type = "tmpfs",
       clearUpper   |-> type = "volatile",
       upperAsLower |-> Flag(said, <<"upper", "include_persistent_upper">>, "false"),
       rollback     |-> Flag(said, <<"rollback">>, "false"),
       safeMode     |-> Flag(said, <<"safe_mode">>, "false"),
       durables     |-> Reverse([i \in DOMAIN items |-> Durable(items[i])])]

\* The strings that there are in the files and in the defaults.
Text == Key \cup Value \cup {"", "/var/obdev", "root", "overboot", "50%"}

Call == [call : {"value"}, path : Seq(Text), value : Text]
          \cup [call : {"entry"}, path : Seq(Text)]

Parser == [path : Seq(Text), isKey : BOOLEAN, calls : Seq(Call)]
Block == [kind : {"map", "list"}, key : Text]
DurableRecord == [path : Text, copyOrigin : BOOLEAN, forceFileType : BOOLEAN]
ObConfig ==
  [enabled : BOOLEAN, device : Text, head : Text, repository : Text,
   tmpfsSize : Text, configDir : Text, configPath : Seq(Text), bindLayers : BOOLEAN,
   useTmpfs : BOOLEAN, clearUpper : BOOLEAN, upperAsLower : BOOLEAN,
   rollback : BOOLEAN, safeMode : BOOLEAN,
   durables : Seq(DurableRecord)]

TypeOK ==
  /\ config \in ObConfig
  /\ open \in Seq(Block)
  /\ at \in {"node", "first", "entry", "key", "mark", "end", "files", "done"}
  /\ parser \in Parser
  /\ within \in Seq([dir : Seq(Text), saved : Text])
  /\ files \in Nat
  /\ said \in Seq(Call)
  /\ named \in Seq(Text)
  /\ items \in Seq(Seq(Call))

\* The callbacks are called with each value and each entry of a sequence, with
\* the keys above it, in the order of the files: the path that the parser pushes
\* and pops is that of the node in the tree (ObYamlParser.c:52-88).
ParserReadsTree == parser.calls = said

\* The configuration that obinit goes by is the one that the files say: the
\* last file that gives a setting decides, the settings of a file stay when the
\* next one does not give them, the durables of all files add up, a directory
\* that a file of the directory names does not replace the directory itself, and
\* in the end the path of the file is that of the main one
\* (ObYamlConfigReader.c:20-155).
ConfigAsWritten ==
  /\ config = AsWritten
  /\ \A i \in DOMAIN within : within[i].dir = SubSeq(named, 1, i)
  /\ at = "done" => config.configPath = <<>>
==============================================================================
