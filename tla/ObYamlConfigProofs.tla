-------------------------- MODULE ObYamlConfigProofs --------------------------
(***************************************************************************)
(* Proofs about ObYamlConfig, for documents of every depth and length and  *)
(* any number of files and directories.                                    *)
(*                                                                         *)
(* The inductive invariant has three parts besides the types and the two   *)
(* properties.  `PathIsHere' says how the path of the parser and the place *)
(* in the tree go together, for each kind of token that may be next.       *)
(* `BlocksOK' says what the blocks around that place are; that a durable   *)
(* exists where its settings are read needs it.  `CallsOK' is about the    *)
(* recursion: each call keeps the directory that its own file has named.   *)
(***************************************************************************)
EXTENDS ObYamlConfig, SequenceTheorems, TLAPS

PathIsHere ==
  /\ at \in {"node", "mark"} => parser.path = Here
  /\ at \in {"first", "entry", "key"} => open # <<>> /\ parser.path = Front(Here)
  /\ parser.isKey <=> at = "key"

ListKeys == \A i \in 1..Len(open) : open[i].kind = "list" => open[i].key = ""
MapKeys ==
  \A i \in 1..Len(open) :
    open[i].kind = "map" /\ (i < Len(open) \/ at \in {"node", "mark"}) => open[i].key # ""
KeyInMap == at \in {"key", "mark"} => open # <<>> /\ open[Len(open)].kind = "map"
DurableStarted ==
  /\ Len(open) >= 2 /\ open[1].key = "durables" /\ open[2].kind = "list"
  /\ Len(open) > 2 \/ at = "node"
  => items # <<>>

BlocksOK == ListKeys /\ MapKeys /\ KeyInMap /\ DurableStarted

CallsOK ==
  /\ Len(named) = Len(within) + (IF at = "files" THEN 0 ELSE 1)
  /\ at = "files" => within # <<>>
  /\ at = "done" => within = <<>>
  /\ \A i \in DOMAIN within : i < Len(named) => within[i].saved = named[i]

Invariant ==
  TypeOK /\ PathIsHere /\ BlocksOK /\ CallsOK /\ ParserReadsTree /\ ConfigAsWritten

------------------------------------------------------------------------------
(***************************************************************************)
(* What was said last.                                                     *)
(***************************************************************************)

\* Nothing is given where nothing was said.
LEMMA SettingOfNothing ==
  ASSUME NEW path, NEW default
  PROVE  Setting(<<>>, path, default) = default
BY DEF Setting

\* A value that is given for the path is the setting; anything else that is said
\* leaves the setting as it was.
LEMMA SettingAfter ==
  ASSUME NEW S, NEW calls \in Seq(S), NEW c, NEW path, NEW default
  PROVE  Setting(Append(calls, c), path, default) =
           IF c.call = "value" /\ c.path = path THEN c.value
           ELSE Setting(calls, path, default)
<1> DEFINE more == Append(calls, c)
           Given(s, i) == s[i].call = "value" /\ s[i].path = path
           Latest(s) == {i \in DOMAIN s : Given(s, i) /\ \A j \in DOMAIN s : j > i => ~Given(s, j)}
<1>1. /\ DOMAIN calls = 1..Len(calls) /\ DOMAIN more = 1..(Len(calls) + 1)
      /\ Len(calls) \in Nat
      /\ more[Len(calls) + 1] = c
      /\ \A i \in 1..Len(calls) : more[i] = calls[i]
  OBVIOUS
<1>2. \A s : Setting(s, path, default) =
              IF Latest(s) = {} THEN default ELSE s[CHOOSE i \in Latest(s) : TRUE].value
  BY DEF Setting
<1> HIDE DEF more
<1>3. CASE c.call = "value" /\ c.path = path
  <2>1. Latest(more) = {Len(calls) + 1}
    BY <1>1, <1>3
  <2>2. (CHOOSE i \in Latest(more) : TRUE) = Len(calls) + 1
    BY <2>1
  <2> HIDE DEF Latest
  <2>3. Setting(more, path, default) = more[Len(calls) + 1].value
    BY <2>1, <2>2, <1>2
  <2> QED BY <2>3, <1>1, <1>3 DEF more
<1>4. CASE ~(c.call = "value" /\ c.path = path)
  <2>1. Latest(more) = Latest(calls)
    BY <1>1, <1>4
  <2> HIDE DEF Latest
  <2>2. ASSUME Latest(calls) # {} PROVE (CHOOSE i \in Latest(calls) : TRUE) \in 1..Len(calls)
    <3>1. (CHOOSE i \in Latest(calls) : TRUE) \in Latest(calls)
      BY <2>2
    <3> QED BY <3>1, <1>1 DEF Latest
  <2>3. CASE Latest(calls) = {}
    BY <2>1, <2>3, <1>2, <1>4 DEF more
  <2>4. CASE Latest(calls) # {}
    BY <2>1, <2>2, <2>4, <1>1, <1>2, <1>4 DEF more
  <2> QED BY <2>3, <2>4
<1> QED BY <1>3, <1>4

------------------------------------------------------------------------------
(***************************************************************************)
(* What a callback makes of the configuration, setting by setting.         *)
(***************************************************************************)
ItemPaths ==
  {<<"durables", "", "path">>, <<"durables", "", "copy_origin">>,
   <<"durables", "", "default_type">>}

SettingPaths ==
  {<<"enabled">>, <<"layers", "visible">>, <<"layers", "device">>,
   <<"layers", "repository">>, <<"layers", "head">>, <<"upper", "type">>, <<"upper", "size">>,
   <<"upper", "include_persistent_upper">>, <<"config_dir">>, <<"safe_mode">>,
   <<"rollback">>}

Becomes(conf, path, value, new) ==
  /\ new.enabled = IF path = <<"enabled">> THEN IsTrue(value) ELSE conf.enabled
  /\ new.device = IF path = <<"layers", "device">> THEN value ELSE conf.device
  /\ new.head = IF path = <<"layers", "head">> THEN value ELSE conf.head
  /\ new.repository = IF path = <<"layers", "repository">> THEN value ELSE conf.repository
  /\ new.tmpfsSize = IF path = <<"upper", "size">> THEN value ELSE conf.tmpfsSize
  /\ new.configDir = IF path = <<"config_dir">> THEN value ELSE conf.configDir
  /\ new.configPath = conf.configPath
  /\ new.bindLayers = IF path = <<"layers", "visible">> THEN IsTrue(value) ELSE conf.bindLayers
  /\ new.useTmpfs = IF path = <<"upper", "type">> THEN value = "tmpfs" ELSE conf.useTmpfs
  /\ new.clearUpper = IF path = <<"upper", "type">> THEN value = "volatile" ELSE conf.clearUpper
  /\ new.upperAsLower = IF path = <<"upper", "include_persistent_upper">> THEN IsTrue(value)
                        ELSE conf.upperAsLower
  /\ new.rollback = IF path = <<"rollback">> THEN IsTrue(value) ELSE conf.rollback
  /\ new.safeMode = IF path = <<"safe_mode">> THEN IsTrue(value) ELSE conf.safeMode

\* A value outside of the items of the durables changes its own setting only.
LEMMA OtherValue ==
  ASSUME NEW conf \in ObConfig, NEW value \in Text, NEW path, path \notin ItemPaths,
         NEW new, new = OnScalarValue(conf, path, value)
  PROVE  new \in ObConfig /\ Becomes(conf, path, value, new) /\ new.durables = conf.durables
<1>1. CASE path = <<"enabled">>
  <2>1. new = [conf EXCEPT !.enabled = IsTrue(value)]
    BY <1>1 DEF OnScalarValue
  <2> QED BY <1>1, <2>1 DEF Becomes, ObConfig, IsTrue
<1>2. CASE path = <<"layers", "visible">>
  <2>1. new = [conf EXCEPT !.bindLayers = IsTrue(value)]
    BY <1>2 DEF OnScalarValue
  <2> QED BY <1>2, <2>1 DEF Becomes, ObConfig, IsTrue
<1>3. CASE path = <<"layers", "device">>
  <2>1. new = [conf EXCEPT !.device = value]
    BY <1>3 DEF OnScalarValue
  <2> QED BY <1>3, <2>1 DEF Becomes, ObConfig, IsTrue
<1>4. CASE path = <<"layers", "repository">>
  <2>1. new = [conf EXCEPT !.repository = value]
    BY <1>4 DEF OnScalarValue
  <2> QED BY <1>4, <2>1 DEF Becomes, ObConfig, IsTrue
<1>5. CASE path = <<"layers", "head">>
  <2>1. new = [conf EXCEPT !.head = value]
    BY <1>5 DEF OnScalarValue
  <2> QED BY <1>5, <2>1 DEF Becomes, ObConfig, IsTrue
<1>6. CASE path = <<"upper", "type">>
  <2>1. new = [conf EXCEPT !.useTmpfs = (value = "tmpfs"),
                               !.clearUpper = (value = "volatile")]
    BY <1>6 DEF OnScalarValue
  <2> QED BY <1>6, <2>1 DEF Becomes, ObConfig, IsTrue
<1>7. CASE path = <<"upper", "include_persistent_upper">>
  <2>1. new = [conf EXCEPT !.upperAsLower = IsTrue(value)]
    BY <1>7 DEF OnScalarValue
  <2> QED BY <1>7, <2>1 DEF Becomes, ObConfig, IsTrue
<1>8. CASE path = <<"config_dir">>
  <2>1. new = [conf EXCEPT !.configDir = value]
    BY <1>8 DEF OnScalarValue
  <2> QED BY <1>8, <2>1 DEF Becomes, ObConfig, IsTrue
<1>9. CASE path = <<"safe_mode">>
  <2>1. new = [conf EXCEPT !.safeMode = IsTrue(value)]
    BY <1>9 DEF OnScalarValue
  <2> QED BY <1>9, <2>1 DEF Becomes, ObConfig, IsTrue
<1>10. CASE path = <<"rollback">>
  <2>1. new = [conf EXCEPT !.rollback = IsTrue(value)]
    BY <1>10 DEF OnScalarValue
  <2> QED BY <1>10, <2>1 DEF Becomes, ObConfig, IsTrue
<1>11. CASE path = <<"upper", "size">>
  <2>1. new = [conf EXCEPT !.tmpfsSize = value]
    BY <1>11 DEF OnScalarValue
  <2> QED BY <1>11, <2>1 DEF Becomes, ObConfig, IsTrue
<1>12. CASE path \notin SettingPaths
  <2>1. new = conf
    BY <1>12 DEF OnScalarValue, SettingPaths, ItemPaths
  <2> QED BY <1>12, <2>1 DEF Becomes, SettingPaths
<1> QED BY <1>1, <1>2, <1>3, <1>4, <1>5, <1>6, <1>7, <1>8, <1>9, <1>10, <1>11, <1>12
     DEF SettingPaths

\* A durable with one more setting of its item.
DurableWith(d, key, value) ==
  [path          |-> IF key = "path" THEN value ELSE d.path,
   copyOrigin    |-> IF key = "copy_origin" THEN IsTrue(value) ELSE d.copyOrigin,
   forceFileType |-> IF key = "default_type" THEN value = "file" ELSE d.forceFileType]

\* In an item it changes the first durable only.
LEMMA ItemValue ==
  ASSUME NEW conf \in ObConfig, conf.durables # <<>>, NEW value \in Text,
         NEW path \in ItemPaths, NEW new, new = OnScalarValue(conf, path, value)
  PROVE  /\ new \in ObConfig /\ Becomes(conf, path, value, new)
         /\ new.durables =
              <<DurableWith(conf.durables[1], path[3], value)>> \o Tail(conf.durables)
<1> DEFINE d == conf.durables[1]
           e == DurableWith(d, path[3], value)
<1>1. d \in DurableRecord /\ Tail(conf.durables) \in Seq(DurableRecord)
  <2>1. conf.durables \in Seq(DurableRecord)
    BY DEF ObConfig, DurableRecord
  <2> HIDE DEF DurableRecord
  <2> QED BY <2>1
<1>2. e \in DurableRecord
  <2>1. /\ d.path \in Text /\ d.copyOrigin \in BOOLEAN /\ d.forceFileType \in BOOLEAN
        /\ IsTrue(value) \in BOOLEAN /\ (value = "file") \in BOOLEAN
    BY <1>1 DEF DurableRecord, IsTrue
  <2> QED BY <2>1, Zenon DEF DurableWith, DurableRecord
<1>3. new = SetDurable(conf, e)
  <2>1. CASE path = <<"durables", "", "path">>
    <3>1. new = SetDurable(conf, [d EXCEPT !.path = value])
      BY <2>1 DEF OnScalarValue
    <3>2. path[3] = "path"
      BY <2>1
    <3>3. [d EXCEPT !.path = value] = DurableWith(d, "path", value)
      BY <1>1 DEF DurableWith, DurableRecord
    <3> QED BY <3>1, <3>2, <3>3
  <2>2. CASE path = <<"durables", "", "copy_origin">>
    <3>1. new = SetDurable(conf, [d EXCEPT !.copyOrigin = IsTrue(value)])
      BY <2>2 DEF OnScalarValue
    <3>2. path[3] = "copy_origin"
      BY <2>2
    <3>3. [d EXCEPT !.copyOrigin = IsTrue(value)] = DurableWith(d, "copy_origin", value)
      BY <1>1 DEF DurableWith, DurableRecord
    <3> QED BY <3>1, <3>2, <3>3
  <2>3. CASE path = <<"durables", "", "default_type">>
    <3>1. new = SetDurable(conf, [d EXCEPT !.forceFileType = (value = "file")])
      BY <2>3 DEF OnScalarValue
    <3>2. path[3] = "default_type"
      BY <2>3
    <3>3. [d EXCEPT !.forceFileType = (value = "file")] = DurableWith(d, "default_type", value)
      BY <1>1 DEF DurableWith, DurableRecord
    <3> QED BY <3>1, <3>2, <3>3
  <2> QED BY <2>1, <2>2, <2>3 DEF ItemPaths
<1> HIDE DEF e
<1>4. <<e>> \o Tail(conf.durables) \in Seq(DurableRecord)
  BY <1>1, <1>2
<1> DEFINE more == <<e>> \o Tail(conf.durables)
<1>5. new = [conf EXCEPT !.durables = more]
  BY <1>3 DEF SetDurable
<1> HIDE DEF more
<1>6. more \in Seq(DurableRecord)
  BY <1>4 DEF more
<1>7. new \in ObConfig /\ new.durables = more
  BY <1>5, <1>6 DEF ObConfig, DurableRecord
<1>8. path \notin SettingPaths
  <2>1. \A x, y, z : Len(<<x, y, z>>) = 3
    OBVIOUS
  <2>2. Len(path) = 3
    BY <2>1 DEF ItemPaths
  <2>3. \A p \in SettingPaths : Len(p) # 3
    <3>1. (\A x : Len(<<x>>) = 1) /\ (\A x, y : Len(<<x, y>>) = 2)
      OBVIOUS
    <3>2. \A p \in SettingPaths : (\E x : p = <<x>>) \/ (\E x, y : p = <<x, y>>)
      BY Zenon DEF SettingPaths
    <3> QED BY <3>1, <3>2
  <2> QED BY <2>2, <2>3
<1>9. Becomes(conf, path, value, new)
  BY <1>5, <1>8 DEF Becomes, ObConfig, SettingPaths
<1> QED BY <1>7, <1>9 DEF more, e

------------------------------------------------------------------------------
(***************************************************************************)
(* What the items of the lists of durables say.                            *)
(***************************************************************************)
DurablesOf(its) == Reverse([i \in DOMAIN its |-> Durable(its[i])])

\* An item that says one more thing.
LEMMA DurableSaysMore ==
  ASSUME NEW S, NEW item \in Seq(S), NEW key, NEW value
  PROVE  Durable(Append(item, ValueCall(<<key>>, value))) =
           DurableWith(Durable(item), key, value)
<1> DEFINE c == ValueCall(<<key>>, value)
           more == Append(item, c)
<1>1. c.call = "value" /\ c.path = <<key>> /\ c.value = value
  BY DEF ValueCall
<1>2. \A path, default : Setting(more, path, default) =
        IF c.call = "value" /\ c.path = path THEN c.value ELSE Setting(item, path, default)
  BY SettingAfter
<1> HIDE DEF c, more
<1>3. \A k, default : Setting(more, <<k>>, default) =
        IF key = k THEN value ELSE Setting(item, <<k>>, default)
  <2>1. \A k : <<key>> = <<k>> <=> key = k
    OBVIOUS
  <2> QED BY <2>1, <1>1, <1>2
<1>4. Durable(more) =
        [path |-> Setting(more, <<"path">>, ""),
         copyOrigin |-> Setting(more, <<"copy_origin">>, "false") = "true",
         forceFileType |-> Setting(more, <<"default_type">>, "directory") = "file"]
  BY Zenon DEF Durable, Flag
<1>5. /\ Durable(item).path = Setting(item, <<"path">>, "")
      /\ Durable(item).copyOrigin = (Setting(item, <<"copy_origin">>, "false") = "true")
      /\ Durable(item).forceFileType = (Setting(item, <<"default_type">>, "directory") = "file")
  BY Zenon DEF Durable, Flag
<1>6. /\ Setting(more, <<"path">>, "") = IF key = "path" THEN value ELSE Durable(item).path
      /\ (Setting(more, <<"copy_origin">>, "false") = "true")
           = IF key = "copy_origin" THEN value = "true" ELSE Durable(item).copyOrigin
      /\ (Setting(more, <<"default_type">>, "directory") = "file")
           = IF key = "default_type" THEN value = "file" ELSE Durable(item).forceFileType
  <2>1. Setting(more, <<"path">>, "") = IF key = "path" THEN value ELSE Durable(item).path
    BY <1>3, <1>5
  <2>2. (Setting(more, <<"copy_origin">>, "false") = "true")
           = IF key = "copy_origin" THEN value = "true" ELSE Durable(item).copyOrigin
    <3>1. Setting(more, <<"copy_origin">>, "false") =
            IF key = "copy_origin" THEN value ELSE Setting(item, <<"copy_origin">>, "false")
      BY <1>3
    <3> QED BY <3>1, <1>5, Zenon
  <2>3. (Setting(more, <<"default_type">>, "directory") = "file")
           = IF key = "default_type" THEN value = "file" ELSE Durable(item).forceFileType
    <3>1. Setting(more, <<"default_type">>, "directory") =
            IF key = "default_type" THEN value ELSE Setting(item, <<"default_type">>, "directory")
      BY <1>3
    <3> QED BY <3>1, <1>5, Zenon
  <2> QED BY <2>1, <2>2, <2>3
<1>7. Durable(more) = DurableWith(Durable(item), key, value)
  BY <1>4, <1>6, Zenon DEF DurableWith, IsTrue
<1> QED BY <1>7 DEF c, more

\* A new item is a new durable in front of the others.
LEMMA ItemBegins ==
  ASSUME NEW S, NEW its \in Seq(S)
  PROVE  DurablesOf(Append(its, <<>>)) = <<BlankDurable>> \o DurablesOf(its)
<1>1. Durable(<<>>) = BlankDurable
  <2>1. /\ Setting(<<>>, <<"path">>, "") = ""
        /\ Setting(<<>>, <<"copy_origin">>, "false") = "false"
        /\ Setting(<<>>, <<"default_type">>, "directory") = "directory"
    BY SettingOfNothing, Zenon
  <2> QED BY <2>1 DEF Durable, Flag, BlankDurable
<1> DEFINE more == Append(its, <<>>)
           n == Len(its)
<1>2. /\ DOMAIN its = 1..n /\ DOMAIN more = 1..(n + 1) /\ n \in Nat
      /\ more[n + 1] = <<>>
      /\ \A i \in 1..n : more[i] = its[i]
  OBVIOUS
<1> HIDE DEF more
<1>3. DurablesOf(its) = [i \in 1..n |-> Durable(its[n - i + 1])]
  BY <1>2 DEF DurablesOf, Reverse
<1>4. DurablesOf(more) = [i \in 1..(n + 1) |-> Durable(more[n + 1 - i + 1])]
  BY <1>2 DEF DurablesOf, Reverse
<1>5. \A i \in 1..(n + 1) :
        DurablesOf(more)[i] = IF i = 1 THEN BlankDurable ELSE DurablesOf(its)[i - 1]
  BY <1>1, <1>2, <1>3, <1>4
<1>6. DurablesOf(more) = <<BlankDurable>> \o DurablesOf(its)
  <2>1. /\ DurablesOf(its) \in Seq({Durable(its[i]) : i \in 1..n})
        /\ Len(DurablesOf(its)) = n
    BY <1>2, <1>3
  <2>2. /\ DOMAIN (<<BlankDurable>> \o DurablesOf(its)) = 1..(n + 1)
        /\ \A i \in 1..(n + 1) : (<<BlankDurable>> \o DurablesOf(its))[i] =
              IF i = 1 THEN BlankDurable ELSE DurablesOf(its)[i - 1]
    BY <1>2, <2>1
  <2>3. DurablesOf(more) = [i \in 1..(n + 1) |-> DurablesOf(more)[i]]
    BY <1>4
  <2>4. <<BlankDurable>> \o DurablesOf(its)
          = [i \in 1..(n + 1) |-> (<<BlankDurable>> \o DurablesOf(its))[i]]
    BY <2>1, <2>2
  <2> QED BY <1>5, <2>2, <2>3, <2>4, ZenonT(60)
<1> QED BY <1>6 DEF more

\* What is said in an item changes the first durable only.
LEMMA ItemGoesOn ==
  ASSUME NEW S, NEW its \in Seq(S), its # <<>>, NEW item
  PROVE  /\ DurablesOf(its) # <<>>
         /\ DurablesOf(its)[1] = Durable(its[Len(its)])
         /\ DurablesOf([its EXCEPT ![Len(its)] = item]) =
              <<Durable(item)>> \o Tail(DurablesOf(its))
<1> DEFINE more == [its EXCEPT ![Len(its)] = item]
           n == Len(its)
<1>1. /\ DOMAIN its = 1..n /\ DOMAIN more = 1..n /\ n \in Nat \ {0}
      /\ more[n] = item /\ Len(more) = n
      /\ \A i \in 1..(n - 1) : more[i] = its[i]
  OBVIOUS
<1> HIDE DEF more
<1>2. DurablesOf(its) = [i \in 1..n |-> Durable(its[n - i + 1])]
  BY <1>1 DEF DurablesOf, Reverse
<1>3. DurablesOf(more) = [i \in 1..n |-> Durable(more[n - i + 1])]
  BY <1>1 DEF DurablesOf, Reverse
<1>4. \A i \in 1..n :
        DurablesOf(more)[i] = IF i = 1 THEN Durable(item) ELSE DurablesOf(its)[i]
  BY <1>1, <1>2, <1>3
<1>5. DurablesOf(more) = <<Durable(item)>> \o Tail(DurablesOf(its))
  BY <1>1, <1>2, <1>3, <1>4
<1>6. DurablesOf(its) # <<>> /\ DurablesOf(its)[1] = Durable(its[n])
  BY <1>1, <1>2
<1> QED BY <1>5, <1>6 DEF more

LEMMA NewBlock ==
  ASSUME NEW kind \in {"map", "list"}
  PROVE  [kind |-> kind, key |-> ""] \in Block
BY DEF Block, Text

------------------------------------------------------------------------------
(***************************************************************************)
(* The tokens.                                                             *)
(***************************************************************************)

\* One more element.
LEMMA Appended ==
  ASSUME NEW S, NEW s \in Seq(S), NEW x \in S
  PROVE  Append(s, x) \in Seq(S)
OBVIOUS

\* All but the last element of a sequence.
LEMMA Fronts ==
  ASSUME NEW S, NEW s \in Seq(S), s # <<>>
  PROVE  /\ Front(s) \in Seq(S) /\ Len(Front(s)) = Len(s) - 1
         /\ \A i \in 1..(Len(s) - 1) : Front(s)[i] = s[i]
<1> DEFINE n == Len(s) - 1
<1>1. n \in Nat /\ 1 \in Int /\ n \in Int /\ \A i \in 1..n : s[i] \in S
  OBVIOUS
<1> HIDE DEF n
<1>2. /\ SubSeq(s, 1, n) \in Seq(S)
      /\ Len(SubSeq(s, 1, n)) = IF 1 <= n THEN n - 1 + 1 ELSE 0
      /\ \A i \in 1..(n - 1 + 1) : SubSeq(s, 1, n)[i] = s[1 + i - 1]
  BY <1>1, SubSeqProperties, SMTT(20)
<1>3. Len(SubSeq(s, 1, n)) = n /\ \A i \in 1..n : SubSeq(s, 1, n)[i] = s[i]
  BY <1>1, <1>2
<1> QED BY <1>2, <1>3 DEF Front, n

\* Another last element.
LEMMA LastReplaced ==
  ASSUME NEW S, NEW s \in Seq(S), s # <<>>, NEW x \in S
  PROVE  Append(Front(s), x) = [s EXCEPT ![Len(s)] = x]
<1>1. /\ Front(s) \in Seq(S) /\ Len(Front(s)) = Len(s) - 1
      /\ \A i \in 1..(Len(s) - 1) : Front(s)[i] = s[i]
  BY Fronts, Zenon
<1>2. /\ Append(Front(s), x) \in Seq(S) /\ Len(Append(Front(s), x)) = Len(s)
      /\ \A i \in 1..Len(s) : Append(Front(s), x)[i] = IF i = Len(s) THEN x ELSE s[i]
  BY <1>1
<1>3. /\ [s EXCEPT ![Len(s)] = x] \in Seq(S) /\ Len([s EXCEPT ![Len(s)] = x]) = Len(s)
      /\ \A i \in 1..Len(s) : [s EXCEPT ![Len(s)] = x][i] = IF i = Len(s) THEN x ELSE s[i]
  OBVIOUS
<1>4. \A i \in 1..Len(Append(Front(s), x)) :
        Append(Front(s), x)[i] = [s EXCEPT ![Len(s)] = x][i]
  BY <1>2, <1>3
<1> QED BY <1>2, <1>3, <1>4, SeqEqual, Zenon

\* A place in the tree is a sequence of keys, one for each block.
LEMMA KeysFacts ==
  ASSUME NEW bs \in Seq(Block)
  PROVE  /\ KeysOf(bs) \in Seq(Text) /\ Len(KeysOf(bs)) = Len(bs)
         /\ \A i \in 1..Len(bs) : KeysOf(bs)[i] = bs[i].key
         /\ bs = <<>> => KeysOf(bs) = <<>>
<1>1. /\ DOMAIN bs = 1..Len(bs) /\ Len(bs) \in Nat
      /\ \A i \in 1..Len(bs) : bs[i].key \in Text
  <2>1. \A b \in Block : b.key \in Text
    BY DEF Block
  <2> QED BY <2>1
<1>2. KeysOf(bs) = [i \in 1..Len(bs) |-> bs[i].key]
  BY <1>1 DEF KeysOf
<1> QED BY <1>1, <1>2

\* Entering a block.
Enters(bs, b, more) ==
  /\ more \in Seq(Block) /\ more # <<>>
  /\ Len(bs) \in Nat /\ Len(more) = Len(bs) + 1
  /\ \A i \in 1..Len(bs) : more[i] = bs[i]
  /\ more[Len(more)] = b
  /\ Front(KeysOf(more)) = KeysOf(bs)

LEMMA Entering ==
  ASSUME NEW bs \in Seq(Block), NEW b \in Block, NEW more, more = Append(bs, b)
  PROVE  Enters(bs, b, more)
<1>1. /\ more \in Seq(Block) /\ more # <<>>
      /\ Len(bs) \in Nat /\ Len(more) = Len(bs) + 1
      /\ \A i \in 1..Len(bs) : more[i] = bs[i]
      /\ more[Len(more)] = b
  OBVIOUS
<1>2. /\ KeysOf(more) \in Seq(Text) /\ Len(KeysOf(more)) = Len(bs) + 1
      /\ KeysOf(bs) \in Seq(Text) /\ Len(KeysOf(bs)) = Len(bs)
      /\ \A i \in 1..Len(more) : KeysOf(more)[i] = more[i].key
      /\ \A i \in 1..Len(bs) : KeysOf(bs)[i] = bs[i].key
  BY <1>1, KeysFacts
<1>3. KeysOf(more) # <<>>
  BY <1>1, <1>2
<1>4. /\ Front(KeysOf(more)) \in Seq(Text)
      /\ Len(Front(KeysOf(more))) = Len(KeysOf(more)) - 1
      /\ \A i \in 1..(Len(KeysOf(more)) - 1) : Front(KeysOf(more))[i] = KeysOf(more)[i]
  BY <1>2, <1>3, Fronts, Zenon
<1>5. Len(Front(KeysOf(more))) = Len(KeysOf(bs))
  BY <1>1, <1>2, <1>4
<1>6. \A i \in 1..Len(Front(KeysOf(more))) : Front(KeysOf(more))[i] = KeysOf(bs)[i]
  BY <1>1, <1>2, <1>4, SMTT(60)
<1>7. Front(KeysOf(more)) = KeysOf(bs)
  BY <1>2, <1>4, <1>5, <1>6, SeqEqual, Zenon
<1> QED BY <1>1, <1>7 DEF Enters

\* Leaving it.
Leaves(bs, less) ==
  /\ less \in Seq(Block)
  /\ Len(bs) \in Nat \ {0} /\ Len(less) = Len(bs) - 1
  /\ \A i \in 1..Len(less) : less[i] = bs[i]
  /\ KeysOf(less) = Front(KeysOf(bs))

LEMMA Leaving ==
  ASSUME NEW bs \in Seq(Block), bs # <<>>, NEW less, less = Front(bs)
  PROVE  Leaves(bs, less)
<1>1. Len(bs) \in Nat \ {0}
  OBVIOUS
<1>2. /\ less \in Seq(Block) /\ Len(less) = Len(bs) - 1
      /\ \A i \in 1..(Len(bs) - 1) : less[i] = bs[i]
  BY <1>1, Fronts, Zenon
<1>3. /\ KeysOf(less) \in Seq(Text) /\ Len(KeysOf(less)) = Len(bs) - 1
      /\ KeysOf(bs) \in Seq(Text) /\ Len(KeysOf(bs)) = Len(bs)
      /\ \A i \in 1..Len(less) : KeysOf(less)[i] = less[i].key
      /\ \A i \in 1..Len(bs) : KeysOf(bs)[i] = bs[i].key
  BY <1>2, KeysFacts
<1>4. KeysOf(bs) # <<>>
  BY <1>1, <1>3
<1>5. /\ Front(KeysOf(bs)) \in Seq(Text)
      /\ Len(Front(KeysOf(bs))) = Len(KeysOf(bs)) - 1
      /\ \A i \in 1..(Len(KeysOf(bs)) - 1) : Front(KeysOf(bs))[i] = KeysOf(bs)[i]
  BY <1>1, <1>3, <1>4, Fronts, Zenon
<1>6. Len(KeysOf(less)) = Len(Front(KeysOf(bs)))
  BY <1>1, <1>3, <1>5
<1>7. ASSUME NEW i \in 1..Len(KeysOf(less)) PROVE KeysOf(less)[i] = Front(KeysOf(bs))[i]
  <2>1. i \in 1..Len(less) /\ i \in 1..Len(bs) /\ i \in 1..(Len(bs) - 1)
    BY <1>1, <1>2, <1>3
  <2>2. KeysOf(less)[i] = less[i].key /\ less[i] = bs[i] /\ KeysOf(bs)[i] = bs[i].key
    BY <2>1, <1>2, <1>3
  <2>3. Front(KeysOf(bs))[i] = KeysOf(bs)[i]
    BY <2>1, <1>3, <1>5
  <2> QED BY <2>2, <2>3
<1>8. KeysOf(less) = Front(KeysOf(bs))
  BY <1>3, <1>5, <1>6, <1>7, SeqEqual, Zenon
<1> QED BY <1>1, <1>2, <1>8 DEF Leaves

\* Going to another entry of it.
Rekeys(bs, k, new) ==
  /\ new \in Seq(Block)
  /\ Len(bs) \in Nat \ {0} /\ Len(new) = Len(bs)
  /\ \A i \in 1..(Len(bs) - 1) : new[i] = bs[i]
  /\ new[Len(bs)].kind = bs[Len(bs)].kind /\ new[Len(bs)].key = k
  /\ KeysOf(new) = Append(Front(KeysOf(bs)), k)

LEMMA Rekeying ==
  ASSUME NEW bs \in Seq(Block), bs # <<>>, NEW k \in Text,
         NEW new, new = [bs EXCEPT ![Len(bs)].key = k]
  PROVE  Rekeys(bs, k, new)
<1> DEFINE b == [bs[Len(bs)] EXCEPT !.key = k]
<1>1. Len(bs) \in Nat \ {0} /\ bs[Len(bs)] \in Block
  OBVIOUS
<1>2. b \in Block /\ b.kind = bs[Len(bs)].kind /\ b.key = k
  BY <1>1 DEF Block
<1> HIDE DEF b
<1>3. new = [bs EXCEPT ![Len(bs)] = b]
  BY DEF b
<1>4. /\ new \in Seq(Block) /\ Len(new) = Len(bs)
      /\ \A i \in 1..Len(bs) : new[i] = IF i = Len(bs) THEN b ELSE bs[i]
  BY <1>1, <1>2, <1>3
<1>5. /\ KeysOf(new) \in Seq(Text) /\ Len(KeysOf(new)) = Len(bs)
      /\ KeysOf(bs) \in Seq(Text) /\ Len(KeysOf(bs)) = Len(bs)
      /\ \A i \in 1..Len(new) : KeysOf(new)[i] = new[i].key
      /\ \A i \in 1..Len(bs) : KeysOf(bs)[i] = bs[i].key
  BY <1>4, KeysFacts
<1>6. KeysOf(bs) # <<>>
  BY <1>1, <1>5
<1> DEFINE keys == Append(Front(KeysOf(bs)), k)
<1>7. keys = [KeysOf(bs) EXCEPT ![Len(KeysOf(bs))] = k]
  BY <1>5, <1>6, LastReplaced, ZenonT(60)
<1>8. /\ keys \in Seq(Text) /\ Len(keys) = Len(bs)
      /\ \A i \in 1..Len(bs) : keys[i] = IF i = Len(bs) THEN k ELSE KeysOf(bs)[i]
  BY <1>1, <1>5, <1>6, <1>7
<1> HIDE DEF keys
<1>9. ASSUME NEW i \in 1..Len(KeysOf(new)) PROVE KeysOf(new)[i] = keys[i]
  <2>1. i \in 1..Len(bs) /\ i \in 1..Len(new)
    BY <1>4, <1>5
  <2>2. KeysOf(new)[i] = new[i].key /\ KeysOf(bs)[i] = bs[i].key
    BY <2>1, <1>5
  <2>3. keys[i] = IF i = Len(bs) THEN k ELSE KeysOf(bs)[i]
    BY <2>1, <1>8
  <2>4. new[i] = IF i = Len(bs) THEN b ELSE bs[i]
    BY <2>1, <1>4
  <2> QED BY <2>2, <2>3, <2>4, <1>2
<1>10. KeysOf(new) = keys
  BY <1>5, <1>8, <1>9, SeqEqual, Zenon
<1>11. new[Len(bs)] = b /\ \A i \in 1..(Len(bs) - 1) : new[i] = bs[i]
  BY <1>1, <1>4
<1> QED BY <1>1, <1>2, <1>4, <1>10, <1>11 DEF keys, Rekeys

\* The tokens that call nothing.
LEMMA QuietTokens ==
  ASSUME TypeOK, NEW token, Scan(token)
  PROVE  /\ token = Token("KEY") =>
              config' = config /\ parser' = [parser EXCEPT !.isKey = TRUE]
         /\ token = Token("VALUE") =>
              config' = config /\ parser' = [parser EXCEPT !.isKey = FALSE]
         /\ token = Token("BLOCK_END") =>
              config' = config /\ parser' = [parser EXCEPT !.path = PopKey(@)]
         /\ token \in {Token("BLOCK_MAPPING_START"), Token("BLOCK_SEQUENCE_START")} =>
              config' = config /\ parser' = parser
         /\ parser.isKey => \A v : token = ScalarToken(v) =>
              /\ config' = config
              /\ parser' = [parser EXCEPT !.path = PushKey(@, v), !.isKey = FALSE]
<1>1. parser' = Step(parser, token) /\ (parser'.calls = parser.calls => config' = config)
  BY DEF Scan
<1>2. ASSUME token = Token("KEY")
      PROVE  parser' = [parser EXCEPT !.isKey = TRUE]
  BY <1>1, <1>2 DEF Step, Token
<1>3. ASSUME token = Token("VALUE")
      PROVE  parser' = [parser EXCEPT !.isKey = FALSE]
  BY <1>1, <1>3 DEF Step, Token
<1>4. ASSUME token = Token("BLOCK_END")
      PROVE  parser' = [parser EXCEPT !.path = PopKey(@)]
  BY <1>1, <1>4 DEF Step, Token
<1>5. ASSUME token \in {Token("BLOCK_MAPPING_START"), Token("BLOCK_SEQUENCE_START")}
      PROVE  parser' = parser
  BY <1>1, <1>5 DEF Step, Token
<1>6. ASSUME parser.isKey, NEW v, token = ScalarToken(v)
      PROVE  parser' = [parser EXCEPT !.path = PushKey(@, v), !.isKey = FALSE]
  BY <1>1, <1>6 DEF Step, ScalarToken
<1>7. parser \in [path : Seq(Text), isKey : BOOLEAN, calls : Seq(Call)]
  BY DEF TypeOK, Parser
<1> QED BY <1>1, <1>2, <1>3, <1>4, <1>5, <1>6, <1>7

\* The tokens that call a callback.
LEMMA BusyTokens ==
  ASSUME TypeOK, NEW token, Scan(token)
  PROVE  /\ token = Token("BLOCK_ENTRY") =>
              /\ parser' = [parser EXCEPT !.calls = Append(@, EntryCall(parser.path)),
                                          !.path = PushKey(@, "")]
              /\ config' = OnSequenceEntryStart(config, parser.path)
         /\ ~parser.isKey => \A v \in Text : token = ScalarToken(v) =>
              /\ parser' = [parser EXCEPT !.calls = Append(@, ValueCall(parser.path, v)),
                                          !.path = PopKey(@)]
              /\ config' = OnScalarValue(config, parser.path, v)
<1> DEFINE new == parser'
<1>1. /\ new = Step(parser, token)
      /\ config' = IF new.calls = parser.calls THEN config
                   ELSE LET c == Last(new.calls)
                        IN  IF c.call = "value" THEN OnScalarValue(config, c.path, c.value)
                                                ELSE OnSequenceEntryStart(config, c.path)
  BY DEF Scan
<1>2. parser \in [path : Seq(Text), isKey : BOOLEAN, calls : Seq(Call)]
  BY DEF TypeOK, Parser
<1>3. \A c : Append(parser.calls, c) # parser.calls /\ Last(Append(parser.calls, c)) = c
  BY <1>2 DEF Last
<1>4. ASSUME token = Token("BLOCK_ENTRY")
      PROVE  /\ new = [parser EXCEPT !.calls = Append(@, EntryCall(parser.path)),
                                     !.path = PushKey(@, "")]
             /\ config' = OnSequenceEntryStart(config, parser.path)
  <2>1. new = [parser EXCEPT !.calls = Append(@, EntryCall(parser.path)),
                             !.path = PushKey(@, "")]
    BY <1>1, <1>4 DEF Step, Token
  <2>2. new.calls = Append(parser.calls, EntryCall(parser.path))
    BY <2>1, <1>2
  <2>3. EntryCall(parser.path).call = "entry" /\ EntryCall(parser.path).path = parser.path
    BY DEF EntryCall
  <2>4. new.calls # parser.calls /\ Last(new.calls) = EntryCall(parser.path)
    BY <1>3, <2>2
  <2> HIDE DEF new
  <2>5. config' = OnSequenceEntryStart(config, parser.path)
    BY <1>1, <2>3, <2>4
  <2> QED BY <2>1, <2>5
<1>5. ASSUME ~parser.isKey, NEW v \in Text, token = ScalarToken(v)
      PROVE  /\ new = [parser EXCEPT !.calls = Append(@, ValueCall(parser.path, v)),
                                     !.path = PopKey(@)]
             /\ config' = OnScalarValue(config, parser.path, v)
  <2>1. new = [parser EXCEPT !.calls = Append(@, ValueCall(parser.path, v)),
                             !.path = PopKey(@)]
    BY <1>1, <1>5 DEF Step, ScalarToken
  <2>2. new.calls = Append(parser.calls, ValueCall(parser.path, v))
    BY <2>1, <1>2
  <2>3. /\ ValueCall(parser.path, v).call = "value" /\ ValueCall(parser.path, v).value = v
        /\ ValueCall(parser.path, v).path = parser.path
    BY DEF ValueCall
  <2>4. new.calls # parser.calls /\ Last(new.calls) = ValueCall(parser.path, v)
    BY <1>3, <2>2
  <2> HIDE DEF new
  <2>5. config' = OnScalarValue(config, parser.path, v)
    BY <1>1, <2>3, <2>4
  <2> QED BY <2>1, <2>5
<1> QED BY <1>4, <1>5

------------------------------------------------------------------------------
(***************************************************************************)
(* The tokens that call nothing keep the invariant.                        *)
(***************************************************************************)
InDocument(a) == a \notin {"files", "done"}

\* What the files have said stays, and so does the configuration.
LEMMA QuietKeeps ==
  ASSUME Invariant, config' = config, UNCHANGED <<within, files, history>>,
         parser'.calls = parser.calls, InDocument(at), InDocument(at')
  PROVE  CallsOK' /\ ParserReadsTree' /\ ConfigAsWritten'
<1>1. UNCHANGED <<within, files, said, named, items>>
  BY DEF history
<1>2. CallsOK'
  BY <1>1, Zenon DEF Invariant, CallsOK, InDocument
<1>3. ParserReadsTree'
  BY <1>1 DEF Invariant, ParserReadsTree
<1>4. AsWritten' = AsWritten
  BY <1>1, Zenon DEF AsWritten
<1>5. ConfigAsWritten'
  BY <1>1, <1>4, Zenon DEF Invariant, ConfigAsWritten, InDocument
<1> QED BY <1>2, <1>3, <1>5

LEMMA BlockStarts ==
  ASSUME Invariant, StartMapping \/ StartSequence
  PROVE  Invariant'
<1>1. PICK kind \in {"map", "list"},
           type \in {"BLOCK_MAPPING_START", "BLOCK_SEQUENCE_START"} : StartBlock(type, kind)
  BY DEF StartMapping, StartSequence
<1> DEFINE b == [kind |-> kind, key |-> ""]
<1>2. /\ at = "node" /\ at' = "first" /\ Scan(Token(type))
      /\ open' = Append(open, b)
      /\ UNCHANGED <<within, files, history>>
  BY <1>1 DEF StartBlock
<1>3. TypeOK
  BY DEF Invariant
<1>4. config' = config /\ parser' = parser
  BY <1>2, <1>3, QuietTokens
<1>5. b \in Block /\ b.key = ""
  BY NewBlock, Zenon
<1> HIDE DEF b
<1>6. open \in Seq(Block)
  BY <1>3 DEF TypeOK
<1>7. open' = Append(open, b)
  BY <1>2
<1>8. Enters(open, b, open')
  BY <1>5, <1>6, <1>7, Entering, Zenon
<1>9. /\ open' \in Seq(Block) /\ open' # <<>>
      /\ Len(open) \in Nat /\ Len(open') = Len(open) + 1
      /\ \A i \in 1..Len(open) : open'[i] = open[i]
      /\ open'[Len(open')] = b
      /\ Front(KeysOf(open')) = KeysOf(open)
  BY <1>8 DEF Enters
<1>10. TypeOK'
  BY <1>2, <1>3, <1>4, <1>9 DEF TypeOK, history
<1>11. PathIsHere'
  BY <1>2, <1>4, <1>9 DEF Invariant, PathIsHere, Here
<1>12. BlocksOK'
  <2>1. ListKeys'
    <3> SUFFICES ASSUME NEW i \in 1..Len(open'), open'[i].kind = "list"
                 PROVE  open'[i].key = ""
      BY DEF ListKeys
    <3>1. CASE i = Len(open')
      BY <3>1, <1>5, <1>9
    <3>2. CASE i # Len(open')
      <4>1. i \in 1..Len(open) /\ open'[i] = open[i]
        BY <3>2, <1>9
      <4> QED BY <4>1 DEF Invariant, BlocksOK, ListKeys
    <3> QED BY <3>1, <3>2
  <2>2. MapKeys'
    <3> SUFFICES ASSUME NEW i \in 1..Len(open'), open'[i].kind = "map", i < Len(open')
                 PROVE  open'[i].key # ""
      BY <1>2 DEF MapKeys
    <3>1. i \in 1..Len(open) /\ open'[i] = open[i]
      BY <1>9
    <3> QED BY <3>1, <1>2 DEF Invariant, BlocksOK, MapKeys
  <2>3. KeyInMap'
    BY <1>2 DEF KeyInMap
  <2>4. DurableStarted'
    BY <1>2, <1>9 DEF Invariant, BlocksOK, DurableStarted, history
  <2> QED BY <2>1, <2>2, <2>3, <2>4 DEF BlocksOK
<1>13. CallsOK' /\ ParserReadsTree' /\ ConfigAsWritten'
  BY <1>2, <1>4, QuietKeeps DEF InDocument
<1> QED BY <1>10, <1>11, <1>12, <1>13 DEF Invariant

LEMMA KeyBegins ==
  ASSUME Invariant, NewKey
  PROVE  Invariant'
<1>1. /\ at \in {"first", "entry"} /\ at' = "key" /\ open[Len(open)].kind = "map"
      /\ Scan(Token("KEY")) /\ UNCHANGED <<open, within, files, history>>
  BY DEF NewKey, MoreIn
<1>2. TypeOK /\ config' = config /\ parser' = [parser EXCEPT !.isKey = TRUE]
  BY <1>1, QuietTokens DEF Invariant
<1>3. /\ parser'.path = parser.path /\ parser'.isKey /\ parser'.calls = parser.calls
      /\ parser' \in Parser
  BY <1>2 DEF TypeOK, Parser
<1>4. TypeOK'
  BY <1>1, <1>2, <1>3 DEF TypeOK, history
<1>5. PathIsHere'
  BY <1>1, <1>3 DEF Invariant, PathIsHere, Here
<1>6. BlocksOK'
  <2>1. open # <<>> /\ UNCHANGED <<open, items>>
    BY <1>1 DEF history, Invariant, PathIsHere
  <2>2. ListKeys' /\ MapKeys' /\ KeyInMap'
    BY <2>1, <1>1 DEF Invariant, BlocksOK, ListKeys, MapKeys, KeyInMap
  <2>3. DurableStarted'
    BY <2>1, <1>1 DEF Invariant, BlocksOK, DurableStarted
  <2> QED BY <2>2, <2>3 DEF BlocksOK
<1>7. CallsOK' /\ ParserReadsTree' /\ ConfigAsWritten'
  BY <1>1, <1>2, <1>3, QuietKeeps DEF InDocument
<1> QED BY <1>4, <1>5, <1>6, <1>7 DEF Invariant

LEMMA KeyIsRead ==
  ASSUME Invariant, KeyScalar
  PROVE  Invariant'
<1>1. PICK k \in Key : Scan(ScalarToken(k)) /\ open' = [open EXCEPT ![Len(open)].key = k]
  BY DEF KeyScalar
<1>2. at = "key" /\ at' = "mark" /\ UNCHANGED <<within, files, history>>
  BY DEF KeyScalar
<1>3. TypeOK /\ parser.isKey /\ k \in Text /\ k # ""
  BY <1>2, ReaderAssumption DEF Invariant, PathIsHere, Text
<1>4. config' = config /\ parser' = [parser EXCEPT !.path = Append(parser.path, k), !.isKey = FALSE]
  BY <1>1, <1>3, QuietTokens DEF PushKey
<1>5. /\ parser'.path = Append(parser.path, k) /\ ~parser'.isKey
      /\ parser'.calls = parser.calls
      /\ parser' \in Parser
  <2>1. parser \in Parser /\ parser.path \in Seq(Text)
    BY <1>3 DEF TypeOK, Parser
  <2>2. Append(parser.path, k) \in Seq(Text)
    BY <2>1, <1>3, Appended, Zenon
  <2> QED BY <2>1, <2>2, <1>4 DEF Parser
<1>6. open \in Seq(Block) /\ open # <<>> /\ open[Len(open)].kind = "map"
  BY <1>2, <1>3 DEF TypeOK, Invariant, BlocksOK, KeyInMap
<1>7. open' = [open EXCEPT ![Len(open)].key = k] /\ k \in Text
  BY <1>1, <1>3
<1>8. Rekeys(open, k, open')
  BY <1>6, <1>7, Rekeying, Zenon
<1>9. /\ open' \in Seq(Block)
      /\ Len(open) \in Nat \ {0} /\ Len(open') = Len(open)
      /\ \A i \in 1..(Len(open) - 1) : open'[i] = open[i]
      /\ open'[Len(open)].kind = "map" /\ open'[Len(open)].key = k
      /\ KeysOf(open') = Append(Front(KeysOf(open)), k)
  BY <1>6, <1>8 DEF Rekeys
<1>10. TypeOK'
  BY <1>2, <1>3, <1>4, <1>5, <1>9 DEF TypeOK, history
<1>11. PathIsHere'
  BY <1>2, <1>5, <1>9 DEF Invariant, PathIsHere, Here
<1>12. BlocksOK'
  <2>1. ASSUME NEW i \in 1..Len(open')
        PROVE  \/ i = Len(open') /\ open'[i].kind = "map" /\ open'[i].key # ""
               \/ i \in 1..Len(open) /\ i < Len(open) /\ open'[i] = open[i]
    <3>1. CASE i = Len(open)
      BY <3>1, <1>3, <1>9
    <3>2. CASE i # Len(open)
      <4>1. i \in 1..(Len(open) - 1)
        BY <3>2, <1>9
      <4>2. \A n \in Nat : \A j \in 1..(n - 1) : j \in 1..n /\ j < n
        OBVIOUS
      <4>3. Len(open) \in Nat /\ open'[i] = open[i]
        BY <4>1, <1>9
      <4> QED BY <4>1, <4>2, <4>3, Zenon
    <3> QED BY <3>1, <3>2
  <2>2. ListKeys'
    <3> SUFFICES ASSUME NEW i \in 1..Len(open'), open'[i].kind = "list"
                 PROVE  open'[i].key = ""
      BY DEF ListKeys
    <3> QED BY <2>1 DEF Invariant, BlocksOK, ListKeys
  <2>3. MapKeys'
    <3> SUFFICES ASSUME NEW i \in 1..Len(open'), open'[i].kind = "map"
                 PROVE  open'[i].key # ""
      BY DEF MapKeys
    <3> QED BY <2>1 DEF Invariant, BlocksOK, MapKeys
  <2>4. KeyInMap'
    BY <1>6, <1>9 DEF KeyInMap
  <2>5. DurableStarted'
    <3>1. Len(open) >= 2 => open'[1] = open[1] \/ Len(open) = 1
      BY <1>9
    <3>2. Len(open) > 2 => open'[2] = open[2]
      BY <1>9
    <3> QED BY <3>1, <3>2, <1>2, <1>9 DEF Invariant, BlocksOK, DurableStarted, history
  <2> QED BY <2>2, <2>3, <2>4, <2>5 DEF BlocksOK
<1>13. CallsOK' /\ ParserReadsTree' /\ ConfigAsWritten'
  BY <1>2, <1>4, <1>5, QuietKeeps DEF InDocument
<1> QED BY <1>10, <1>11, <1>12, <1>13 DEF Invariant

LEMMA ValueBegins ==
  ASSUME Invariant, ValueMark
  PROVE  Invariant'
<1>1. /\ at = "mark" /\ at' = "node" /\ Scan(Token("VALUE"))
      /\ UNCHANGED <<open, within, files, history>>
  BY DEF ValueMark
<1>2. TypeOK /\ config' = config /\ parser' = [parser EXCEPT !.isKey = FALSE]
  BY <1>1, QuietTokens DEF Invariant
<1>3. /\ parser'.path = parser.path /\ ~parser'.isKey /\ parser'.calls = parser.calls
      /\ parser' \in Parser
  BY <1>2 DEF TypeOK, Parser
<1>4. TypeOK'
  BY <1>1, <1>2, <1>3 DEF TypeOK, history
<1>5. PathIsHere'
  BY <1>1, <1>3 DEF Invariant, PathIsHere, Here
<1>6. BlocksOK'
  <2>1. UNCHANGED <<open, items>> /\ Len(open) \in Nat
    BY <1>1, <1>2 DEF history, TypeOK
  <2>2. ListKeys' /\ MapKeys' /\ KeyInMap'
    BY <2>1, <1>1 DEF Invariant, BlocksOK, ListKeys, MapKeys, KeyInMap
  <2>3. DurableStarted'
    <3>1. Len(open) = 2 => open[2].kind = "map"
      BY <1>1 DEF Invariant, BlocksOK, KeyInMap
    <3>2. DurableStarted
      BY DEF Invariant, BlocksOK
    <3>3. CASE Len(open) = 2
      BY <2>1, <3>1, <3>3 DEF DurableStarted
    <3>4. CASE Len(open) # 2
      <4>1. \A n \in Nat : n # 2 /\ n >= 2 => n > 2
        OBVIOUS
      <4>2. Len(open) >= 2 => Len(open) > 2
        BY <2>1, <3>4, <4>1, Zenon
      <4> QED BY <2>1, <3>2, <4>2 DEF DurableStarted
    <3> QED BY <3>3, <3>4
  <2> QED BY <2>2, <2>3 DEF BlocksOK
<1>7. CallsOK' /\ ParserReadsTree' /\ ConfigAsWritten'
  BY <1>1, <1>2, <1>3, QuietKeeps DEF InDocument
<1> QED BY <1>4, <1>5, <1>6, <1>7 DEF Invariant

LEMMA BlockEnds ==
  ASSUME Invariant, EndBlock
  PROVE  Invariant'
<1>1. /\ at = "entry" /\ open' = Front(open) /\ at' = Behind(open')
      /\ Scan(Token("BLOCK_END")) /\ UNCHANGED <<within, files, history>>
  BY DEF EndBlock
<1>2. TypeOK /\ config' = config /\ parser' = [parser EXCEPT !.path = PopKey(@)]
  BY <1>1, QuietTokens DEF Invariant
<1>3. open # <<>> /\ parser.path = Front(KeysOf(open)) /\ ~parser.isKey
  BY <1>1 DEF Invariant, PathIsHere, Here
<1>4. open \in Seq(Block)
  BY <1>2 DEF TypeOK
<1>5. Leaves(open, open')
  BY <1>1, <1>3, <1>4, Leaving, Zenon
<1>6. /\ open' \in Seq(Block)
      /\ Len(open) \in Nat \ {0} /\ Len(open') = Len(open) - 1
      /\ \A i \in 1..Len(open') : open'[i] = open[i]
      /\ KeysOf(open') = Front(KeysOf(open))
  BY <1>5 DEF Leaves
<1>7. /\ KeysOf(open') \in Seq(Text) /\ Len(KeysOf(open')) = Len(open')
  BY <1>6, KeysFacts
<1>8. open' = <<>> <=> KeysOf(open') = <<>>
  BY <1>6, <1>7
<1>9. /\ PopKey(KeysOf(open')) \in Seq(Text)
      /\ open' # <<>> => PopKey(KeysOf(open')) = Front(KeysOf(open'))
  <2>1. CASE open' = <<>>
    BY <2>1, <1>7, <1>8 DEF PopKey
  <2>2. CASE open' # <<>>
    BY <2>2, <1>7, <1>8, Fronts DEF PopKey
  <2> QED BY <2>1, <2>2
<1>10. /\ parser'.path = PopKey(KeysOf(open')) /\ ~parser'.isKey /\ parser'.calls = parser.calls
       /\ parser' \in Parser
  BY <1>2, <1>3, <1>6, <1>9 DEF TypeOK, Parser
<1>11. at' \in {"end", "entry"} /\ (at' = "entry" => open' # <<>>)
  BY <1>1 DEF Behind
<1>12. TypeOK'
  BY <1>1, <1>2, <1>6, <1>10, <1>11 DEF TypeOK, history
<1>13. PathIsHere'
  BY <1>9, <1>10, <1>11 DEF PathIsHere, Here
<1>14. BlocksOK'
  <2>1. ASSUME NEW i \in 1..Len(open')
        PROVE  i \in 1..Len(open) /\ i < Len(open) /\ open'[i] = open[i]
    BY <1>6
  <2>2. ListKeys'
    <3> SUFFICES ASSUME NEW i \in 1..Len(open'), open'[i].kind = "list"
                 PROVE  open'[i].key = ""
      BY DEF ListKeys
    <3> QED BY <2>1 DEF Invariant, BlocksOK, ListKeys
  <2>3. MapKeys'
    <3> SUFFICES ASSUME NEW i \in 1..Len(open'), open'[i].kind = "map"
                 PROVE  open'[i].key # ""
      BY DEF MapKeys
    <3> QED BY <2>1 DEF Invariant, BlocksOK, MapKeys
  <2>4. KeyInMap'
    BY <1>11 DEF KeyInMap
  <2>5. DurableStarted'
    BY <1>1, <1>6, <1>11 DEF Invariant, BlocksOK, DurableStarted, history
  <2> QED BY <2>2, <2>3, <2>4, <2>5 DEF BlocksOK
<1>15. CallsOK' /\ ParserReadsTree' /\ ConfigAsWritten'
  BY <1>1, <1>2, <1>10, <1>11, QuietKeeps DEF InDocument
<1> QED BY <1>12, <1>13, <1>14, <1>15 DEF Invariant

------------------------------------------------------------------------------
(***************************************************************************)
(* What the files say, as a function of what has been said.                *)
(***************************************************************************)
Written(calls, configPath, dir, its) ==
  LET type == Setting(calls, <<"upper", "type">>, "tmpfs")
  IN  [enabled      |-> Flag(calls, <<"enabled">>, "false"),
       device       |-> Setting(calls, <<"layers", "device">>, "/var/obdev"),
       head         |-> Setting(calls, <<"layers", "head">>, "root"),
       repository   |-> Setting(calls, <<"layers", "repository">>, "overboot"),
       tmpfsSize    |-> Setting(calls, <<"upper", "size">>, "50%"),
       configDir    |-> dir,
       configPath   |-> configPath,
       bindLayers   |-> Flag(calls, <<"layers", "visible">>, "true"),
       useTmpfs     |-> type = "tmpfs",
       clearUpper   |-> type = "volatile",
       upperAsLower |-> Flag(calls, <<"upper", "include_persistent_upper">>, "false"),
       rollback     |-> Flag(calls, <<"rollback">>, "false"),
       safeMode     |-> Flag(calls, <<"safe_mode">>, "false"),
       durables     |-> DurablesOf(its)]

LEMMA AsWrittenIsWritten ==
  AsWritten = Written(said, config.configPath, Last(named), items)
BY DEF AsWritten, Written, DurablesOf

\* An entry of a sequence is no setting.
LEMMA EntryWritten ==
  ASSUME NEW S, NEW calls \in Seq(S), NEW path, NEW configPath, NEW dir, NEW its
  PROVE  Written(Append(calls, EntryCall(path)), configPath, dir, its) =
           Written(calls, configPath, dir, its)
<1>1. EntryCall(path).call # "value"
  BY DEF EntryCall
<1> DEFINE c == EntryCall(path)
<1>2. \A p, d : Setting(Append(calls, c), p, d) =
        IF c.call = "value" /\ c.path = p THEN c.value ELSE Setting(calls, p, d)
  BY SettingAfter
<1>3. \A p, d : Setting(Append(calls, c), p, d) = Setting(calls, p, d)
  BY <1>1, <1>2
<1> HIDE DEF c
<1>4. \A p, d : Flag(Append(calls, c), p, d) = Flag(calls, p, d)
  BY <1>3, Zenon DEF Flag
<1>5. Written(Append(calls, c), configPath, dir, its) = Written(calls, configPath, dir, its)
  BY <1>3, <1>4, ZenonT(60) DEF Written
<1> QED BY <1>5 DEF c

\* The other parts of the configuration.
LEMMA PartsWritten ==
  ASSUME NEW calls, NEW configPath, NEW dir, NEW its
  PROVE  /\ Written(calls, configPath, dir, its).configPath = configPath
         /\ Written(calls, configPath, dir, its).configDir = dir
         /\ Written(calls, configPath, dir, its).durables = DurablesOf(its)
BY DEF Written

LEMMA PathWritten ==
  ASSUME NEW calls, NEW configPath, NEW dir, NEW its, NEW new
  PROVE  Written(calls, new, dir, its) =
           [Written(calls, configPath, dir, its) EXCEPT !.configPath = new]
BY SMTT(60) DEF Written

LEMMA DirWritten ==
  ASSUME NEW calls, NEW configPath, NEW dir, NEW its, NEW new
  PROVE  Written(calls, configPath, new, its) =
           [Written(calls, configPath, dir, its) EXCEPT !.configDir = new]
BY SMTT(60) DEF Written

LEMMA DurablesWritten ==
  ASSUME NEW calls, NEW configPath, NEW dir, NEW its, NEW new
  PROVE  Written(calls, configPath, dir, new) =
           [Written(calls, configPath, dir, its) EXCEPT !.durables = DurablesOf(new)]
BY SMTT(60) DEF Written

\* A value that a callback puts where it belongs.
LEMMA ValueWritten ==
  ASSUME NEW S, NEW calls \in Seq(S), NEW configPath, NEW dir, NEW its, NEW more,
         NEW path, NEW value,
         NEW conf, conf = Written(calls, configPath, dir, its),
         NEW new \in ObConfig, Becomes(conf, path, value, new), new.durables = DurablesOf(more)
  PROVE  new = Written(Append(calls, ValueCall(path, value)), configPath,
                       IF path = <<"config_dir">> THEN value ELSE dir, more)
<1> DEFINE c == ValueCall(path, value)
           next == Append(calls, c)
           type == Setting(next, <<"upper", "type">>, "tmpfs")
<1>1. c.call = "value" /\ c.path = path /\ c.value = value
  BY DEF ValueCall
<1>2. \A p, d : Setting(next, p, d) =
        IF c.call = "value" /\ c.path = p THEN c.value ELSE Setting(calls, p, d)
  BY SettingAfter
<1>3. \A p, d : Setting(next, p, d) = IF path = p THEN value ELSE Setting(calls, p, d)
  BY <1>1, <1>2
<1> HIDE DEF next
<1>4. \A p, d : Flag(next, p, d) = IF path = p THEN IsTrue(value) ELSE Flag(calls, p, d)
  BY <1>3, Zenon DEF Flag, IsTrue
<1>5. /\ conf.enabled = Flag(calls, <<"enabled">>, "false")
      /\ conf.device = Setting(calls, <<"layers", "device">>, "/var/obdev")
      /\ conf.head = Setting(calls, <<"layers", "head">>, "root")
      /\ conf.repository = Setting(calls, <<"layers", "repository">>, "overboot")
      /\ conf.tmpfsSize = Setting(calls, <<"upper", "size">>, "50%")
      /\ conf.configDir = dir
      /\ conf.configPath = configPath
      /\ conf.bindLayers = Flag(calls, <<"layers", "visible">>, "true")
      /\ conf.useTmpfs = (Setting(calls, <<"upper", "type">>, "tmpfs") = "tmpfs")
      /\ conf.clearUpper = (Setting(calls, <<"upper", "type">>, "tmpfs") = "volatile")
      /\ conf.upperAsLower = Flag(calls, <<"upper", "include_persistent_upper">>, "false")
      /\ conf.rollback = Flag(calls, <<"rollback">>, "false")
      /\ conf.safeMode = Flag(calls, <<"safe_mode">>, "false")
  BY Zenon DEF Written
<1>6. /\ new.enabled = Flag(next, <<"enabled">>, "false")
      /\ new.bindLayers = Flag(next, <<"layers", "visible">>, "true")
      /\ new.upperAsLower = Flag(next, <<"upper", "include_persistent_upper">>, "false")
      /\ new.rollback = Flag(next, <<"rollback">>, "false")
      /\ new.safeMode = Flag(next, <<"safe_mode">>, "false")
  <2>1. new.enabled = Flag(next, <<"enabled">>, "false")
    BY <1>4, <1>5, ZenonT(60) DEF Becomes
  <2>2. new.bindLayers = Flag(next, <<"layers", "visible">>, "true")
    BY <1>4, <1>5, ZenonT(60) DEF Becomes
  <2>3. new.upperAsLower = Flag(next, <<"upper", "include_persistent_upper">>, "false")
    BY <1>4, <1>5, ZenonT(60) DEF Becomes
  <2>4. new.rollback = Flag(next, <<"rollback">>, "false")
    BY <1>4, <1>5, ZenonT(60) DEF Becomes
  <2>5. new.safeMode = Flag(next, <<"safe_mode">>, "false")
    BY <1>4, <1>5, ZenonT(60) DEF Becomes
  <2> QED BY <2>1, <2>2, <2>3, <2>4, <2>5
<1>7. /\ new.device = Setting(next, <<"layers", "device">>, "/var/obdev")
      /\ new.head = Setting(next, <<"layers", "head">>, "root")
      /\ new.repository = Setting(next, <<"layers", "repository">>, "overboot")
      /\ new.tmpfsSize = Setting(next, <<"upper", "size">>, "50%")
  <2>1. new.device = Setting(next, <<"layers", "device">>, "/var/obdev")
    BY <1>3, <1>5, ZenonT(60) DEF Becomes
  <2>2. new.head = Setting(next, <<"layers", "head">>, "root")
    BY <1>3, <1>5, ZenonT(60) DEF Becomes
  <2>3. new.repository = Setting(next, <<"layers", "repository">>, "overboot")
    BY <1>3, <1>5, ZenonT(60) DEF Becomes
  <2>4. new.tmpfsSize = Setting(next, <<"upper", "size">>, "50%")
    BY <1>3, <1>5, ZenonT(60) DEF Becomes
  <2> QED BY <2>1, <2>2, <2>3, <2>4
<1>8. /\ new.useTmpfs = (type = "tmpfs")
      /\ new.clearUpper = (type = "volatile")
  <2>1. CASE path = <<"upper", "type">>
    <3>1. type = value
      BY <2>1, <1>3, Zenon
    <3> HIDE DEF type
    <3> QED BY <2>1, <3>1, Zenon DEF Becomes
  <2>2. CASE path # <<"upper", "type">>
    <3>1. type = Setting(calls, <<"upper", "type">>, "tmpfs")
      BY <2>2, <1>3, Zenon
    <3> HIDE DEF type
    <3> QED BY <2>2, <3>1, <1>5, Zenon DEF Becomes
  <2> QED BY <2>1, <2>2
<1>9. /\ new.configDir = IF path = <<"config_dir">> THEN value ELSE dir
      /\ new.configPath = configPath
  BY <1>5, Zenon DEF Becomes
<1> HIDE DEF type
<1>10. new = [enabled |-> new.enabled, device |-> new.device, head |-> new.head,
              repository |-> new.repository, tmpfsSize |-> new.tmpfsSize,
              configDir |-> new.configDir, configPath |-> new.configPath, bindLayers |-> new.bindLayers,
              useTmpfs |-> new.useTmpfs, clearUpper |-> new.clearUpper,
              upperAsLower |-> new.upperAsLower, rollback |-> new.rollback,
              safeMode |-> new.safeMode, durables |-> new.durables]
  BY DEF ObConfig
<1>11. new = Written(next, configPath, IF path = <<"config_dir">> THEN value ELSE dir, more)
  BY <1>6, <1>7, <1>8, <1>9, <1>10, Zenon DEF Written, type
<1> QED BY <1>11 DEF next

------------------------------------------------------------------------------
(***************************************************************************)
(* The tokens that call something keep the invariant.                      *)
(***************************************************************************)

\* An item of a list of durables is known to have begun.
LEMMA ItemIsOpen ==
  ASSUME TypeOK, BlocksOK, at = "node", InItem(Here)
  PROVE  items # <<>>
<1>1. open \in Seq(Block)
  BY DEF TypeOK
<1>2. /\ Len(Here) = Len(open)
      /\ \A i \in 1..Len(open) : Here[i] = open[i].key
  BY <1>1, KeysFacts DEF Here
<1>3. Len(open) = 3 /\ open[1].key = "durables" /\ open[2].key = ""
  <2>1. Len(Here) = 3 /\ Here[1] = "durables" /\ Here[2] = ""
    BY DEF InItem
  <2>2. Len(open) = 3
    BY <2>1, <1>2
  <2>3. 1 \in 1..Len(open) /\ 2 \in 1..Len(open)
    BY <2>2
  <2> QED BY <2>1, <2>2, <2>3, <1>2
<1>4. 2 \in 1..Len(open) /\ 2 < Len(open) /\ Len(open) >= 2 /\ Len(open) > 2
  <2>1. \A n : n = 3 => 2 \in 1..n /\ 2 < n /\ n >= 2 /\ n > 2
    OBVIOUS
  <2> QED BY <2>1, <1>3, Zenon
<1>5. open[2] \in Block
  BY <1>1, <1>4
<1>6. open[2].kind = "list"
  <2>1. open[2].kind \in {"map", "list"}
    BY <1>5 DEF Block
  <2> QED BY <2>1, <1>3, <1>4 DEF BlocksOK, MapKeys
<1> QED BY <1>3, <1>6, <1>4, Zenon DEF BlocksOK, DurableStarted

\* The calls so far are no reason to read a directory another way.
LEMMA CallsStay ==
  ASSUME CallsOK, UNCHANGED <<within, named>>, InDocument(at), InDocument(at')
  PROVE  CallsOK'
BY Zenon DEF CallsOK, InDocument

LEMMA ItemIsNew ==
  ASSUME Invariant, NewItem
  PROVE  Invariant'
<1>1. /\ at \in {"first", "entry"} /\ at' = "node" /\ open[Len(open)].kind = "list"
      /\ Scan(Token("BLOCK_ENTRY"))
      /\ said' = Append(said, EntryCall(Front(Here)))
      /\ items' = IF Front(Here) = <<"durables">> THEN Append(items, <<>>) ELSE items
      /\ open' = open /\ within' = within /\ files' = files /\ named' = named
  BY DEF NewItem, MoreIn
<1> DEFINE p == Front(Here)
           call == EntryCall(p)
<1>2. TypeOK /\ open # <<>> /\ parser.path = p /\ ~parser.isKey /\ parser.calls = said
  BY <1>1 DEF Invariant, PathIsHere, ParserReadsTree
<1>3. /\ parser' = [parser EXCEPT !.calls = Append(@, call), !.path = PushKey(@, "")]
      /\ config' = OnSequenceEntryStart(config, p)
  BY <1>1, <1>2, BusyTokens
<1>4. /\ open \in Seq(Block) /\ parser \in Parser /\ said \in Seq(Call)
      /\ items \in Seq(Seq(Call)) /\ config \in ObConfig /\ parser.path \in Seq(Text)
  BY <1>2 DEF TypeOK, Parser
<1>5. /\ Here \in Seq(Text) /\ Len(Here) = Len(open) /\ Len(open) \in Nat \ {0}
      /\ \A i \in 1..Len(open) : Here[i] = open[i].key
      /\ Here # <<>>
  <2>1. /\ Here \in Seq(Text) /\ Len(Here) = Len(open)
        /\ \A i \in 1..Len(open) : Here[i] = open[i].key
    BY <1>4, KeysFacts DEF Here
  <2> QED BY <2>1, <1>2, <1>4
<1>6. p \in Seq(Text) /\ Len(p) = Len(open) - 1 /\ \A i \in 1..(Len(open) - 1) : p[i] = Here[i]
  BY <1>5, Fronts, Zenon
<1>7. Here[Len(Here)] = "" /\ "" \in Text
  <2>1. Len(open) \in 1..Len(open) /\ Len(Here) = Len(open)
    BY <1>5
  <2>2. open[Len(open)].key = ""
    BY <1>1, <2>1 DEF Invariant, BlocksOK, ListKeys
  <2> QED BY <2>1, <2>2, <1>5 DEF Text
<1>8. Append(p, "") = Here
  <2>1. Append(p, "") = [Here EXCEPT ![Len(Here)] = ""]
    BY <1>5, <1>7, LastReplaced, Zenon
  <2>2. [Here EXCEPT ![Len(Here)] = Here[Len(Here)]] = Here
    BY <1>5
  <2> QED BY <2>1, <2>2, <1>7
<1>9. call \in Call
  BY <1>6 DEF EntryCall, Call
<1> HIDE DEF p, call
<1>10. said' \in Seq(Call) /\ said' = Append(said, call)
  BY <1>1, <1>4, <1>9, Appended, Zenon DEF p, call
<1>11. /\ parser'.calls = said' /\ parser'.path = Here /\ ~parser'.isKey
       /\ parser' \in Parser
  <2>1. /\ parser'.calls = Append(parser.calls, call) /\ parser'.path = Append(p, "")
        /\ parser'.isKey = parser.isKey /\ parser' = [parser EXCEPT !.calls = said', !.path = Here]
    BY <1>2, <1>3, <1>4, <1>8, <1>10 DEF PushKey, Parser
  <2> QED BY <2>1, <1>2, <1>4, <1>5, <1>8, <1>10 DEF Parser
<1>12. items' \in Seq(Seq(Call)) /\ (items # <<>> => items' # <<>>)
       /\ (p = <<"durables">> => items' # <<>>)
  <2>1. CASE p = <<"durables">>
    <3>1. items' = Append(items, <<>>) /\ <<>> \in Seq(Call)
      BY <2>1, <1>1 DEF p
    <3>2. items' \in Seq(Seq(Call))
      BY <3>1, <1>4, Appended, Zenon
    <3>3. items' # <<>>
      <4>1. \A s \in Seq(Seq(Call)) : \A x \in Seq(Call) : Append(s, x) # <<>>
        OBVIOUS
      <4> QED BY <3>1, <1>4, <4>1, Zenon
    <3> QED BY <3>2, <3>3
  <2>2. CASE p # <<"durables">>
    BY <2>2, <1>1, <1>4, Zenon DEF p
  <2> QED BY <2>1, <2>2
<1> DEFINE path == config.configPath
<1>13. config = Written(said, path, Last(named), items)
  BY AsWrittenIsWritten, Zenon DEF Invariant, ConfigAsWritten
<1> HIDE DEF path
<1>14. config.durables = DurablesOf(items)
  BY <1>13, PartsWritten
<1>15. config' \in ObConfig /\ config' = [config EXCEPT !.durables = DurablesOf(items')]
  <2>1. config.durables = DurablesOf(items)
    BY <1>14
  <2>2. config.durables \in Seq(DurableRecord) /\ BlankDurable \in DurableRecord
    BY <1>4 DEF ObConfig, BlankDurable, DurableRecord, Text
  <2>3. CASE p = <<"durables">>
    <3>1. config' = [config EXCEPT !.durables = <<BlankDurable>> \o @]
      BY <1>3, <2>3 DEF OnSequenceEntryStart, AddDurable
    <3>2. DurablesOf(items') = <<BlankDurable>> \o config.durables
      <4>1. items' = Append(items, <<>>)
        BY <1>1, <2>3 DEF p
      <4> QED BY <4>1, <2>1, <1>4, ItemBegins
    <3>3. <<BlankDurable>> \o config.durables \in Seq(DurableRecord)
      BY <2>2
    <3> QED BY <3>1, <3>2, <3>3, <1>4 DEF ObConfig
  <2>4. CASE p # <<"durables">>
    <3>1. config' = config /\ items' = items
      BY <1>1, <1>3, <2>4 DEF OnSequenceEntryStart, p
    <3> QED BY <3>1, <2>1, <1>4 DEF ObConfig
  <2> QED BY <2>3, <2>4
<1>16. TypeOK'
  BY <1>1, <1>2, <1>10, <1>11, <1>12, <1>15 DEF TypeOK
<1>17. Here' = Here
  BY <1>1 DEF Here
<1>18. PathIsHere'
  BY <1>1, <1>11, <1>17 DEF PathIsHere
<1>19. BlocksOK'
  <2>1. ListKeys'
    BY <1>1 DEF Invariant, BlocksOK, ListKeys
  <2>2. MapKeys'
    <3> SUFFICES ASSUME NEW i \in 1..Len(open), open[i].kind = "map"
                 PROVE  open[i].key # ""
      BY <1>1 DEF MapKeys
    <3>1. i < Len(open)
      <4>1. i # Len(open)
        BY <1>1
      <4> QED BY <4>1, <1>5
    <3> QED BY <3>1 DEF Invariant, BlocksOK, MapKeys
  <2>3. KeyInMap'
    BY <1>1 DEF KeyInMap
  <2>4. DurableStarted'
    <3> SUFFICES ASSUME Len(open) >= 2, open[1].key = "durables", open[2].kind = "list"
                 PROVE  items' # <<>>
      BY <1>1 DEF DurableStarted
    <3>1. CASE Len(open) = 2
      <4>1. Len(p) = 1 /\ 1 \in 1..Len(open) /\ 1 \in 1..(Len(open) - 1)
        BY <3>1, <1>6
      <4>2. p[1] = "durables"
        BY <4>1, <1>5, <1>6
      <4>3. p = <<"durables">>
        BY <4>1, <4>2, <1>6
      <4> QED BY <4>3, <1>12
    <3>2. CASE Len(open) # 2
      <4>1. \A n \in Nat : n # 2 /\ n >= 2 => n > 2
        OBVIOUS
      <4>2. Len(open) > 2
        BY <3>2, <4>1, <1>5, Zenon
      <4> QED BY <4>2, <1>12 DEF Invariant, BlocksOK, DurableStarted
    <3> QED BY <3>1, <3>2
  <2> QED BY <2>1, <2>2, <2>3, <2>4 DEF BlocksOK
<1>20. CallsOK'
  BY <1>1, CallsStay DEF Invariant, InDocument
<1>21. ParserReadsTree'
  BY <1>11 DEF ParserReadsTree
<1>22. ConfigAsWritten'
  <2>1. Written(said, path, Last(named), items') =
          [Written(said, path, Last(named), items) EXCEPT !.durables = DurablesOf(items')]
    BY DurablesWritten
  <2>2. config' = Written(said, path, Last(named), items')
    BY <2>1, <1>15, <1>13, Zenon
  <2>3. Written(said', path, Last(named), items') = Written(said, path, Last(named), items')
    <3>1. Written(Append(said, EntryCall(p)), path, Last(named), items') =
            Written(said, path, Last(named), items')
      BY <1>4, EntryWritten
    <3> QED BY <3>1, <1>10, Zenon DEF call
  <2>4. config'.configPath = path
    BY <1>4, <1>15 DEF ObConfig, path
  <2>5. AsWritten' = Written(said', config'.configPath, Last(named'), items')
    BY DEF AsWritten, Written, DurablesOf
  <2>6. config' = AsWritten'
    BY <2>2, <2>3, <2>4, <2>5, <1>1, Zenon
  <2> QED BY <2>6, <1>1 DEF Invariant, ConfigAsWritten
<1> QED BY <1>16, <1>18, <1>19, <1>20, <1>21, <1>22 DEF Invariant

LEMMA Three ==
  ASSUME NEW S, NEW s \in Seq(S), Len(s) = 3
  PROVE  s = <<s[1], s[2], s[3]>>
<1>1. s = [i \in 1..3 |-> s[i]]
  OBVIOUS
<1> QED BY <1>1

\* The durables after a value in an item.
Puts(conf, path, value, new, more) ==
  new \in ObConfig /\ Becomes(conf, path, value, new) /\ new.durables = DurablesOf(more)

LEMMA ItemSays ==
  ASSUME NEW conf \in ObConfig, NEW S, NEW its \in Seq(Seq(S)), its # <<>>,
         conf.durables = DurablesOf(its), NEW path, InItem(path), NEW T, path \in Seq(T),
         NEW value \in Text, NEW new, new = OnScalarValue(conf, path, value),
         NEW more,
         more = [its EXCEPT ![Len(its)] = Append(its[Len(its)], ValueCall(<<path[3]>>, value))]
  PROVE  Puts(conf, path, value, new, more)
<1> DEFINE last == its[Len(its)]
           said1 == Append(last, ValueCall(<<path[3]>>, value))
<1>1. last \in Seq(S)
  OBVIOUS
<1>2. Durable(said1) = DurableWith(Durable(last), path[3], value)
  BY <1>1, DurableSaysMore
<1>3. /\ conf.durables # <<>> /\ conf.durables[1] = Durable(last)
      /\ DurablesOf(more) = <<Durable(said1)>> \o Tail(conf.durables)
  BY ItemGoesOn
<1> HIDE DEF last, said1
<1>4. CASE path \in ItemPaths
  <2>1. /\ new \in ObConfig /\ Becomes(conf, path, value, new)
        /\ new.durables =
             <<DurableWith(conf.durables[1], path[3], value)>> \o Tail(conf.durables)
    BY <1>3, <1>4, ItemValue
  <2> QED BY <2>1, <1>2, <1>3 DEF Puts
<1>5. CASE path \notin ItemPaths
  <2>1. new \in ObConfig /\ Becomes(conf, path, value, new) /\ new.durables = conf.durables
    BY <1>5, OtherValue
  <2>2. path = <<"durables", "", path[3]>>
    BY Three DEF InItem
  <2>3. path[3] \notin {"path", "copy_origin", "default_type"}
    BY <2>2, <1>5 DEF ItemPaths
  <2>4. DurableWith(Durable(last), path[3], value) = Durable(last)
    BY <2>3, Zenon DEF DurableWith, Durable
  <2>5. conf.durables \in Seq(DurableRecord)
    BY DEF ObConfig
  <2>6. <<conf.durables[1]>> \o Tail(conf.durables) = conf.durables
    BY <2>5, <1>3
  <2>7. DurablesOf(more) = conf.durables
    BY <2>4, <2>6, <1>2, <1>3
  <2> QED BY <2>1, <2>7 DEF Puts
<1> QED BY <1>4, <1>5

\* The first elements of two sequences.
SamePrefix(s, t, n) == SubSeq(s, 1, n) = SubSeq(t, 1, n)

LEMMA PrefixStays ==
  ASSUME NEW S, NEW s \in Seq(S), NEW t \in Seq(S), NEW n \in Nat, n <= Len(s), n <= Len(t),
         \A i \in 1..n : s[i] = t[i]
  PROVE  SamePrefix(s, t, n)
<1>1. \A i \in 1..n : s[i] \in S /\ t[i] \in S
  OBVIOUS
<1>2. /\ SubSeq(s, 1, n) \in Seq(S)
      /\ Len(SubSeq(s, 1, n)) = IF 1 <= n THEN n - 1 + 1 ELSE 0
      /\ \A i \in 1..(n - 1 + 1) : SubSeq(s, 1, n)[i] = s[1 + i - 1]
  BY <1>1, SubSeqProperties, SMTT(20)
<1>3. /\ SubSeq(t, 1, n) \in Seq(S)
      /\ Len(SubSeq(t, 1, n)) = IF 1 <= n THEN n - 1 + 1 ELSE 0
      /\ \A i \in 1..(n - 1 + 1) : SubSeq(t, 1, n)[i] = t[1 + i - 1]
  BY <1>1, SubSeqProperties, SMTT(20)
<1>4. /\ Len(SubSeq(s, 1, n)) = n /\ \A i \in 1..n : SubSeq(s, 1, n)[i] = s[i]
      /\ Len(SubSeq(t, 1, n)) = n /\ \A i \in 1..n : SubSeq(t, 1, n)[i] = t[i]
  BY <1>2, <1>3
<1>5. \A i \in 1..Len(SubSeq(s, 1, n)) : SubSeq(s, 1, n)[i] = SubSeq(t, 1, n)[i]
  BY <1>4
<1> QED BY <1>2, <1>3, <1>4, <1>5, SeqEqual, Zenon DEF SamePrefix

LEMMA ValueIsRead ==
  ASSUME Invariant, ValueScalar
  PROVE  Invariant'
<1> DEFINE p == Here
           path == config.configPath
<1>1. PICK v \in Value :
        /\ Scan(ScalarToken(v))
        /\ said' = Append(said, ValueCall(p, v))
        /\ named' = IF p = <<"config_dir">> THEN [named EXCEPT ![Len(named)] = v] ELSE named
        /\ items' = IF InItem(p)
                      THEN [items EXCEPT ![Len(items)] = Append(@, ValueCall(<<p[3]>>, v))]
                      ELSE items
  BY DEF ValueScalar
<1>2. /\ at = "node" /\ at' = Behind(open)
      /\ open' = open /\ within' = within /\ files' = files
  BY DEF ValueScalar
<1> DEFINE call == ValueCall(p, v)
<1>3. TypeOK /\ parser.path = p /\ ~parser.isKey /\ parser.calls = said /\ v \in Text
  BY <1>1, <1>2 DEF Invariant, PathIsHere, ParserReadsTree, Text
<1>4. /\ open \in Seq(Block) /\ parser \in Parser /\ said \in Seq(Call)
      /\ items \in Seq(Seq(Call)) /\ config \in ObConfig /\ named \in Seq(Text)
      /\ at \notin {"files", "done"}
  BY <1>2, <1>3 DEF TypeOK
<1>5. /\ parser' = [parser EXCEPT !.calls = Append(@, call), !.path = PopKey(@)]
      /\ config' = OnScalarValue(config, p, v)
  BY <1>1, <1>3, BusyTokens
<1>6. /\ p \in Seq(Text) /\ Len(p) = Len(open) /\ Len(open) \in Nat
      /\ p = <<>> <=> open = <<>>
  <2>1. /\ p \in Seq(Text) /\ Len(p) = Len(open)
    BY <1>4, KeysFacts DEF Here
  <2> QED BY <2>1, <1>4
<1>7. /\ PopKey(p) \in Seq(Text)
      /\ open # <<>> => PopKey(p) = Front(p)
  <2>1. CASE p = <<>>
    BY <2>1, <1>6 DEF PopKey
  <2>2. CASE p # <<>>
    BY <2>2, <1>6, Fronts DEF PopKey
  <2> QED BY <2>1, <2>2
<1>8. call \in Call
  BY <1>3, <1>6 DEF ValueCall, Call
<1>9. config = Written(said, path, Last(named), items)
  BY AsWrittenIsWritten DEF Invariant, ConfigAsWritten
<1>10. Here' = p
  BY <1>2 DEF Here
<1>11. InItem(p) => items # <<>>
  BY <1>2, <1>3, ItemIsOpen DEF Invariant
<1> HIDE DEF p, call, path
<1>12. said' \in Seq(Call) /\ said' = Append(said, call)
  BY <1>1, <1>4, <1>8, Appended, Zenon DEF call
<1>13. /\ parser'.calls = said' /\ parser'.path = PopKey(p) /\ ~parser'.isKey
       /\ parser' \in Parser
  <2>1. /\ parser' = [parser EXCEPT !.calls = said', !.path = PopKey(p)]
    BY <1>3, <1>4, <1>5, <1>12 DEF Parser
  <2> QED BY <2>1, <1>3, <1>4, <1>7, <1>12 DEF Parser
<1>14. config.durables = DurablesOf(items)
  BY <1>9, PartsWritten
<1>15. /\ config' \in ObConfig /\ Becomes(config, p, v, config')
       /\ config'.durables = DurablesOf(items')
  <2>1. CASE InItem(p)
    <3>1. items' = [items EXCEPT ![Len(items)] =
                      Append(items[Len(items)], ValueCall(<<p[3]>>, v))]
      BY <2>1, <1>1
    <3>2. items # <<>> /\ p \in Seq(Text) /\ config' = OnScalarValue(config, p, v)
      BY <2>1, <1>5, <1>6, <1>11
    <3>3. Puts(config, p, v, config', items')
      BY <2>1, <3>1, <3>2, <1>3, <1>4, <1>14, ItemSays, Zenon
    <3> QED BY <3>3 DEF Puts
  <2>2. CASE ~InItem(p)
    <3>1. p \notin ItemPaths
      <4>1. \A q \in ItemPaths : InItem(q)
        <5>1. \A x, y, z : /\ Len(<<x, y, z>>) = 3
                           /\ <<x, y, z>>[1] = x /\ <<x, y, z>>[2] = y
          OBVIOUS
        <5>2. \A z : InItem(<<"durables", "", z>>)
          BY <5>1 DEF InItem
        <5> QED BY <5>2, Zenon DEF ItemPaths
      <4> QED BY <4>1, <2>2, Zenon
    <3>2. items' = items
      BY <2>2, <1>1
    <3>3. config' \in ObConfig /\ Becomes(config, p, v, config')
          /\ config'.durables = config.durables
      BY <3>1, <1>3, <1>4, <1>5, OtherValue
    <3> QED BY <3>2, <3>3, <1>14
  <2> QED BY <2>1, <2>2
<1>16. items' \in Seq(Seq(Call)) /\ (items # <<>> => items' # <<>>)
  <2>1. CASE InItem(p)
    <3>1. items[Len(items)] \in Seq(Call) /\ Len(items) \in 1..Len(items)
      BY <2>1, <1>4, <1>11
    <3>2. p[3] \in Text
      <4>1. \A s \in Seq(Text) : Len(s) = 3 => s[3] \in Text
        OBVIOUS
      <4> QED BY <4>1, <2>1, <1>6 DEF InItem
    <3>3. ValueCall(<<p[3]>>, v) \in Call
      BY <3>2, <1>3 DEF ValueCall, Call
    <3> DEFINE item == Append(items[Len(items)], ValueCall(<<p[3]>>, v))
    <3>4. item \in Seq(Call)
      BY <3>1, <3>3, Appended, Zenon
    <3>5. items' = [items EXCEPT ![Len(items)] = item]
      BY <2>1, <1>1
    <3> HIDE DEF item
    <3> QED BY <3>1, <3>4, <3>5, <1>4
  <2>2. CASE ~InItem(p)
    BY <2>2, <1>1, <1>4
  <2> QED BY <2>1, <2>2
<1>17. /\ Len(named) \in Nat \ {0} /\ Len(named) = Len(within) + 1
       /\ within \in Seq([dir : Seq(Text), saved : Text])
       /\ \A i \in 1..Len(within) : i < Len(named) => within[i].saved = named[i]
       /\ \A i \in 1..Len(within) : within[i].dir = SubSeq(named, 1, i)
  <2>1. within \in Seq([dir : Seq(Text), saved : Text]) /\ DOMAIN within = 1..Len(within)
        /\ Len(within) \in Nat
    BY <1>3 DEF TypeOK
  <2>2. Len(named) = Len(within) + 1
    BY <1>4 DEF Invariant, CallsOK
  <2>3. \A i \in 1..Len(within) : i < Len(named) => within[i].saved = named[i]
    BY <2>1, Zenon DEF Invariant, CallsOK
  <2>4. \A i \in 1..Len(within) : within[i].dir = SubSeq(named, 1, i)
    BY <2>1, Zenon DEF Invariant, ConfigAsWritten
  <2>5. Len(named) \in Nat \ {0}
    BY <2>1, <2>2
  <2> QED BY <2>1, <2>2, <2>3, <2>4, <2>5
<1>18. /\ named' \in Seq(Text) /\ Len(named') = Len(named)
       /\ \A i \in 1..Len(within) : named'[i] = named[i]
       /\ Last(named') = IF p = <<"config_dir">> THEN v ELSE Last(named)
  <2>1. CASE p = <<"config_dir">>
    BY <2>1, <1>1, <1>3, <1>4, <1>17 DEF Last
  <2>2. CASE p # <<"config_dir">>
    BY <2>2, <1>1, <1>4
  <2> QED BY <2>1, <2>2
<1>19. at' \in {"end", "entry"} /\ (at' = "entry" => open # <<>>)
  BY <1>2 DEF Behind
<1>20. TypeOK'
  BY <1>2, <1>3, <1>12, <1>13, <1>15, <1>16, <1>18, <1>19 DEF TypeOK
<1>21. PathIsHere'
  BY <1>2, <1>7, <1>10, <1>13, <1>19 DEF PathIsHere
<1>22. BlocksOK'
  BY <1>2, <1>16, <1>19, Zenon
     DEF Invariant, BlocksOK, ListKeys, MapKeys, KeyInMap, DurableStarted
<1>23. CallsOK'
  BY <1>2, <1>17, <1>18, <1>19 DEF CallsOK
<1>24. ParserReadsTree'
  BY <1>13 DEF ParserReadsTree
<1>25. ConfigAsWritten'
  <2>1. config' = Written(Append(said, ValueCall(p, v)), path,
                          IF p = <<"config_dir">> THEN v ELSE Last(named), items')
    BY <1>4, <1>9, <1>15, ValueWritten
  <2>2. config' = Written(said', path, Last(named'), items')
    BY <2>1, <1>12, <1>18 DEF call
  <2>3. config'.configPath = path
    BY <2>2, PartsWritten
  <2>4. AsWritten' = Written(said', config'.configPath, Last(named'), items')
    BY DEF AsWritten, Written, DurablesOf
  <2>5. config' = AsWritten'
    BY <2>2, <2>3, <2>4, Zenon
  <2>6. ASSUME NEW i \in DOMAIN within' PROVE within'[i].dir = SubSeq(named', 1, i)
    <3>1. /\ i \in 1..Len(within) /\ i \in Nat /\ i <= Len(named) /\ i <= Len(named')
          /\ named \in Seq(Text) /\ named' \in Seq(Text)
      BY <1>2, <1>4, <1>17, <1>18
    <3>2. \A j \in 1..i : named'[j] = named[j]
      BY <3>1, <1>17, <1>18
    <3>3. SamePrefix(named', named, i)
      BY <3>1, <3>2, PrefixStays, Zenon
    <3> QED BY <3>1, <3>3, <1>2, <1>17 DEF SamePrefix
  <2> QED BY <2>5, <2>6, <1>19 DEF ConfigAsWritten
<1> QED BY <1>20, <1>21, <1>22, <1>23, <1>24, <1>25 DEF Invariant

------------------------------------------------------------------------------
(***************************************************************************)
(* Files and directories keep the invariant.                               *)
(***************************************************************************)
Place == [dir : Seq(Text), saved : Text]

\* Each directory is the one that its file has named, and is what that call
\* puts back.
Recalled(dirs, ns) ==
  \A i \in 1..Len(dirs) : dirs[i].saved = ns[i] /\ dirs[i].dir = SubSeq(ns, 1, i)

\* A directory is still the right one when another name follows or the last is left.
LEMMA StillRecalled ==
  ASSUME NEW dirs \in Seq(Place), NEW ns \in Seq(Text), NEW new \in Seq(Text),
         Recalled(dirs, ns), Len(dirs) <= Len(ns), Len(dirs) <= Len(new),
         \A i \in 1..Len(dirs) : new[i] = ns[i]
  PROVE  Recalled(dirs, new)
<1> SUFFICES ASSUME NEW i \in 1..Len(dirs)
             PROVE  dirs[i].saved = new[i] /\ dirs[i].dir = SubSeq(new, 1, i)
  BY DEF Recalled
<1>1. Len(dirs) \in Nat /\ Len(ns) \in Nat /\ Len(new) \in Nat
  OBVIOUS
<1>2. i \in Nat /\ i <= Len(ns) /\ i <= Len(new) /\ \A j \in 1..i : j \in 1..Len(dirs)
  BY <1>1
<1>3. \A j \in 1..i : new[j] = ns[j]
  BY <1>2
<1>4. SamePrefix(new, ns, i)
  BY <1>2, <1>3, PrefixStays, Zenon
<1> QED BY <1>4 DEF Recalled, SamePrefix

\* What is known outside of a document.
LEMMA Recollection ==
  ASSUME TypeOK, CallsOK, ConfigAsWritten
  PROVE  /\ within \in Seq(Place) /\ Len(within) \in Nat /\ named \in Seq(Text)
         /\ InDocument(at) => Recalled(within, named) /\ Len(named) = Len(within) + 1
         /\ at = "files" => within # <<>> /\ Len(named) = Len(within)
         /\ \A i \in 1..Len(within) : i < Len(named) => within[i].saved = named[i]
         /\ \A i \in 1..Len(within) : within[i].dir = SubSeq(named, 1, i)
<1>1. /\ within \in Seq(Place) /\ Len(within) \in Nat /\ named \in Seq(Text)
      /\ DOMAIN within = 1..Len(within)
  BY DEF TypeOK, Place
<1>2. \A i \in 1..Len(within) : i < Len(named) => within[i].saved = named[i]
  BY <1>1, Zenon DEF CallsOK
<1>3. \A i \in 1..Len(within) : within[i].dir = SubSeq(named, 1, i)
  BY <1>1, Zenon DEF ConfigAsWritten
<1>4. at = "files" => within # <<>> /\ Len(named) = Len(within)
  BY <1>1 DEF CallsOK
<1>5. ASSUME InDocument(at) PROVE Recalled(within, named) /\ Len(named) = Len(within) + 1
  <2>1. Len(named) = Len(within) + 1
    BY <1>1, <1>5 DEF CallsOK, InDocument
  <2>2. ASSUME NEW i \in 1..Len(within) PROVE i < Len(named)
    BY <2>1, <1>1
  <2>3. Recalled(within, named)
    BY <2>2, <1>2, <1>3, Zenon DEF Recalled
  <2> QED BY <2>1, <2>3
<1> QED BY <1>1, <1>2, <1>3, <1>4, <1>5

LEMMA EmptySequence ==
  /\ \A S : <<>> \in Seq(S)
  /\ Len(<<>>) = 0 /\ DOMAIN <<>> = {} /\ 1..Len(<<>>) = {} /\ KeysOf(<<>>) = <<>>
  /\ ~(Len(<<>>) >= 2)
<1>1. /\ \A S : <<>> \in Seq(S)
      /\ Len(<<>>) = 0 /\ DOMAIN <<>> = {}
  OBVIOUS
<1>2. 1..Len(<<>>) = {} /\ ~(Len(<<>>) >= 2)
  BY <1>1
<1>3. KeysOf(<<>>) = <<>>
  BY DEF KeysOf
<1> QED BY <1>1, <1>2, <1>3

\* The other way round.
LEMMA Recollected ==
  ASSUME NEW dirs \in Seq(Place), dirs = within', named' \in Seq(Text), Recalled(dirs, named'),
         Len(named') = Len(dirs) + (IF at' = "files" THEN 0 ELSE 1),
         at' = "files" => dirs # <<>>, at' = "done" => dirs = <<>>
  PROVE  CallsOK' /\ \A i \in DOMAIN within' : within'[i].dir = SubSeq(named', 1, i)
<1>1. DOMAIN dirs = 1..Len(dirs)
  OBVIOUS
<1> QED BY <1>1, Zenon DEF CallsOK, Recalled

\* A file has ended; its call returns into the directory that it is in.
LEMMA Returned ==
  ASSUME TypeOK, BlocksOK, ~parser.isKey, ParserReadsTree, config = AsWritten,
         NEW dirs \in Seq(Place), Recalled(dirs, named), Len(named) = Len(dirs) + 1,
         within' = dirs, Return(dirs), UNCHANGED <<open, parser, files, said, items>>
  PROVE  Invariant'
<1> DEFINE path == config.configPath
<1>1. /\ config \in ObConfig /\ open \in Seq(Block) /\ parser \in Parser /\ files \in Nat
      /\ said \in Seq(Call) /\ named \in Seq(Text) /\ items \in Seq(Seq(Call))
      /\ dirs \in Seq([dir : Seq(Text), saved : Text])
  BY DEF TypeOK, Place
<1>2. at' \in {"files", "done"}
  BY DEF Return
<1>3. config = Written(said, path, Last(named), items)
  BY AsWrittenIsWritten
<1>4. PathIsHere'
  BY <1>2 DEF PathIsHere
<1>5. BlocksOK'
  BY <1>2, Zenon DEF BlocksOK, ListKeys, MapKeys, KeyInMap, DurableStarted
<1>6. ParserReadsTree'
  BY DEF ParserReadsTree
<1>7. AsWritten' = Written(said, config'.configPath, Last(named'), items)
  BY DEF AsWritten, Written, DurablesOf
<1> HIDE DEF path
<1>8. CASE dirs = <<>>
  <2>1. at' = "done" /\ config' = [config EXCEPT !.configPath = <<>>] /\ named' = named
    BY <1>8 DEF Return
  <2>2. config' \in ObConfig /\ config'.configPath = <<>>
    <3>1. \A q \in Seq(Text) : /\ [config EXCEPT !.configPath = q] \in ObConfig
                               /\ [config EXCEPT !.configPath = q].configPath = q
      BY <1>1 DEF ObConfig
    <3>2. <<>> \in Seq(Text)
      OBVIOUS
    <3> QED BY <3>1, <3>2, <2>1
  <2>3. config' = Written(said, <<>>, Last(named), items)
    BY <2>1, <1>3, PathWritten
  <2>4. config' = AsWritten'
    BY <2>1, <2>2, <2>3, <1>7
  <2>5. TypeOK'
    BY <1>1, <2>1, <2>2 DEF TypeOK
  <2>6. CallsOK' /\ \A i \in DOMAIN within' : within'[i].dir = SubSeq(named', 1, i)
    BY <1>1, <1>8, <2>1, Recollected
  <2>7. ConfigAsWritten'
    BY <2>2, <2>4, <2>6, Zenon DEF ConfigAsWritten
  <2> QED BY <1>4, <1>5, <1>6, <2>5, <2>6, <2>7 DEF Invariant
<1>9. CASE dirs # <<>>
  <2> DEFINE up == Last(dirs)
  <2>1. /\ at' = "files" /\ named' = Front(named)
        /\ config' = [config EXCEPT !.configPath = up.dir, !.configDir = up.saved]
    BY <1>9 DEF Return, DirOf
  <2>2. Len(dirs) \in Nat \ {0} /\ Len(dirs) \in 1..Len(dirs) /\ named # <<>>
    BY <1>1, <1>9
  <2>3. /\ named' \in Seq(Text) /\ Len(named') = Len(dirs)
        /\ \A i \in 1..Len(dirs) : named'[i] = named[i]
    <3>1. /\ Front(named) \in Seq(Text) /\ Len(Front(named)) = Len(named) - 1
          /\ \A i \in 1..(Len(named) - 1) : Front(named)[i] = named[i]
      BY <1>1, <2>2, Fronts
    <3> QED BY <3>1, <2>1, <2>2
  <2>4. up \in Place /\ up.saved = Last(named')
    <3>1. up = dirs[Len(dirs)] /\ Last(named') = named'[Len(named')]
      BY DEF Last
    <3> QED BY <3>1, <2>2, <2>3 DEF Recalled
  <2>5. up.dir \in Seq(Text) /\ up.saved \in Text
    BY <2>4 DEF Place
  <2> HIDE DEF up
  <2>6. config' \in ObConfig /\ config'.configPath = up.dir
    BY <2>1, <2>5, <1>1 DEF ObConfig
  <2>7. config' = Written(said, up.dir, up.saved, items)
    <3>1. Written(said, up.dir, Last(named), items) =
            [Written(said, path, Last(named), items) EXCEPT !.configPath = up.dir]
      BY PathWritten
    <3>2. Written(said, up.dir, up.saved, items) =
            [Written(said, up.dir, Last(named), items) EXCEPT !.configDir = up.saved]
      BY DirWritten
    <3>3. config' = [[config EXCEPT !.configPath = up.dir] EXCEPT !.configDir = up.saved]
      BY <2>1, <1>1 DEF ObConfig
    <3> QED BY <3>1, <3>2, <3>3, <1>3
  <2>8. config' = AsWritten'
    BY <2>4, <2>6, <2>7, <1>7
  <2>9. TypeOK'
    BY <1>1, <2>1, <2>3, <2>6 DEF TypeOK
  <2>10. Recalled(dirs, named')
    <3>1. Len(dirs) <= Len(named) /\ Len(dirs) <= Len(named')
      BY <2>2, <2>3
    <3> QED BY <3>1, <1>1, <2>3, StillRecalled, Zenon
  <2>11. CallsOK' /\ \A i \in DOMAIN within' : within'[i].dir = SubSeq(named', 1, i)
    BY <1>9, <2>1, <2>2, <2>3, <2>10, Recollected
  <2>12. ConfigAsWritten'
    BY <2>1, <2>8, <2>11, Zenon DEF ConfigAsWritten
  <2> QED BY <1>4, <1>5, <1>6, <2>9, <2>11, <2>12 DEF Invariant
<1> QED BY <1>8, <1>9

LEMMA FileEnds ==
  ASSUME Invariant, EndOfFile
  PROVE  Invariant'
<1>1. /\ at \in {"end", "node"} /\ Return(within)
      /\ UNCHANGED <<open, parser, within, files, said, items>>
  BY DEF EndOfFile, FileRead
<1>2. /\ within \in Seq(Place) /\ Recalled(within, named)
      /\ Len(named) = Len(within) + 1
  BY <1>1, Recollection DEF Invariant, InDocument
<1>3. ~parser.isKey /\ config = AsWritten /\ TypeOK /\ BlocksOK /\ ParserReadsTree
  BY <1>1 DEF Invariant, PathIsHere, ConfigAsWritten
<1> QED BY <1>1, <1>2, <1>3, Returned

LEMMA DirectoryEnds ==
  ASSUME Invariant, LeaveDirectory
  PROVE  Invariant'
<1> DEFINE dirs == Front(within)
<1>1. /\ at = "files" /\ within' = dirs /\ Return(dirs)
      /\ UNCHANGED <<open, parser, files, said, items>>
  <2>1. within' = dirs
    BY DEF LeaveDirectory
  <2> QED BY <2>1 DEF LeaveDirectory
<1>2. /\ within \in Seq(Place) /\ within # <<>> /\ named \in Seq(Text)
      /\ Len(named) = Len(within) /\ Len(within) \in Nat
      /\ \A i \in 1..Len(within) : i < Len(named) => within[i].saved = named[i]
      /\ \A i \in 1..Len(within) : within[i].dir = SubSeq(named, 1, i)
  BY <1>1, Recollection DEF Invariant
<1>3. /\ dirs \in Seq(Place) /\ Len(dirs) = Len(within) - 1
      /\ \A i \in 1..(Len(within) - 1) : dirs[i] = within[i]
  BY <1>2, Fronts, Zenon
<1> HIDE DEF dirs
<1>4. Recalled(dirs, named) /\ Len(named) = Len(dirs) + 1
  <2>1. ASSUME NEW i \in 1..Len(dirs)
        PROVE  dirs[i] = within[i] /\ i \in 1..Len(within) /\ i < Len(named)
    BY <1>2, <1>3
  <2>2. Recalled(dirs, named)
    BY <2>1, <1>2, Zenon DEF Recalled
  <2> QED BY <2>2, <1>2, <1>3
<1>5. ~parser.isKey /\ config = AsWritten /\ TypeOK /\ BlocksOK /\ ParserReadsTree
  BY <1>1 DEF Invariant, PathIsHere, ConfigAsWritten
<1> QED BY <1>1, <1>3, <1>4, <1>5, Returned

LEMMA DirectoryOpens ==
  ASSUME Invariant, OpenDirectory
  PROVE  Invariant'
<1> DEFINE new == [dir |-> Append(DirOf(within), config.configDir), saved |-> ""]
           dirs == Append(within, new)
<1>1. /\ at \in {"end", "node"} /\ at' = "files" /\ within' = dirs
      /\ open' = open /\ parser' = parser /\ config' = config /\ files' = files
      /\ said' = said /\ named' = named /\ items' = items
  BY DEF OpenDirectory, FileRead, history
<1>2. /\ within \in Seq(Place) /\ Recalled(within, named) /\ named \in Seq(Text)
      /\ Len(named) = Len(within) + 1 /\ Len(within) \in Nat
  BY <1>1, Recollection DEF Invariant, InDocument
<1>3. TypeOK /\ ~parser.isKey /\ config = AsWritten /\ BlocksOK /\ ParserReadsTree
  BY <1>1 DEF Invariant, PathIsHere, ConfigAsWritten
<1>4. config.configDir = named[Len(named)] /\ named[Len(named)] \in Text /\ "" \in Text
  <2>1. config.configDir = Last(named)
    BY <1>3, AsWrittenIsWritten, PartsWritten
  <2>2. named[Len(named)] \in Text
    BY <1>2
  <2> QED BY <2>1, <2>2 DEF Last, Text
<1>5. DirOf(within) = SubSeq(named, 1, Len(within))
  <2>1. CASE within = <<>>
    BY <2>1, <1>2 DEF DirOf
  <2>2. CASE within # <<>>
    <3>1. Len(within) \in 1..Len(within) /\ Last(within) = within[Len(within)]
      BY <2>2, <1>2 DEF Last
    <3> QED BY <2>2, <3>1, <1>2 DEF DirOf, Recalled
  <2> QED BY <2>1, <2>2
<1>6. /\ Append(DirOf(within), config.configDir) = SubSeq(named, 1, Len(named))
      /\ Append(DirOf(within), config.configDir) \in Seq(Text)
  <2>1. SubSeq(named, 1, Len(named)) = named
    BY <1>2
  <2>2. SubSeq(named, 1, Len(within)) = Front(named)
    BY <1>2 DEF Front
  <2>3. named # <<>>
    BY <1>2
  <2>4. Append(Front(named), named[Len(named)]) = [named EXCEPT ![Len(named)] = named[Len(named)]]
    BY <2>3, <1>2, <1>4, LastReplaced, ZenonT(60)
  <2>5. [named EXCEPT ![Len(named)] = named[Len(named)]] = named
    BY <1>2
  <2> QED BY <2>1, <2>2, <2>4, <2>5, <1>2, <1>4, <1>5
<1>7. new \in Place /\ new.dir = SubSeq(named, 1, Len(named))
  BY <1>4, <1>6 DEF Place
<1> HIDE DEF new
<1>8. /\ dirs \in Seq(Place) /\ Len(dirs) = Len(named) /\ dirs # <<>>
      /\ dirs[Len(named)] = new /\ \A i \in 1..Len(within) : dirs[i] = within[i]
  BY <1>2, <1>7
<1> HIDE DEF dirs
<1>9. DOMAIN dirs = 1..Len(dirs) /\ Len(dirs) = Len(within) + 1
  BY <1>8, <1>2
<1>10. ASSUME NEW i \in DOMAIN dirs
       PROVE  /\ dirs[i].dir = SubSeq(named, 1, i)
              /\ i < Len(named) => dirs[i].saved = named[i]
  <2>1. CASE i = Len(named)
    BY <2>1, <1>7, <1>8, <1>2
  <2>2. CASE i # Len(named)
    <3>1. i \in 1..Len(within)
      BY <2>2, <1>2, <1>9
    <3> QED BY <3>1, <1>8, <1>2 DEF Recalled
  <2> QED BY <2>1, <2>2
<1>11. TypeOK'
  BY <1>1, <1>3, <1>8 DEF TypeOK, Place
<1>12. PathIsHere'
  BY <1>1, <1>3 DEF PathIsHere
<1>13. BlocksOK'
  BY <1>1, <1>3, Zenon DEF BlocksOK, ListKeys, MapKeys, KeyInMap, DurableStarted
<1>14. CallsOK'
  BY <1>1, <1>8, <1>10 DEF CallsOK
<1>15. ParserReadsTree'
  BY <1>1, <1>3 DEF ParserReadsTree
<1>16. ConfigAsWritten'
  <2>1. AsWritten' = AsWritten
    BY <1>1, Zenon DEF AsWritten
  <2> QED BY <2>1, <1>1, <1>3, <1>10 DEF ConfigAsWritten
<1> QED BY <1>11, <1>12, <1>13, <1>14, <1>15, <1>16 DEF Invariant

LEMMA FileOpens ==
  ASSUME Invariant, ReadPartial
  PROVE  Invariant'
<1> DEFINE n == Len(within)
           place == [within[n] EXCEPT !.saved = config.configDir]
           dirs == [within EXCEPT ![n] = place]
           path == config.configPath
<1>1. /\ at = "files" /\ at' = "node" /\ within' = dirs /\ open' = <<>>
      /\ config' = [config EXCEPT !.configDir = ""] /\ parser' = NewParser(parser.calls)
      /\ files' = files + 1 /\ said' = said /\ named' = Append(named, "") /\ items' = items
  BY DEF ReadPartial
<1>2. /\ within \in Seq(Place) /\ within # <<>> /\ named \in Seq(Text)
      /\ Len(named) = n /\ n \in Nat
      /\ \A i \in 1..n : i < Len(named) => within[i].saved = named[i]
      /\ \A i \in 1..n : within[i].dir = SubSeq(named, 1, i)
  BY <1>1, Recollection DEF Invariant
<1>3. TypeOK /\ config = AsWritten /\ parser.calls = said
  BY DEF Invariant, ConfigAsWritten, ParserReadsTree
<1>4. config = Written(said, path, Last(named), items)
  BY <1>3, AsWrittenIsWritten
<1>5. n \in 1..n /\ config.configDir = named[n] /\ named[n] \in Text /\ "" \in Text
  <2>1. n \in 1..n
    BY <1>2
  <2>2. config.configDir = Last(named)
    BY <1>4, PartsWritten
  <2>3. named[n] \in Text
    BY <2>1, <1>2
  <2> QED BY <2>1, <2>2, <2>3, <1>2 DEF Last, Text
<1>6. place \in Place /\ place.saved = named[n] /\ place.dir = within[n].dir
  <2>1. within[n] \in Place
    BY <1>2, <1>5, ElementOfSeq, Zenon
  <2> QED BY <2>1, <1>5 DEF Place
<1> HIDE DEF n, place, path
<1>7. /\ dirs \in Seq(Place) /\ Len(dirs) = n
      /\ \A i \in 1..n : dirs[i] = IF i = n THEN place ELSE within[i]
  <2>1. DOMAIN within = 1..n /\ dirs \in Seq(Place) /\ DOMAIN dirs = 1..n
    <3>1. dirs \in Seq(Place)
      BY <1>2, <1>5, <1>6, ExceptSeq, Zenon DEF n
    <3>2. DOMAIN within = 1..n
      BY <1>2 DEF n
    <3> QED BY <3>1, <3>2
  <2>2. Len(dirs) = n
    BY <2>1, <1>2
  <2>3. \A i \in 1..n : dirs[i] = IF i = n THEN place ELSE within[i]
    BY <2>1
  <2> QED BY <2>1, <2>2, <2>3
<1> HIDE DEF dirs
<1>8. /\ named' \in Seq(Text) /\ Len(named') = n + 1 /\ Last(named') = ""
      /\ \A i \in 1..n : named'[i] = named[i]
  <2>1. \A s \in Seq(Text) : \A x \in Text :
          /\ Append(s, x) \in Seq(Text) /\ Len(Append(s, x)) = Len(s) + 1
          /\ Append(s, x)[Len(s) + 1] = x
          /\ \A i \in 1..Len(s) : Append(s, x)[i] = s[i]
    OBVIOUS
  <2>2. /\ Append(named, "") \in Seq(Text) /\ Len(Append(named, "")) = Len(named) + 1
        /\ Append(named, "")[Len(named) + 1] = ""
        /\ \A i \in 1..Len(named) : Append(named, "")[i] = named[i]
    BY <2>1, <1>2, <1>5, Zenon
  <2>3. Last(named') = ""
    BY <2>2, <1>1, Zenon DEF Last
  <2> QED BY <2>2, <2>3, <1>1, <1>2
<1>9. Recalled(dirs, named')
  <2>1. ASSUME NEW i \in 1..n
        PROVE  dirs[i].saved = named[i] /\ dirs[i].dir = SubSeq(named, 1, i)
    <3>1. CASE i = n
      BY <3>1, <1>2, <1>5, <1>6, <1>7
    <3>2. CASE i # n
      <4>1. i < Len(named)
        BY <3>2, <1>2
      <4> QED BY <4>1, <3>2, <1>2, <1>7
    <3> QED BY <3>1, <3>2
  <2>2. Recalled(dirs, named)
    BY <2>1, <1>7 DEF Recalled
  <2>3. Len(dirs) <= Len(named) /\ Len(dirs) <= Len(named')
    <3>1. \A k \in Nat : k <= k /\ k <= k + 1
      OBVIOUS
    <3> QED BY <3>1, <1>2, <1>7, <1>8
  <2> QED BY <2>2, <2>3, <1>2, <1>7, <1>8, StillRecalled
<1>10. CallsOK' /\ \A i \in DOMAIN within' : within'[i].dir = SubSeq(named', 1, i)
  BY <1>1, <1>7, <1>8, <1>9, Recollected
<1>11. config' \in ObConfig /\ config'.configPath = path
  BY <1>1, <1>3, <1>5 DEF TypeOK, ObConfig, path
<1>12. TypeOK'
  <2>1. /\ parser \in Parser /\ files \in Nat /\ said \in Seq(Call)
        /\ items \in Seq(Seq(Call))
    BY <1>3 DEF TypeOK
  <2>2. parser' \in Parser
    <3>1. parser.calls \in Seq(Call) /\ <<>> \in Seq(Text)
      BY <2>1, EmptySequence DEF Parser
    <3> QED BY <3>1, <1>1 DEF Parser, NewParser
  <2>3. within' \in Seq([dir : Seq(Text), saved : Text])
    BY <1>1, <1>7 DEF Place
  <2>4. open' \in Seq(Block) /\ files' \in Nat
    <3>1. open' \in Seq(Block)
      BY <1>1, EmptySequence, Zenon
    <3>2. files' = files + 1 /\ files \in Nat
      BY <2>1, <1>1, Zenon
    <3>3. files' \in Nat
      BY <3>2
    <3> QED BY <3>1, <3>3
  <2> QED BY <2>1, <2>2, <2>3, <2>4, <1>1, <1>8, <1>11 DEF TypeOK
<1>13. PathIsHere'
  BY <1>1, EmptySequence DEF PathIsHere, NewParser, Here
<1>14. BlocksOK'
  <2>1. ~(Len(open') >= 2)
    BY <1>1, EmptySequence, Zenon
  <2> QED BY <2>1, <1>1, EmptySequence, Zenon
          DEF BlocksOK, ListKeys, MapKeys, KeyInMap, DurableStarted
<1>15. ParserReadsTree'
  BY <1>1, <1>3 DEF ParserReadsTree, NewParser
<1>16. ConfigAsWritten'
  <2>1. Written(said, path, "", items) =
          [Written(said, path, Last(named), items) EXCEPT !.configDir = ""]
    <3>1. \A x : Written(said, path, x, items) =
                  [Written(said, path, Last(named), items) EXCEPT !.configDir = x]
      BY DirWritten
    <3> QED BY <3>1, Zenon
  <2>2. config' = Written(said, path, "", items)
    BY <2>1, <1>1, <1>4
  <2>3. AsWritten' = Written(said', config'.configPath, Last(named'), items')
    BY DEF AsWritten, Written, DurablesOf
  <2>4. config' = AsWritten'
    BY <2>2, <2>3, <1>1, <1>8, <1>11
  <2> QED BY <2>4, <1>1, <1>10 DEF ConfigAsWritten
<1> QED BY <1>10, <1>12, <1>13, <1>14, <1>15, <1>16 DEF Invariant

------------------------------------------------------------------------------
(***************************************************************************)
(* The theorems.                                                           *)
(***************************************************************************)
LEMMA InvariantAtFirst ==
  ASSUME Init
  PROVE  Invariant
<1>1. /\ open = <<>> /\ at = "node" /\ parser = NewParser(<<>>) /\ config = Defaults
      /\ within = <<>> /\ files = 1 /\ said = <<>> /\ named = <<"">> /\ items = <<>>
  BY DEF Init
<1>2. "" \in Text /\ "/var/obdev" \in Text /\ "root" \in Text /\ "overboot" \in Text
      /\ "50%" \in Text
  BY DEF Text
<1>3. config \in ObConfig
  BY <1>1, <1>2, EmptySequence DEF Defaults, ObConfig
<1>4. TypeOK
  <2>1. parser \in Parser
    BY <1>1, EmptySequence DEF NewParser, Parser
  <2>2. <<"">> \in Seq(Text)
    <3>1. \A x \in Text : <<x>> \in Seq(Text)
      OBVIOUS
    <3> QED BY <3>1, <1>2, Zenon
  <2> QED BY <2>1, <2>2, <1>1, <1>3, EmptySequence DEF TypeOK
<1>5. PathIsHere
  BY <1>1, EmptySequence DEF PathIsHere, NewParser, Here
<1>6. BlocksOK
  <2>1. ~(Len(open) >= 2)
    BY <1>1, EmptySequence, Zenon
  <2> QED BY <2>1, <1>1, EmptySequence, Zenon
          DEF BlocksOK, ListKeys, MapKeys, KeyInMap, DurableStarted
<1>7. CallsOK
  <2>1. at # "files" /\ at # "done" /\ Len(named) = 1
    BY <1>1
  <2>2. Len(within) = 0 /\ DOMAIN within = {}
    BY <1>1, EmptySequence, Zenon
  <2> QED BY <2>1, <2>2 DEF CallsOK
<1>8. ParserReadsTree
  BY <1>1 DEF ParserReadsTree, NewParser
<1>9. ConfigAsWritten
  <2>1. \A p, d : Setting(<<>>, p, d) = d
    BY SettingOfNothing
  <2>2. \A p, d : Flag(<<>>, p, d) = (d = "true")
    BY <2>1, Zenon DEF Flag
  <2>3. Last(<<"">>) = "" /\ DurablesOf(<<>>) = <<>>
    BY DEF Last, DurablesOf, Reverse
  <2>4. Written(<<>>, <<>>, "", <<>>) = Defaults
    <3>1. /\ Flag(<<>>, <<"enabled">>, "false") = FALSE
          /\ Flag(<<>>, <<"layers", "visible">>, "true") = TRUE
          /\ Flag(<<>>, <<"upper", "include_persistent_upper">>, "false") = FALSE
          /\ Flag(<<>>, <<"rollback">>, "false") = FALSE
          /\ Flag(<<>>, <<"safe_mode">>, "false") = FALSE
      <4>1. ("false" = "true") = FALSE /\ ("true" = "true") = TRUE
        OBVIOUS
      <4> QED BY <4>1, <2>2, ZenonT(60)
    <3>2. /\ Setting(<<>>, <<"layers", "device">>, "/var/obdev") = "/var/obdev"
          /\ Setting(<<>>, <<"layers", "head">>, "root") = "root"
          /\ Setting(<<>>, <<"layers", "repository">>, "overboot") = "overboot"
          /\ Setting(<<>>, <<"upper", "size">>, "50%") = "50%"
          /\ Setting(<<>>, <<"upper", "type">>, "tmpfs") = "tmpfs"
      BY <2>1
    <3> QED BY <3>1, <3>2, <2>3 DEF Written, Defaults
  <2>5. AsWritten = Written(<<>>, <<>>, "", <<>>)
    <3>1. config.configPath = <<>>
      BY <1>1 DEF Defaults
    <3> QED BY <3>1, <2>3, <1>1, AsWrittenIsWritten
  <2>6. at # "done"
    BY <1>1
  <2>7. config = AsWritten /\ DOMAIN within = {}
    BY <2>4, <2>5, <1>1, EmptySequence
  <2> QED BY <2>6, <2>7, Zenon DEF ConfigAsWritten
<1> QED BY <1>4, <1>5, <1>6, <1>7, <1>8, <1>9 DEF Invariant

\* Each step keeps the invariant: the switch of the parser (ObYamlParser.c:52-88),
\* the callbacks (ObYamlConfigReader.c:20-76) and the calls of the functions that
\* load a file and a directory (ObYamlConfigReader.c:92-155).
THEOREM Invariance == Spec => []Invariant
<1>1. Init => Invariant
  BY InvariantAtFirst
<1>2. Invariant /\ [Next]_vars => Invariant'
  <2> SUFFICES ASSUME Invariant, [Next]_vars PROVE Invariant'
    OBVIOUS
  <2>1. ASSUME UNCHANGED vars PROVE Invariant'
    <3>1. UNCHANGED <<open, at, parser, config, within, files, said, named, items>>
      BY <2>1 DEF vars, document, history
    <3> QED BY <3>1, ZenonT(60)
         DEF Invariant, TypeOK, PathIsHere, Here, BlocksOK, ListKeys, MapKeys, KeyInMap,
             DurableStarted, CallsOK, ParserReadsTree, ConfigAsWritten, AsWritten
  <2>2. CASE StartMapping \/ StartSequence
    BY <2>2, BlockStarts
  <2>3. CASE NewKey
    BY <2>3, KeyBegins
  <2>4. CASE KeyScalar
    BY <2>4, KeyIsRead
  <2>5. CASE ValueMark
    BY <2>5, ValueBegins
  <2>6. CASE NewItem
    BY <2>6, ItemIsNew
  <2>7. CASE ValueScalar
    BY <2>7, ValueIsRead
  <2>8. CASE EndBlock
    BY <2>8, BlockEnds
  <2>9. CASE EndOfFile
    BY <2>9, FileEnds
  <2>10. CASE OpenDirectory
    BY <2>10, DirectoryOpens
  <2>11. CASE ReadPartial
    BY <2>11, FileOpens
  <2>12. CASE LeaveDirectory
    BY <2>12, DirectoryEnds
  <2>13. CASE Done
    BY <2>13, <2>1 DEF Done
  <2> QED BY <2>1, <2>2, <2>3, <2>4, <2>5, <2>6, <2>7, <2>8, <2>9, <2>10, <2>11, <2>12,
             <2>13 DEF Next
<1> QED BY <1>1, <1>2, PTL DEF Spec

\* Every variable of the reader keeps its type, whatever the files say.
THEOREM TypeCorrect == Spec => []TypeOK
<1>1. Invariant => TypeOK
  BY DEF Invariant
<1> QED BY <1>1, Invariance, PTL

\* The callbacks are called with what the files say, in their order, each value
\* with the keys above it (ObYamlParser.c:52-88).
THEOREM CallsAreWhatFilesSay == Spec => []ParserReadsTree
<1>1. Invariant => ParserReadsTree
  BY DEF Invariant
<1> QED BY <1>1, Invariance, PTL

\* The configuration is at every moment the one that the files read so far
\* describe, for any files in any directories (ObYamlConfigReader.c:20-155).
THEOREM ConfigIsWhatFilesSay == Spec => []ConfigAsWritten
<1>1. Invariant => ConfigAsWritten
  BY DEF Invariant
<1> QED BY <1>1, Invariance, PTL
==============================================================================
