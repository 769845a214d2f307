---------------------------- MODULE ObOverlayProofs ----------------------------
(***************************************************************************)
(* What holds of the layers and of the fstab, for every repository, every  *)
(* set of configurations and every set of failures.                        *)
(*                                                                         *)
(* The first part is about the lines of the fstab: the search for a column *)
(* and the rewriting of a line are right for every line, whatever its      *)
(* length, whatever is in the memory behind it, and for every entry of the *)
(* mtab.  The search for the second column takes at most three rounds: to  *)
(* the first word, behind it, to the second one.  ThreeRounds makes the    *)
(* recursive function of the model those rounds; where each of them ends   *)
(* is a minimum, which MinIs finds.                                        *)
(*                                                                         *)
(* The second part is about the overlay.  Its inductive invariant adds to  *)
(* the types where a boot stands (BootOK), what has been collected so far  *)
(* (ChainOK), on what the persistent upper layer was written (JobOK), what *)
(* the steps of the fstab task rely on (FstabOK), and where the user's     *)
(* fstab is between them (EditOK).                                         *)
(***************************************************************************)
EXTENDS ObOverlay, InductionFacts, SequenceTheorems

\* A number that is in a set, with none less, is its minimum.
LEMMA MinIs ==
  ASSUME NEW S, NEW x \in S, S \subseteq Int, \A y \in S : x <= y
  PROVE  Min(S) = x
<1>1. x \in Int /\ \A y \in S : y \in Int
  OBVIOUS
<1>2. \A z \in S : (\A y \in S : z <= y) => z = x
  BY <1>1
<1> QED BY <1>2, Zenon DEF Min

\* A set of natural numbers that is not empty has a least one.
LEMMA LeastExists ==
  ASSUME NEW S \in SUBSET Nat, S # {}
  PROVE  \E x \in S : \A y \in S : x <= y
<1> SUFFICES ASSUME ~\E x \in S : \A y \in S : x <= y PROVE FALSE
  OBVIOUS
<1> DEFINE T == {n \in Nat : \A y \in S : n <= y}
<1>1. 0 \in T
  OBVIOUS
<1>2. ASSUME NEW n \in Nat, n \in T PROVE n + 1 \in T
  <2>1. \A y \in S : n <= y /\ n # y
    BY <1>2
  <2> QED BY <2>1
<1> HIDE DEF T
<1>3. \A n \in Nat : n \in T
  BY <1>1, <1>2, NatSetInduction, Zenon
<1>4. PICK m \in S : TRUE
  OBVIOUS
<1>5. m + 1 \in T
  BY <1>3, <1>4
<1> QED BY <1>4, <1>5 DEF T

\* The minimum of such a set is its least element.
LEMMA MinProperties ==
  ASSUME NEW S \in SUBSET Nat, S # {}
  PROVE  Min(S) \in S /\ \A y \in S : Min(S) <= y
BY LeastExists, Zenon DEF Min

\* A round of the search, if another one is made.
Start == [pos |-> 0, initPos |-> -1, column |-> -1]
To(memory, size, at) ==
  IF at.pos < size /\ at.column < 1 THEN Round(memory, at) ELSE at

\* Three rounds that lead to where the search stops are the whole search.
LEMMA ThreeRounds ==
  ASSUME NEW memory \in Seq(Char), Len(memory) >= 2, NEW size,
         NEW a, NEW b, NEW c, a = To(memory, size, Start), b = To(memory, size, a),
         c = To(memory, size, b), c = To(memory, size, c)
  PROVE  FindColumn(memory, size, 1) = c.pos
<1> DEFINE N == 2 * Len(memory)
           Is(f) == f = [i \in 0..N |-> IF i = 0 THEN Start ELSE To(memory, size, f[i - 1])]
           find == CHOOSE f : Is(f)
           S == {Start, a, b, c}
           F == [p \in (1..N) \X S |-> To(memory, size, p[2])]
<1>1. N \in Nat /\ N >= 4
  OBVIOUS
<1>2. \A s \in S : To(memory, size, s) \in S
  OBVIOUS
<1>3. \A i \in 1..N : \A s \in S : F[<<i, s>>] = To(memory, size, s)
  OBVIOUS
<1>4. StepsIn(F, N, S) /\ Start \in S
  BY <1>2 DEF StepsIn
<1> HIDE DEF S, F, Is, find, N
<1>5. PICK f \in [0..N -> S] : Iterates(f, F, Start, N)
  BY <1>1, <1>4, IterationExists, Zenon
<1>6. Is(f)
  <2>1. ASSUME NEW i \in 1..N PROVE f[i] = To(memory, size, f[i - 1])
    <3>1. f[i - 1] \in S
      BY <1>1, <1>5
    <3> QED BY <3>1, <1>3, <1>5 DEF Iterates
  <2>2. \A n \in 0..N : f[n] = IF n = 0 THEN Start ELSE To(memory, size, f[n - 1])
    BY <1>1, <1>5, <2>1 DEF Iterates
  <2> QED BY <2>2 DEF Is
<1>7. Is(find)
  BY <1>6, Zenon DEF find
<1>8. FindColumn(memory, size, 1) = find[2 * 1 + 2].pos
  BY Zenon DEF FindColumn, find, Is, N, Start, To
<1>9. find[0] = Start /\ \A i \in 1..N : find[i] = To(memory, size, find[i - 1])
  BY <1>1, <1>7, SMTT(60) DEF Is
<1>10. find[1] = a /\ find[2] = b /\ find[3] = c /\ find[4] = c
  <2>1. 1 \in 1..N /\ 2 \in 1..N /\ 3 \in 1..N /\ 4 \in 1..N
    BY <1>1
  <2>2. find[1] = To(memory, size, find[0]) /\ find[2] = To(memory, size, find[1])
        /\ find[3] = To(memory, size, find[2]) /\ find[4] = To(memory, size, find[3])
    BY <1>9, <2>1
  <2> QED BY <1>9, <2>2, Zenon
<1> QED BY <1>8, <1>10

\* Where white characters end, and where a word does.
LEMMA SkipWhiteIs ==
  ASSUME NEW memory \in Seq(Char), NEW pos \in Nat, NEW q \in pos..(Len(memory) - 1),
         ~IsWhiteChar(At0(memory, q))
  PROVE  /\ SkipWhite(memory, pos) \in pos..q
         /\ ~IsWhiteChar(At0(memory, SkipWhite(memory, pos)))
         /\ \A r \in pos..(SkipWhite(memory, pos) - 1) : IsWhiteChar(At0(memory, r))
<1> DEFINE S == {p \in pos..(Len(memory) - 1) : ~IsWhiteChar(At0(memory, p))}
<1>1. S \in SUBSET Nat /\ q \in S /\ Len(memory) \in Nat
  OBVIOUS
<1> HIDE DEF S
<1>2. Min(S) \in S /\ \A y \in S : Min(S) <= y
  BY <1>1, MinProperties
<1>3. SkipWhite(memory, pos) = Min(S)
  BY DEF SkipWhite, S
<1>4. Min(S) \in pos..(Len(memory) - 1) /\ ~IsWhiteChar(At0(memory, Min(S))) /\ Min(S) <= q
  BY <1>1, <1>2 DEF S
<1>5. ASSUME NEW r \in pos..(Min(S) - 1) PROVE IsWhiteChar(At0(memory, r))
  <2>1. r \in pos..(Len(memory) - 1) /\ ~(Min(S) <= r)
    BY <1>1, <1>4
  <2>2. r \notin S
    BY <1>2, <2>1
  <2> QED BY <2>1, <2>2 DEF S
<1> QED BY <1>3, <1>4, <1>5

\* The same for words.
LEMMA SkipWordIs ==
  ASSUME NEW memory \in Seq(Char), NEW pos \in Nat, NEW q \in pos..(Len(memory) - 1),
         IsWhiteChar(At0(memory, q))
  PROVE  /\ SkipWord(memory, pos) \in pos..q
         /\ IsWhiteChar(At0(memory, SkipWord(memory, pos)))
         /\ \A r \in pos..(SkipWord(memory, pos) - 1) : ~IsWhiteChar(At0(memory, r))
<1> DEFINE S == {p \in pos..(Len(memory) - 1) : IsWhiteChar(At0(memory, p))}
<1>1. S \in SUBSET Nat /\ q \in S /\ Len(memory) \in Nat
  OBVIOUS
<1> HIDE DEF S
<1>2. Min(S) \in S /\ \A y \in S : Min(S) <= y
  BY <1>1, MinProperties
<1>3. SkipWord(memory, pos) = Min(S)
  BY DEF SkipWord, S
<1>4. Min(S) \in pos..(Len(memory) - 1) /\ IsWhiteChar(At0(memory, Min(S))) /\ Min(S) <= q
  BY <1>1, <1>2 DEF S
<1>5. ASSUME NEW r \in pos..(Min(S) - 1) PROVE ~IsWhiteChar(At0(memory, r))
  <2>1. r \in pos..(Len(memory) - 1) /\ ~(Min(S) <= r)
    BY <1>1, <1>4
  <2>2. r \notin S
    BY <1>2, <2>1
  <2> QED BY <2>1, <2>2 DEF S
<1> QED BY <1>3, <1>4, <1>5

\* The search for the second column of a memory that has a first word.
LEMMA Search ==
  ASSUME NEW memory \in Seq(Char), Len(memory) >= 2, NEW size \in Nat, size > 0,
         NEW word \in Nat, word = SkipWhite(memory, 0),
         NEW end \in Nat,
         word < size => SkipWhite(memory, word) = word /\ SkipWord(memory, word) = end,
         NEW next \in Nat,
         word < size /\ end < size => SkipWhite(memory, end) = next /\ next # end
  PROVE  FindColumn(memory, size, 1) = IF word >= size THEN word
                                       ELSE IF end >= size THEN end ELSE next
<1> DEFINE a == [pos |-> word, initPos |-> word, column |-> 0]
           b == IF word < size THEN [pos |-> end, initPos |-> end, column |-> 0] ELSE a
           c == IF b.pos < size THEN [pos |-> next, initPos |-> next, column |-> 1] ELSE b
<1>1. a = To(memory, size, Start)
  BY DEF To, Round, Start
<1>2. b = To(memory, size, a)
  <2>1. word < size => Round(memory, a) = [pos |-> end, initPos |-> end, column |-> 0]
    BY DEF Round
  <2> QED BY <2>1 DEF To
<1>3. c = To(memory, size, b)
  <2>1. b.pos < size =>
          word < size /\ end < size /\ b = [pos |-> end, initPos |-> end, column |-> 0]
    OBVIOUS
  <2>2. word < size /\ end < size =>
          Round(memory, [pos |-> end, initPos |-> end, column |-> 0])
            = [pos |-> next, initPos |-> next, column |-> 1]
    BY DEF Round
  <2>3. b.column = 0 /\ b.pos \in Nat
    OBVIOUS
  <2> HIDE DEF b
  <2> QED BY <2>1, <2>2, <2>3 DEF To
<1>4. c = To(memory, size, c)
  <2>1. c.column = 1 \/ ~(c.pos < size)
    OBVIOUS
  <2> HIDE DEF c
  <2> QED BY <2>1 DEF To
<1>5. c.pos = IF word >= size THEN word ELSE IF end >= size THEN end ELSE next
  OBVIOUS
<1> HIDE DEF a, b, c
<1> QED BY <1>1, <1>2, <1>3, <1>4, <1>5, ThreeRounds
\* A memory of nothing is not searched.
LEMMA SearchNothing ==
  ASSUME NEW memory \in Seq(Char), Len(memory) >= 2
  PROVE  FindColumn(memory, 0, 1) = 0
<1>1. Start = To(memory, 0, Start) /\ Start.pos = 0
  BY DEF To, Start
<1> QED BY <1>1, ThreeRounds

\* A line in memory.
InMemory(line, stale) == Append(line, NUL) \o stale

\* What is where in it.
Holds(memory, line) ==
  /\ memory \in Seq(Char) /\ line \in Seq(Char)
  /\ Len(line) \in Nat /\ Len(memory) \in Nat /\ Len(memory) >= Len(line) + 2
  /\ \A i \in 1..Len(line) : memory[i] = line[i] /\ memory[i] # NUL
  /\ memory[Len(line) + 1] = NUL
  /\ \E q \in (Len(line) + 1)..(Len(memory) - 1) : IsWhiteChar(At0(memory, q))

\* It is there.
LEMMA MemoryShape ==
  ASSUME NEW line, IsText(line), NEW stale \in Seq(Char), HasWhite(stale), NUL \in Char
  PROVE  Holds(InMemory(line, stale), line)
<1> DEFINE L == Len(line)
           K == Len(stale)
           m == InMemory(line, stale)
<1>1. line \in Seq(Char) /\ L \in Nat /\ K \in Nat
  BY DEF IsText
<1>2. Append(line, NUL) \in Seq(Char) /\ Len(Append(line, NUL)) = L + 1
      /\ Append(line, NUL)[L + 1] = NUL /\ \A i \in 1..L : Append(line, NUL)[i] = line[i]
  BY <1>1
<1> DEFINE s == Append(line, NUL)
<1> HIDE DEF s
<1>3. s \o stale \in Seq(Char) /\ Len(s \o stale) = L + 1 + K
      /\ (\A i \in 1..(L + 1) : (s \o stale)[i] = s[i])
      /\ \A i \in 1..K : (s \o stale)[L + 1 + i] = stale[i]
  <2>1. s \in Seq(Char) /\ Len(s) = L + 1
    BY <1>2 DEF s
  <2> QED BY <1>1, <2>1, SMTT(60)
<1>4. m = s \o stale
  BY DEF s, InMemory
<1> HIDE DEF m
<1>5. PICK k \in 1..K : IsWhiteChar(stale[k])
  BY <1>1 DEF HasWhite
<1>6. m \in Seq(Char) /\ Len(m) = L + 1 + K /\ Len(m) >= L + 2
  BY <1>1, <1>3, <1>4, <1>5
<1>7. \A i \in 1..L : m[i] = line[i] /\ m[i] # NUL
  <2>1. \A i \in 1..L : line[i] # NUL
    <3>1. DOMAIN line = 1..L
      BY <1>1
    <3> QED BY <3>1 DEF IsText
  <2>2. \A i \in 1..L : m[i] = line[i]
    BY <1>1, <1>2, <1>3, <1>4 DEF s
  <2> QED BY <2>1, <2>2
<1>8. m[L + 1] = NUL
  <2>1. L + 1 \in 1..(L + 1)
    BY <1>1
  <2>2. m[L + 1] = s[L + 1]
    BY <1>3, <1>4, <2>1
  <2> QED BY <1>2, <2>2 DEF s
<1>9. \E q \in (L + 1)..(Len(m) - 1) : IsWhiteChar(At0(m, q))
  <2>1. L + k \in (L + 1)..(Len(m) - 1) /\ (L + k) + 1 = L + 1 + k
    BY <1>1, <1>5, <1>6
  <2>2. IsWhiteChar(At0(m, L + k))
    BY <1>3, <1>4, <1>5, <2>1 DEF At0
  <2> QED BY <2>1, <2>2
<1>10. Len(m) \in Nat
  BY <1>6
<1>11. Holds(m, line)
  BY <1>1, <1>6, <1>7, <1>8, <1>9, <1>10, Zenon DEF Holds
<1> QED BY <1>11 DEF m

\* The string at an offset of the line: nothing if there is white space or the
\* NUL, or else the word from there on.
LEMMA StringAtNothing ==
  ASSUME NEW memory \in Seq(Char), NEW pos \in 0..(Len(memory) - 1),
         IsWhiteChar(At0(memory, pos)) \/ At0(memory, pos) = NUL,
         NEW q \in pos..(Len(memory) - 1), IsWhiteChar(At0(memory, q))
  PROVE  StringAt(memory, pos) = <<>>
<1> DEFINE e == SkipWord(memory, pos)
           copied == SubSeq(memory, pos + 1, e)
           S == {i \in 0..Len(copied) : i = Len(copied) \/ copied[i + 1] = NUL}
<1>1. e \in pos..(Len(memory) - 1) /\ IsWhiteChar(At0(memory, e))
      /\ \A r \in pos..(e - 1) : ~IsWhiteChar(At0(memory, r))
  BY SkipWordIs
<1> HIDE DEF e
<1>2. copied \in Seq(Char) /\ Len(copied) = e - pos
      /\ \A i \in 1..(e - pos) : copied[i] = memory[pos + i]
  BY <1>1
<1> HIDE DEF copied
<1>3. 0 \in S
  <2>1. CASE e = pos
    BY <1>2, <2>1
  <2>2. CASE e # pos
    <3>1. pos \in pos..(e - 1)
      BY <1>1, <2>2
    <3>2. At0(memory, pos) = NUL
      BY <1>1, <3>1
    <3>3. copied[1] = NUL
      BY <1>1, <1>2, <2>2, <3>2 DEF At0
    <3> QED BY <1>2, <3>3
  <2> QED BY <2>1, <2>2
<1>4. S \subseteq Int /\ \A y \in S : 0 <= y
  BY <1>2
<1> HIDE DEF S
<1>5. Min(S) = 0
  BY <1>3, <1>4, MinIs
<1>6. StringAt(memory, pos) = SubSeq(copied, 1, Min(S))
  BY DEF StringAt, S, copied, e
<1> QED BY <1>2, <1>5, <1>6

\* A word, which the NUL or white space ends.
LEMMA StringAtWord ==
  ASSUME NEW memory \in Seq(Char), NEW pos \in 0..(Len(memory) - 1),
         NEW end \in (pos + 1)..(Len(memory) - 1),
         \A r \in pos..(end - 1) : ~IsWhiteChar(At0(memory, r)) /\ At0(memory, r) # NUL,
         IsWhiteChar(At0(memory, end)) \/ At0(memory, end) = NUL,
         NEW q \in end..(Len(memory) - 1), IsWhiteChar(At0(memory, q))
  PROVE  StringAt(memory, pos) = SubSeq(memory, pos + 1, end)
<1> DEFINE e == SkipWord(memory, pos)
           copied == SubSeq(memory, pos + 1, e)
           S == {i \in 0..Len(copied) : i = Len(copied) \/ copied[i + 1] = NUL}
<1>1. e \in pos..(Len(memory) - 1) /\ IsWhiteChar(At0(memory, e))
      /\ \A r \in pos..(e - 1) : ~IsWhiteChar(At0(memory, r))
  <2>1. q \in pos..(Len(memory) - 1)
    OBVIOUS
  <2> QED BY <2>1, SkipWordIs
<1> HIDE DEF e
<1>2. end <= e
  BY <1>1
<1>3. copied \in Seq(Char) /\ Len(copied) = e - pos
      /\ \A i \in 1..(e - pos) : copied[i] = memory[pos + i]
  BY <1>1
<1>4. SubSeq(copied, 1, end - pos) = SubSeq(memory, pos + 1, end)
  BY <1>1, <1>2, <1>3
<1> HIDE DEF copied
<1>5. end - pos \in S
  <2>1. CASE e = end
    BY <1>3, <2>1
  <2>2. CASE e # end
    <3>1. end \in pos..(e - 1)
      BY <1>1, <1>2, <2>2
    <3>2. At0(memory, end) = NUL
      BY <1>1, <3>1
    <3>3. copied[(end - pos) + 1] = memory[end + 1]
      BY <1>1, <1>2, <1>3, <2>2
    <3> QED BY <1>1, <1>2, <1>3, <3>2, <3>3 DEF At0
  <2> QED BY <2>1, <2>2
<1>6. ASSUME NEW y \in S, y < end - pos PROVE FALSE
  <2>1. y \in 0..(end - pos - 1) /\ y # Len(copied) /\ copied[y + 1] = NUL
    BY <1>2, <1>3, <1>6, <1>1
  <2>2. copied[y + 1] = memory[pos + (y + 1)] /\ pos + y \in pos..(end - 1)
    BY <1>1, <1>2, <1>3, <2>1
  <2> QED BY <2>1, <2>2, SMTT(60) DEF At0
<1>7. S \subseteq Int /\ \A y \in S : end - pos <= y
  <2>1. S \subseteq Int
    BY <1>3
  <2>2. end - pos \in Int
    OBVIOUS
  <2> HIDE DEF S
  <2> QED BY <1>6, <2>1, <2>2
<1> HIDE DEF S
<1>8. Min(S) = end - pos
  BY <1>5, <1>7, MinIs
<1>9. StringAt(memory, pos) = SubSeq(copied, 1, Min(S))
  BY DEF StringAt, S, copied, e
<1> QED BY <1>4, <1>8, <1>9
\* The NUL is no white space.
LEMMA NulIsNotWhite == ~IsWhiteChar(NUL)
BY Zenon DEF IsWhiteChar, NUL, Space, Newline

\* The columns of a line behind its first word are those that start behind the
\* end of that.
LEMMA LaterOnes ==
  ASSUME NEW line \in Seq(Char), NEW word \in Nat, word < Len(line),
         NEW end \in Nat, end > word,
         \A i \in 1..word : IsWhiteChar(line[i]),
         \A i \in (word + 1)..Len(line) : i <= end => ~IsWhiteChar(line[i])
  PROVE  LaterStarts(line) = {i \in WordStarts(line) : i > end}
<1>1. DOMAIN line = 1..Len(line) /\ Len(line) \in Nat
  OBVIOUS
<1>2. word + 1 \in WordStarts(line)
  BY <1>1 DEF WordStarts
<1>3. ASSUME NEW i \in WordStarts(line), i <= end PROVE i = word + 1
  <2>1. i \in 1..Len(line) /\ ~IsWhiteChar(line[i]) /\ (i = 1 \/ IsWhiteChar(line[i - 1]))
    BY <1>1 DEF WordStarts
  <2>2. i > word
    BY <2>1
  <2>3. CASE i > word + 1
    <3>1. i - 1 \in (word + 1)..Len(line) /\ i - 1 <= end /\ i # 1
      BY <1>1, <1>3, <2>1, <2>3
    <3> QED BY <2>1, <3>1
  <2> QED BY <2>1, <2>2, <2>3
<1>4. \A i \in WordStarts(line) : i \in Nat
  BY <1>1 DEF WordStarts
<1> QED BY <1>2, <1>3, <1>4 DEF LaterStarts

\* What is white in the memory is so in the line.
LEMMA SameCharacters ==
  ASSUME NEW memory, NEW line, Holds(memory, line)
  PROVE  /\ \A i \in 0..(Len(line) - 1) : At0(memory, i) = line[i + 1] /\ At0(memory, i) # NUL
         /\ At0(memory, Len(line)) = NUL
         /\ \A i \in 1..Len(line) : line[i] = At0(memory, i - 1)
<1>1. Len(line) \in Nat /\ \A i \in 1..Len(line) : memory[i] = line[i] /\ memory[i] # NUL
  BY DEF Holds
<1>2. \A i \in 0..(Len(line) - 1) : i + 1 \in 1..Len(line)
  BY <1>1
<1>3. \A i \in 1..Len(line) : (i - 1) + 1 = i
  BY <1>1
<1>4. memory[Len(line) + 1] = NUL
  BY DEF Holds
<1> QED BY <1>1, <1>2, <1>3, <1>4 DEF At0

\* From a character on that starts a column, the same word is found.
LEMMA SameWord ==
  ASSUME NEW memory, NEW line, Holds(memory, line),
         NEW next \in 0..(Len(line) - 1), ~IsWhiteChar(At0(memory, next))
  PROVE  StringAt(memory, next) = WordAt(line, next + 1)
<1> DEFINE L == Len(line)
           stop == SkipWord(memory, next)
           last == IF stop < L THEN stop ELSE L
           S == {j \in (next + 1)..L : j = L \/ IsWhiteChar(line[j + 1])}
<1>1. /\ memory \in Seq(Char) /\ line \in Seq(Char)
      /\ L \in Nat /\ Len(memory) \in Nat /\ Len(memory) >= L + 2
  BY DEF Holds
<1>2. PICK q \in (L + 1)..(Len(memory) - 1) : IsWhiteChar(At0(memory, q))
  BY DEF Holds
<1>3. /\ \A i \in 0..(L - 1) : At0(memory, i) = line[i + 1] /\ At0(memory, i) # NUL
      /\ At0(memory, L) = NUL
      /\ \A i \in 1..L : line[i] = At0(memory, i - 1)
  BY SameCharacters
<1>4. stop \in next..q /\ IsWhiteChar(At0(memory, stop))
      /\ \A r \in next..(stop - 1) : ~IsWhiteChar(At0(memory, r))
  <2>1. next \in Nat /\ q \in next..(Len(memory) - 1)
    BY <1>1, <1>2
  <2> QED BY <1>1, <1>2, <2>1, SkipWordIs
<1> HIDE DEF stop
<1>5. last \in (next + 1)..L /\ last <= stop
  <2>1. stop # next
    BY <1>4
  <2> QED BY <1>1, <1>4, <2>1
<1>6. IsWhiteChar(At0(memory, last)) \/ At0(memory, last) = NUL
  BY <1>3, <1>4
<1>7. last = L \/ IsWhiteChar(At0(memory, last))
  BY <1>4
<1> HIDE DEF last
<1>8. \A r \in next..(last - 1) : ~IsWhiteChar(At0(memory, r)) /\ At0(memory, r) # NUL
  <2>1. \A r \in next..(last - 1) : r \in next..(stop - 1) /\ r \in 0..(L - 1)
    BY <1>1, <1>4, <1>5
  <2> QED BY <1>3, <1>4, <2>1
<1>9. StringAt(memory, next) = SubSeq(memory, next + 1, last)
  <2>1. /\ next \in 0..(Len(memory) - 1) /\ last \in (next + 1)..(Len(memory) - 1)
        /\ q \in last..(Len(memory) - 1)
    BY <1>1, <1>2, <1>5
  <2> QED BY <1>1, <1>2, <1>6, <1>8, <2>1, StringAtWord
<1>10. SubSeq(memory, next + 1, last) = SubSeq(line, next + 1, last)
  <2>1. \A i \in (next + 1)..last : memory[i] = line[i]
    BY <1>1, <1>5 DEF Holds
  <2> QED BY <1>1, <1>5, <2>1
<1>11. last \in S
  <2>1. CASE last = L
    BY <1>5, <2>1
  <2>2. CASE last # L
    BY <1>1, <1>3, <1>5, <1>7, <2>2
  <2> QED BY <2>1, <2>2
<1>12. ASSUME NEW y \in S, y < last PROVE FALSE
  <2>1. y \in (next + 1)..L /\ y # L /\ IsWhiteChar(line[y + 1])
    BY <1>1, <1>5, <1>12
  <2>2. y \in next..(last - 1) /\ y \in 0..(L - 1)
    BY <1>1, <1>5, <1>12, <2>1
  <2> QED BY <1>3, <1>8, <2>1, <2>2
<1>13. S \subseteq Int /\ \A y \in S : last <= y
  <2>1. S \subseteq Int /\ last \in Int
    BY <1>1, <1>5
  <2> HIDE DEF S
  <2> QED BY <1>12, <2>1
<1> HIDE DEF S
<1>14. Min(S) = last
  BY <1>11, <1>13, MinIs
<1>15. WordAt(line, next + 1) = SubSeq(line, next + 1, Min(S))
  BY DEF WordAt, S
<1> QED BY <1>9, <1>10, <1>14, <1>15
\* The second column of a line is found.
LEMMA SecondIsFound ==
  ASSUME NEW memory, NEW line, Holds(memory, line)
  PROVE  StringAt(memory, FindColumn(memory, Len(line), 1)) = SecondColumn(line)
<1> DEFINE L == Len(line)
           word == SkipWhite(memory, 0)
           end == SkipWord(memory, word)
           next == SkipWhite(memory, end)
           found == FindColumn(memory, L, 1)
<1>1. /\ memory \in Seq(Char) /\ line \in Seq(Char)
      /\ L \in Nat /\ Len(memory) \in Nat /\ Len(memory) >= L + 2
  BY DEF Holds
<1>2. PICK q \in (L + 1)..(Len(memory) - 1) : IsWhiteChar(At0(memory, q))
  BY DEF Holds
<1>3. /\ \A i \in 0..(L - 1) : At0(memory, i) = line[i + 1] /\ At0(memory, i) # NUL
      /\ At0(memory, L) = NUL
      /\ \A i \in 1..L : line[i] = At0(memory, i - 1)
  BY SameCharacters
<1>4. ~IsWhiteChar(At0(memory, L)) /\ L \in 0..(Len(memory) - 1)
  BY <1>1, <1>3, NulIsNotWhite
<1>5. /\ word \in 0..L /\ ~IsWhiteChar(At0(memory, word))
      /\ \A r \in 0..(word - 1) : IsWhiteChar(At0(memory, r))
  BY <1>1, <1>4, SkipWhiteIs
<1>6. StringAt(memory, L) = <<>>
  <2>1. q \in L..(Len(memory) - 1)
    BY <1>1, <1>2
  <2> QED BY <1>1, <1>2, <1>3, <1>4, <2>1, StringAtNothing
<1>7. DOMAIN line = 1..L
  BY <1>1
<1> HIDE DEF L, word
<1>8. CASE word = L
  <2>1. found = L
    <3>1. CASE L = 0
      BY <1>1, <3>1, SearchNothing
    <3>2. CASE L # 0
      <4>1. L > 0 /\ Len(memory) >= 2
        BY <1>1, <3>2
      <4> QED BY <1>1, <1>8, <4>1, Search DEF word
    <3> QED BY <3>1, <3>2
  <2>2. \A i \in 1..L : IsWhiteChar(line[i])
    BY <1>1, <1>3, <1>5, <1>8
  <2>3. WordStarts(line) = {}
    BY <1>7, <2>2 DEF WordStarts
  <2>4. LaterStarts(line) = {}
    BY <2>3 DEF LaterStarts
  <2> QED BY <1>6, <2>1, <2>4 DEF SecondColumn, L
<1>9. CASE word # L
  <2>1. word \in Nat /\ word < L /\ word \in word..(Len(memory) - 1)
        /\ q \in word..(Len(memory) - 1)
    BY <1>1, <1>2, <1>5, <1>9
  <2>2. SkipWhite(memory, word) = word
    <3>1. SkipWhite(memory, word) \in word..word
      BY <1>1, <1>5, <2>1, SkipWhiteIs
    <3> QED BY <2>1, <3>1
  <2>3. end \in word..q /\ IsWhiteChar(At0(memory, end))
        /\ \A r \in word..(end - 1) : ~IsWhiteChar(At0(memory, r))
    BY <1>1, <1>2, <2>1, SkipWordIs
  <2>4. SkipWord(memory, word) = end
    OBVIOUS
  <2> HIDE DEF end
  <2>5. end \in Nat /\ end > word /\ end # L
    <3>1. end # word /\ end # L
      BY <1>4, <1>5, <2>3
    <3> QED BY <2>1, <2>3, <3>1
  <2>6. LaterStarts(line) = {i \in WordStarts(line) : i > end}
    <3>1. \A i \in 1..word : IsWhiteChar(line[i])
      BY <1>1, <1>3, <1>5, <2>1
    <3>2. \A i \in (word + 1)..L : i <= end => ~IsWhiteChar(line[i])
      BY <1>1, <1>3, <2>1, <2>3, <2>5
    <3> QED BY <1>1, <2>1, <2>5, <3>1, <3>2, LaterOnes DEF L
  <2>7. CASE end > L
    <3>1. found = end
      <4>1. L > 0 /\ Len(memory) >= 2 /\ 0 \in Nat
        BY <1>1, <2>1
      <4>2. word < L => SkipWhite(memory, word) = word /\ SkipWord(memory, word) = end
        BY <2>2, <2>4
      <4>3. ~(end < L) /\ end >= L /\ ~(word >= L)
        BY <1>1, <2>1, <2>5, <2>7
      <4> QED BY <1>1, <2>1, <2>5, <4>1, <4>2, <4>3, Search DEF word
    <3>2. StringAt(memory, end) = <<>>
      <4>1. end \in 0..(Len(memory) - 1) /\ q \in end..(Len(memory) - 1)
        BY <1>1, <1>2, <2>3, <2>5
      <4> QED BY <1>1, <1>2, <2>3, <4>1, StringAtNothing
    <3>3. LaterStarts(line) = {}
      <4>1. \A i \in WordStarts(line) : i \in 1..L
        BY <1>7 DEF WordStarts
      <4> QED BY <1>1, <2>5, <2>6, <2>7, <4>1
    <3> QED BY <3>1, <3>2, <3>3 DEF SecondColumn, L
  <2>8. CASE end < L
    <3>1. /\ next \in end..L /\ ~IsWhiteChar(At0(memory, next))
          /\ \A r \in end..(next - 1) : IsWhiteChar(At0(memory, r))
      <4>1. L \in end..(Len(memory) - 1)
        BY <1>1, <1>4, <2>5, <2>8
      <4> QED BY <1>1, <1>4, <2>5, <4>1, SkipWhiteIs
    <3>2. SkipWhite(memory, end) = next
      OBVIOUS
    <3> HIDE DEF next
    <3>3. next \in Nat /\ next # end
      BY <2>3, <2>5, <3>1
    <3>4. found = next
      <4>1. L > 0 /\ Len(memory) >= 2 /\ ~(word >= L) /\ ~(end >= L)
        BY <1>1, <2>1, <2>5, <2>8
      <4> QED BY <1>1, <2>1, <2>2, <2>4, <2>5, <3>2, <3>3, <4>1, Search DEF word
    <3>5. ASSUME NEW i \in LaterStarts(line) PROVE i \in Nat /\ i > next
      <4>1. i \in 1..L /\ ~IsWhiteChar(line[i]) /\ i > end
        BY <1>7, <2>6 DEF WordStarts
      <4>2. CASE i <= next
        <5>1. i - 1 \in end..(next - 1)
          BY <1>1, <2>5, <3>3, <4>1, <4>2
        <5> QED BY <1>3, <3>1, <4>1, <5>1
      <4> QED BY <1>1, <3>3, <4>1, <4>2
    <3>6. CASE next = L
      <4>1. LaterStarts(line) = {}
        <5>1. \A i \in LaterStarts(line) : i \in 1..L
          BY <1>7 DEF LaterStarts, WordStarts
        <5> QED BY <1>1, <3>5, <3>6, <5>1
      <4> QED BY <1>6, <3>4, <3>6, <4>1 DEF SecondColumn, L
    <3>7. CASE next # L
      <4>1. next \in 0..(L - 1) /\ next + 1 \in 1..L
        BY <1>1, <3>1, <3>3, <3>7
      <4>2. next + 1 \in LaterStarts(line)
        <5>1. ~IsWhiteChar(line[next + 1])
          BY <1>3, <3>1, <4>1
        <5>2. IsWhiteChar(line[next])
          <6>1. next - 1 \in end..(next - 1) /\ next \in 1..L
            BY <1>1, <2>5, <3>1, <3>3, <4>1
          <6> QED BY <1>3, <3>1, <6>1
        <5>3. (next + 1) - 1 = next /\ next + 1 > end
          BY <2>5, <3>1, <3>3
        <5> QED BY <1>7, <2>6, <4>1, <5>1, <5>2, <5>3 DEF WordStarts
      <4>3. Min(LaterStarts(line)) = next + 1
        <5>1. \A i \in LaterStarts(line) : i \in Int /\ next + 1 <= i
          BY <3>3, <3>5
        <5> QED BY <4>2, <5>1, MinIs
      <4>4. StringAt(memory, next) = WordAt(line, next + 1)
        BY <3>1, <4>1, SameWord DEF L
      <4> QED BY <3>4, <4>2, <4>3, <4>4 DEF SecondColumn, L
    <3> QED BY <3>6, <3>7
  <2> QED BY <1>1, <2>5, <2>7, <2>8
<1> QED BY <1>8, <1>9

\* The mount point of every line of an fstab is found, and no other line is
\* taken for the root's because of what earlier lines have left (ObFstab.c:20-51).
THEOREM EveryColumnFound == FindsColumns
<1> SUFFICES ASSUME NEW line \in Lines, NEW stale \in Leftovers
             PROVE  GetNthColumn(Append(line, NUL) \o stale, Len(line), 1).column
                      = SecondColumn(line)
  BY DEF FindsColumns
<1>1. Holds(InMemory(line, stale), line)
  BY LinesAssumption, MemoryShape
<1> QED BY <1>1, SecondIsFound DEF GetNthColumn, InMemory
\* A line of four columns is longer than the word that an entry starts with.
LEMMA CompleteIsLong ==
  ASSUME NEW line \in Seq(Char), IsComplete(line)
  PROVE  Len(line) > OverlayLength
<1>1. Len(line) \in Nat /\ DOMAIN line = 1..Len(line)
  OBVIOUS
<1>2. PICK a, b, c, d \in WordStarts(line) : a < b /\ b < c /\ c < d
  BY DEF IsComplete
<1>3. \A i \in WordStarts(line) :
        i \in 1..Len(line) /\ ~IsWhiteChar(line[i]) /\ (i = 1 \/ IsWhiteChar(line[i - 1]))
  BY <1>1 DEF WordStarts
<1>4. \A i, j \in WordStarts(line) : i < j => i + 2 <= j
  <2> SUFFICES ASSUME NEW i \in WordStarts(line), NEW j \in WordStarts(line), i < j
               PROVE  i + 2 <= j
    OBVIOUS
  <2>1. i \in Nat /\ j \in Nat /\ i >= 1 /\ j # 1 /\ IsWhiteChar(line[j - 1])
    BY <1>1, <1>3
  <2>2. j - 1 # i
    BY <1>3, <2>1
  <2> QED BY <2>1, <2>2
<1>5. a \in Nat /\ b \in Nat /\ c \in Nat /\ d \in 1..Len(line)
      /\ a >= 1 /\ a + 2 <= b /\ b + 2 <= c /\ c + 2 <= d
  BY <1>1, <1>2, <1>3, <1>4
<1>6. Len(line) # d
  <2>1. IsWhiteChar(line[Len(line)])
    BY Zenon DEF IsComplete, IsWhiteChar
  <2> QED BY <1>3, <2>1
<1>7. d >= 7
  BY <1>5
<1>8. Len(line) > 7
  <2>1. PICK n \in Nat : n = Len(line)
    BY <1>1
  <2>2. d \in 1..n /\ n # d
    BY <1>5, <1>6, <2>1
  <2>3. n > 7
    BY <1>7, <2>2
  <2> QED BY <2>1, <2>3
<1> QED BY <1>8, Zenon DEF OverlayLength
\* What is where in a part of a sequence, behind two sequences, and behind a
\* character.
LEMMA Part ==
  ASSUME NEW T, NEW s \in Seq(T), NEW a \in Nat \ {0}, NEW b \in Nat, a <= b, b <= Len(s),
         NEW u, u = SubSeq(s, a, b)
  PROVE  /\ u \in Seq(T) /\ Len(u) = b - a + 1
         /\ \A i \in 1..(b - a + 1) : u[i] = s[a + i - 1]
OBVIOUS

Joins(u, s, t) == u = s \o t
Adds(u, s, c)  == u = Append(s, c)

LEMMA Joined ==
  ASSUME NEW T, NEW s \in Seq(T), NEW t \in Seq(T), NEW u, Joins(u, s, t),
         NEW n \in Nat, n = Len(s), NEW k \in Nat, k = Len(t)
  PROVE  /\ u \in Seq(T) /\ Len(u) = n + k
         /\ \A i \in 1..n : u[i] = s[i]
         /\ \A i \in 1..k : u[n + i] = t[i]
BY DEF Joins

LEMMA Added ==
  ASSUME NEW T, NEW s \in Seq(T), NEW c \in T, NEW u, Adds(u, s, c),
         NEW n \in Nat, n = Len(s)
  PROVE  /\ u \in Seq(T) /\ Len(u) = n + 1
         /\ \A i \in 1..n : u[i] = s[i]
         /\ u[n + 1] = c
BY DEF Adds
Only(c) == <<c>>

LEMMA Single ==
  ASSUME NEW T, NEW c \in T, NEW u, u = Only(c)
  PROVE  u \in Seq(T) /\ Len(u) = 1 /\ u[1] = c
BY DEF Only

\* An entry of the mtab: its source, its mount point and the rest.
Parted(entry, source, place, rest) ==
  LET s == Len(source)
      p == Len(place)
      r == Len(rest)
  IN  /\ entry \in Seq(Char) /\ Len(entry) = s + p + r + 2
      /\ \A i \in 1..s : entry[i] = source[i]
      /\ entry[s + 1] = Space
      /\ \A i \in 1..p : entry[s + 1 + i] = place[i]
      /\ entry[s + p + 2] = Space
      /\ \A i \in 1..r : entry[s + p + 2 + i] = rest[i]

LEMMA EntryParted ==
  ASSUME NEW source \in Seq(Char), NEW place \in Seq(Char), NEW rest \in Seq(Char),
         Space \in Char, NEW A, Adds(A, source, Space), NEW B, Joins(B, A, place),
         NEW C, Adds(C, B, Space), NEW D, Joins(D, C, rest)
  PROVE  Parted(D, source, place, rest)
<1>1. PICK s, p, r \in Nat : s = Len(source) /\ p = Len(place) /\ r = Len(rest)
  OBVIOUS
<1>2. A \in Seq(Char) /\ Len(A) = s + 1 /\ (\A i \in 1..s : A[i] = source[i])
      /\ A[s + 1] = Space
  BY <1>1, Added
<1>3. B \in Seq(Char) /\ Len(B) = s + 1 + p /\ (\A i \in 1..(s + 1) : B[i] = A[i])
      /\ \A i \in 1..p : B[s + 1 + i] = place[i]
  <2>1. PICK n \in Nat : n = s + 1
    OBVIOUS
  <2>2. Len(A) = n /\ Len(place) = p
    BY <1>1, <1>2, <2>1
  <2>3. B \in Seq(Char) /\ Len(B) = n + p /\ (\A i \in 1..n : B[i] = A[i])
        /\ \A i \in 1..p : B[n + i] = place[i]
    BY <1>2, <2>2, Joined
  <2> QED BY <2>1, <2>3
<1>4. C \in Seq(Char) /\ Len(C) = s + p + 2 /\ (\A i \in 1..(s + 1 + p) : C[i] = B[i])
      /\ C[s + p + 2] = Space
  <2>1. s + 1 + p \in Nat /\ (s + 1 + p) + 1 = s + p + 2
    OBVIOUS
  <2> QED BY <1>3, <2>1, Added, SMTT(60)
<1>5. D \in Seq(Char) /\ Len(D) = s + p + r + 2 /\ (\A i \in 1..(s + p + 2) : D[i] = C[i])
      /\ \A i \in 1..r : D[s + p + 2 + i] = rest[i]
  <2>1. PICK n \in Nat : n = s + p + 2
    OBVIOUS
  <2>2. Len(C) = n /\ Len(rest) = r
    BY <1>1, <1>4, <2>1
  <2>3. D \in Seq(Char) /\ Len(D) = n + r /\ (\A i \in 1..n : D[i] = C[i])
        /\ \A i \in 1..r : D[n + i] = rest[i]
    BY <1>4, <2>2, Joined
  <2> QED BY <2>1, <2>3
<1>6. (\A i \in 1..s : D[i] = source[i]) /\ D[s + 1] = Space
  <2>1. \A i \in 1..(s + 1) : D[i] = A[i]
    <3>1. \A i \in 1..(s + 1) : i \in 1..(s + 1 + p) /\ i \in 1..(s + p + 2)
      OBVIOUS
    <3> QED BY <1>3, <1>4, <1>5, <3>1
  <2>2. s + 1 \in 1..(s + 1) /\ \A i \in 1..s : i \in 1..(s + 1)
    OBVIOUS
  <2> QED BY <1>2, <2>1, <2>2
<1>7. \A i \in 1..p : D[s + 1 + i] = place[i]
  <2>1. ASSUME NEW i \in 1..p PROVE D[s + 1 + i] = place[i]
    <3>1. s + 1 + i \in 1..(s + 1 + p) /\ s + 1 + i \in 1..(s + p + 2)
      OBVIOUS
    <3> QED BY <1>3, <1>4, <1>5, <3>1
  <2> QED BY <2>1
<1>8. D[s + p + 2] = Space
  <2>1. s + p + 2 \in 1..(s + p + 2)
    OBVIOUS
  <2> QED BY <1>4, <1>5, <2>1
<1> QED BY <1>1, <1>5, <1>6, <1>7, <1>8, Zenon DEF Parted

\* Its parts say what an entry is.
LEMMA PartedIsUnique ==
  ASSUME NEW source \in Seq(Char), NEW place \in Seq(Char), NEW rest \in Seq(Char),
         NEW u, Parted(u, source, place, rest), NEW v, Parted(v, source, place, rest)
  PROVE  u = v
<1>1. PICK s, p, r \in Nat : s = Len(source) /\ p = Len(place) /\ r = Len(rest)
  OBVIOUS
<1>2. /\ u \in Seq(Char) /\ Len(u) = s + p + r + 2
      /\ \A i \in 1..s : u[i] = source[i]
      /\ u[s + 1] = Space
      /\ \A i \in 1..p : u[s + 1 + i] = place[i]
      /\ u[s + p + 2] = Space
      /\ \A i \in 1..r : u[s + p + 2 + i] = rest[i]
  BY <1>1, Zenon DEF Parted
<1>3. /\ v \in Seq(Char) /\ Len(v) = s + p + r + 2
      /\ \A i \in 1..s : v[i] = source[i]
      /\ v[s + 1] = Space
      /\ \A i \in 1..p : v[s + 1 + i] = place[i]
      /\ v[s + p + 2] = Space
      /\ \A i \in 1..r : v[s + p + 2 + i] = rest[i]
  BY <1>1, Zenon DEF Parted
<1>4. ASSUME NEW i \in 1..(s + p + r + 2) PROVE u[i] = v[i]
  <2>1. CASE i <= s
    BY <1>2, <1>3, <2>1
  <2>2. CASE i = s + 1
    BY <1>2, <1>3, <2>2
  <2>3. CASE i > s + 1 /\ i < s + p + 2
    <3>1. PICK k \in 1..p : i = s + 1 + k
      <4>1. i - (s + 1) \in 1..p /\ i = s + 1 + (i - (s + 1))
        BY <2>3
      <4> QED BY <4>1
    <3> QED BY <1>2, <1>3, <3>1
  <2>4. CASE i = s + p + 2
    BY <1>2, <1>3, <2>4
  <2>5. CASE i > s + p + 2
    <3>1. PICK k \in 1..r : i = s + p + 2 + k
      <4>1. i - (s + p + 2) \in 1..r /\ i = s + p + 2 + (i - (s + p + 2))
        BY <2>5
      <4> QED BY <4>1
    <3> QED BY <1>2, <1>3, <3>1
  <2> QED BY <2>1, <2>2, <2>3, <2>4, <2>5
<1>5. DOMAIN u = 1..(s + p + r + 2) /\ DOMAIN v = 1..(s + p + r + 2)
      /\ u = [i \in DOMAIN u |-> u[i]] /\ v = [i \in DOMAIN v |-> v[i]]
  BY <1>2, <1>3
<1> QED BY <1>4, <1>5
\* The column that is replaced is the mount point, whatever the length that the
\* search is given, if that is more than the source has.
LEMMA MountPointFound ==
  ASSUME NEW source, IsWord(source), NEW place, IsWord(place), NEW rest \in Seq(Char),
         NEW entry, Parted(entry, source, place, rest), NUL \in Char,
         NEW memory, Adds(memory, entry, NUL), NEW size \in Nat, size > Len(source)
  PROVE  /\ FindColumn(memory, size, 1) = Len(source) + 1
         /\ StringAt(memory, Len(source) + 1) = place
<1>1. source \in Seq(Char) /\ place \in Seq(Char)
  BY Zenon DEF IsWord, IsText
<1>2. PICK s, p, r \in Nat : s = Len(source) /\ p = Len(place) /\ r = Len(rest)
  BY <1>1
<1>3. DOMAIN source = 1..s /\ DOMAIN place = 1..p
  BY <1>1, <1>2
<1>4. /\ s >= 1 /\ \A i \in 1..s : ~IsWhiteChar(source[i])
      /\ p >= 1 /\ \A i \in 1..p : ~IsWhiteChar(place[i]) /\ place[i] # NUL
  <2>1. source # <<>> /\ place # <<>>
    BY Zenon DEF IsWord
  <2>2. s # 0 /\ p # 0
    BY <1>1, <1>2, <2>1
  <2>3. /\ \A i \in 1..s : ~IsWhiteChar(source[i])
        /\ \A i \in 1..p : ~IsWhiteChar(place[i]) /\ place[i] # NUL
    BY <1>3, Zenon DEF IsWord, IsText, HasWhite
  <2> QED BY <2>2, <2>3
<1>5. /\ entry \in Seq(Char) /\ Len(entry) = s + p + r + 2
      /\ \A i \in 1..s : entry[i] = source[i]
      /\ entry[s + 1] = Space
      /\ \A i \in 1..p : entry[s + 1 + i] = place[i]
      /\ entry[s + p + 2] = Space
  BY <1>2, Zenon DEF Parted
<1>6. /\ memory \in Seq(Char) /\ Len(memory) = s + p + r + 3
      /\ \A i \in 1..(s + p + r + 2) : memory[i] = entry[i]
  <2>1. PICK n \in Nat : n = s + p + r + 2
    OBVIOUS
  <2>2. Len(entry) = n
    BY <1>5, <2>1
  <2>3. memory \in Seq(Char) /\ Len(memory) = n + 1 /\ \A i \in 1..n : memory[i] = entry[i]
    BY <1>5, <2>2, Added
  <2> QED BY <2>1, <2>3
<1>7. IsWhiteChar(Space)
  BY Zenon DEF IsWhiteChar
<1>8. /\ \A i \in 0..(s - 1) : ~IsWhiteChar(At0(memory, i))
      /\ IsWhiteChar(At0(memory, s))
      /\ \A i \in (s + 1)..(s + p) : ~IsWhiteChar(At0(memory, i)) /\ At0(memory, i) # NUL
      /\ IsWhiteChar(At0(memory, s + p + 1))
  <2>1. ASSUME NEW i \in 0..(s - 1) PROVE ~IsWhiteChar(At0(memory, i))
    <3>1. i + 1 \in 1..s /\ i + 1 \in 1..(s + p + r + 2)
      OBVIOUS
    <3>2. memory[i + 1] = source[i + 1]
      BY <1>5, <1>6, <3>1
    <3> QED BY <1>4, <3>1, <3>2 DEF At0
  <2>2. IsWhiteChar(At0(memory, s))
    <3>1. s + 1 \in 1..(s + p + r + 2)
      OBVIOUS
    <3> QED BY <1>5, <1>6, <1>7, <3>1 DEF At0
  <2>3. ASSUME NEW i \in (s + 1)..(s + p)
        PROVE  ~IsWhiteChar(At0(memory, i)) /\ At0(memory, i) # NUL
    <3>1. PICK k \in 1..p : i + 1 = s + 1 + k
      <4>1. i - s \in 1..p /\ i + 1 = s + 1 + (i - s)
        OBVIOUS
      <4> QED BY <4>1
    <3>2. s + 1 + k \in 1..(s + p + r + 2)
      OBVIOUS
    <3>3. memory[s + 1 + k] = place[k]
      BY <1>5, <1>6, <3>2
    <3>4. At0(memory, i) = place[k]
      BY <3>1, <3>3 DEF At0
    <3> QED BY <1>4, <3>4
  <2>4. IsWhiteChar(At0(memory, s + p + 1))
    <3>1. s + p + 2 \in 1..(s + p + r + 2) /\ (s + p + 1) + 1 = s + p + 2
      OBVIOUS
    <3> QED BY <1>5, <1>6, <1>7, <3>1 DEF At0
  <2> QED BY <2>1, <2>2, <2>3, <2>4
<1>9. SkipWhite(memory, 0) = 0
  <2>1. 0 \in 0..(Len(memory) - 1) /\ 0 \in Nat /\ 0 \in 0..(s - 1)
    BY <1>4, <1>6
  <2>2. SkipWhite(memory, 0) \in 0..0
    BY <1>6, <1>8, <2>1, SkipWhiteIs
  <2> QED BY <2>2
<1>10. SkipWord(memory, 0) = s
  <2> DEFINE e == SkipWord(memory, 0)
  <2>1. s \in 0..(Len(memory) - 1) /\ 0 \in Nat
    BY <1>6
  <2>2. e \in 0..s /\ IsWhiteChar(At0(memory, e))
    BY <1>6, <1>8, <2>1, SkipWordIs
  <2> HIDE DEF e
  <2>3. e \notin 0..(s - 1)
    BY <1>8, <2>2
  <2> QED BY <2>2, <2>3 DEF e
<1>11. SkipWhite(memory, s) = s + 1
  <2> DEFINE e == SkipWhite(memory, s)
  <2>1. s + 1 \in s..(Len(memory) - 1) /\ s + 1 \in (s + 1)..(s + p)
    BY <1>4, <1>6
  <2>2. e \in s..(s + 1) /\ ~IsWhiteChar(At0(memory, e))
    BY <1>6, <1>8, <2>1, SkipWhiteIs
  <2> HIDE DEF e
  <2>3. e # s
    BY <1>8, <2>2
  <2> QED BY <2>2, <2>3 DEF e
<1>12. FindColumn(memory, size, 1) = s + 1
  <2>1. size > 0 /\ Len(memory) >= 2 /\ ~(0 >= size) /\ ~(s >= size) /\ s + 1 \in Nat
        /\ 0 \in Nat /\ s + 1 # s
    BY <1>2, <1>4, <1>6
  <2>2. FindColumn(memory, size, 1) = IF 0 >= size THEN 0 ELSE IF s >= size THEN s ELSE s + 1
    BY <1>6, <1>9, <1>10, <1>11, <2>1, Search
  <2> QED BY <2>1, <2>2
<1>13. StringAt(memory, s + 1) = SubSeq(memory, s + 2, s + p + 1)
  <2>1. PICK pos, end \in Nat : pos = s + 1 /\ end = s + p + 1
    OBVIOUS
  <2>2. pos \in 0..(Len(memory) - 1) /\ end \in (pos + 1)..(Len(memory) - 1)
        /\ end \in end..(Len(memory) - 1) /\ pos + 1 = s + 2
    BY <1>4, <1>6, <2>1
  <2>3. \A i \in pos..(end - 1) : ~IsWhiteChar(At0(memory, i)) /\ At0(memory, i) # NUL
    <3>1. end - 1 = s + p
      BY <2>1
    <3> QED BY <1>8, <2>1, <3>1
  <2>4. StringAt(memory, pos) = SubSeq(memory, pos + 1, end)
    BY <1>6, <1>8, <2>1, <2>2, <2>3, StringAtWord
  <2> QED BY <2>1, <2>2, <2>4
<1>14. SubSeq(memory, s + 2, s + p + 1) = place
  <2> DEFINE w == SubSeq(memory, s + 2, s + p + 1)
  <2>1. w \in Seq(Char) /\ Len(w) = p /\ \A i \in 1..p : w[i] = memory[s + 1 + i]
    <3>1. PICK a, b \in Nat : a = s + 2 /\ b = s + p + 1
      OBVIOUS
    <3>2. w = SubSeq(memory, a, b)
      BY <3>1
    <3> HIDE DEF w
    <3>3. a \in Nat \ {0} /\ a <= b /\ b <= Len(memory) /\ b - a + 1 = p
          /\ \A i \in 1..p : a + i - 1 = s + 1 + i
      <4>1. b <= Len(memory)
        <5>1. s + p + 1 <= s + p + r + 3
          OBVIOUS
        <5> QED BY <1>6, <3>1, <5>1
      <4>2. a \in Nat \ {0} /\ a <= b /\ b - a + 1 = p
        BY <1>4, <3>1
      <4>3. \A i \in 1..p : a + i - 1 = s + 1 + i
        BY <3>1
      <4> QED BY <4>1, <4>2, <4>3
    <3>4. w \in Seq(Char) /\ Len(w) = b - a + 1
          /\ \A i \in 1..(b - a + 1) : w[i] = memory[a + i - 1]
      BY <1>6, <3>2, <3>3, Part
    <3> QED BY <3>3, <3>4
  <2> HIDE DEF w
  <2>2. \A i \in 1..p : w[i] = place[i]
    <3>1. \A i \in 1..p : s + 1 + i \in 1..(s + p + r + 2)
      OBVIOUS
    <3> QED BY <1>5, <1>6, <2>1, <3>1
  <2>3. DOMAIN w = 1..p /\ w = [i \in DOMAIN w |-> w[i]] /\ place = [i \in DOMAIN place |-> place[i]]
    BY <1>1, <2>1
  <2>4. w = place
    BY <1>3, <2>2, <2>3
  <2> QED BY <2>4 DEF w
<1> QED BY <1>2, <1>12, <1>13, <1>14
\* What is written is the entry with the mount point replaced.
LEMMA EntryReplaced ==
  ASSUME NEW source, IsWord(source), NEW place, IsWord(place), NEW rest \in Seq(Char),
         NEW entry, Parted(entry, source, place, rest), NUL \in Char, Slash \in Char,
         NEW memory, Adds(memory, entry, NUL), NEW size \in Nat, size > Len(source),
         NEW slash, slash = Only(Slash)
  PROVE  Parted(RootEntry(memory, size), source, slash, rest)
<1>1. source \in Seq(Char) /\ place \in Seq(Char)
  BY Zenon DEF IsWord, IsText
<1>2. PICK s, p, r \in Nat : s = Len(source) /\ p = Len(place) /\ r = Len(rest)
  BY <1>1
<1>3. slash \in Seq(Char) /\ Len(slash) = 1 /\ slash[1] = Slash
  BY Single
<1>4. /\ entry \in Seq(Char) /\ Len(entry) = s + p + r + 2
      /\ \A i \in 1..s : entry[i] = source[i]
      /\ entry[s + 1] = Space
      /\ entry[s + p + 2] = Space
      /\ \A i \in 1..r : entry[s + p + 2 + i] = rest[i]
  BY <1>2, Zenon DEF Parted
<1>5. /\ memory \in Seq(Char) /\ Len(memory) = s + p + r + 3
      /\ \A i \in 1..(s + p + r + 2) : memory[i] = entry[i]
  <2>1. PICK n \in Nat : n = s + p + r + 2
    OBVIOUS
  <2>2. Len(entry) = n
    BY <1>4, <2>1
  <2>3. memory \in Seq(Char) /\ Len(memory) = n + 1 /\ \A i \in 1..n : memory[i] = entry[i]
    BY <1>4, <2>2, Added
  <2> QED BY <2>1, <2>3
<1> DEFINE head == SubSeq(memory, 1, s + 1)
           tail == SubSeq(memory, s + p + 2, s + p + r + 2)
           front == head \o slash
           whole == front \o tail
<1>6. RootEntry(memory, size) = whole
  <2>1. FindColumn(memory, size, 1) = s + 1 /\ StringAt(memory, s + 1) = place
    BY <1>2, MountPointFound
  <2>2. Len(memory) - 1 = s + p + r + 2 /\ s + 1 + p + 1 = s + p + 2
    BY <1>5
  <2>3. GetNthColumn(memory, size, 1) = [pos |-> s + 1, column |-> place]
    BY <2>1, Zenon DEF GetNthColumn
  <2> DEFINE found == GetNthColumn(memory, size, 1)
  <2>4. RootEntry(memory, size) = SubSeq(memory, 1, found.pos) \o <<Slash>>
          \o SubSeq(memory, found.pos + Len(found.column) + 1, Len(memory) - 1)
    BY Zenon DEF RootEntry
  <2>5. found.pos = s + 1 /\ found.column = place
    BY <2>3
  <2> HIDE DEF found
  <2>6. found.pos + Len(found.column) + 1 = s + p + 2
    BY <1>2, <2>2, <2>5
  <2>7. slash = <<Slash>>
    BY Zenon DEF Only
  <2> QED BY <2>2, <2>4, <2>5, <2>6, <2>7, Zenon
<1>7. Joins(front, head, slash) /\ Joins(whole, front, tail)
  BY Zenon DEF Joins
<1>8. head \in Seq(Char) /\ Len(head) = s + 1 /\ \A i \in 1..(s + 1) : head[i] = memory[i]
  <2>1. PICK n \in Nat : n = s + 1
    OBVIOUS
  <2>2. 1 \in Nat \ {0} /\ 1 <= n /\ n <= Len(memory) /\ head = SubSeq(memory, 1, n)
    BY <1>5, <2>1
  <2> HIDE DEF head
  <2>3. head \in Seq(Char) /\ Len(head) = n - 1 + 1
        /\ \A i \in 1..(n - 1 + 1) : head[i] = memory[1 + i - 1]
    BY <1>5, <2>2, Part
  <2> QED BY <2>1, <2>3
<1>9. tail \in Seq(Char) /\ Len(tail) = r + 1
      /\ \A i \in 1..(r + 1) : tail[i] = memory[s + p + 1 + i]
  <2>1. PICK a, b \in Nat : a = s + p + 2 /\ b = s + p + r + 2
    OBVIOUS
  <2>2. a \in Nat \ {0} /\ a <= b /\ b - a + 1 = r + 1
        /\ \A i \in 1..(r + 1) : a + i - 1 = s + p + 1 + i
    BY <2>1
  <2>3. tail = SubSeq(memory, a, b)
    BY <2>1
  <2> HIDE DEF tail
  <2>4. b <= Len(memory)
    BY <1>5, <2>1, SMTT(60)
  <2>5. tail \in Seq(Char) /\ Len(tail) = b - a + 1
        /\ \A i \in 1..(b - a + 1) : tail[i] = memory[a + i - 1]
    BY <1>5, <2>2, <2>3, <2>4, Part
  <2> QED BY <2>2, <2>5
<1> HIDE DEF head, tail, front, whole
<1>10. front \in Seq(Char) /\ Len(front) = s + 2 /\ (\A i \in 1..(s + 1) : front[i] = head[i])
       /\ front[s + 2] = Slash
  <2>1. PICK n, k \in Nat : n = s + 1 /\ k = 1
    OBVIOUS
  <2>2. head \in Seq(Char) /\ slash \in Seq(Char) /\ Len(head) = n /\ Len(slash) = k
        /\ Joins(front, head, slash)
    BY <1>3, <1>7, <1>8, <2>1
  <2>3. front \in Seq(Char) /\ Len(front) = n + k /\ (\A i \in 1..n : front[i] = head[i])
        /\ \A i \in 1..k : front[n + i] = slash[i]
    BY <2>2, Joined
  <2>4. front[n + 1] = slash[1]
    BY <2>1, <2>3
  <2> QED BY <1>3, <2>1, <2>3, <2>4
<1>11. whole \in Seq(Char) /\ Len(whole) = s + r + 3
       /\ (\A i \in 1..(s + 2) : whole[i] = front[i])
       /\ \A i \in 1..(r + 1) : whole[s + 2 + i] = tail[i]
  <2>1. PICK n, k \in Nat : n = s + 2 /\ k = r + 1
    OBVIOUS
  <2>2. Len(front) = n /\ Len(tail) = k
    BY <1>9, <1>10, <2>1
  <2>3. whole \in Seq(Char) /\ Len(whole) = n + k /\ (\A i \in 1..n : whole[i] = front[i])
        /\ \A i \in 1..k : whole[n + i] = tail[i]
    BY <1>7, <1>9, <1>10, <2>2, Joined
  <2> QED BY <2>1, <2>3
<1>12. (\A i \in 1..s : whole[i] = source[i]) /\ whole[s + 1] = Space
  <2>1. \A i \in 1..(s + 1) : i \in 1..(s + 2) /\ i \in 1..(s + p + r + 2)
    OBVIOUS
  <2>2. \A i \in 1..(s + 1) : whole[i] = entry[i]
    BY <1>5, <1>8, <1>10, <1>11, <2>1
  <2>3. s + 1 \in 1..(s + 1) /\ \A i \in 1..s : i \in 1..(s + 1)
    OBVIOUS
  <2> QED BY <1>4, <2>2, <2>3
<1>13. \A i \in 1..1 : whole[s + 1 + i] = slash[i]
  <2>1. s + 2 \in 1..(s + 2) /\ s + 1 + 1 = s + 2
    OBVIOUS
  <2>2. whole[s + 2] = slash[1]
    BY <1>3, <1>10, <1>11, <2>1
  <2>3. \A i \in 1..1 : i = 1
    OBVIOUS
  <2> QED BY <2>1, <2>2, <2>3
<1>14. whole[s + 3] = Space /\ \A i \in 1..r : whole[s + 3 + i] = rest[i]
  <2>1. ASSUME NEW i \in 1..(r + 1) PROVE whole[s + 2 + i] = entry[s + p + 1 + i]
    <3>1. s + p + 1 + i \in 1..(s + p + r + 2)
      OBVIOUS
    <3> QED BY <1>5, <1>9, <1>11, <3>1
  <2>2. whole[s + 3] = Space
    <3>1. 1 \in 1..(r + 1) /\ s + 2 + 1 = s + 3 /\ s + p + 1 + 1 = s + p + 2
      OBVIOUS
    <3>2. whole[s + 2 + 1] = entry[s + p + 1 + 1]
      BY <2>1, <3>1
    <3> QED BY <1>4, <3>1, <3>2
  <2>3. ASSUME NEW i \in 1..r PROVE whole[s + 3 + i] = rest[i]
    <3>1. i + 1 \in 1..(r + 1) /\ s + 2 + (i + 1) = s + 3 + i
          /\ s + p + 1 + (i + 1) = s + p + 2 + i
      OBVIOUS
    <3>2. whole[s + 2 + (i + 1)] = entry[s + p + 1 + (i + 1)]
      BY <2>1, <3>1
    <3> QED BY <1>4, <3>1, <3>2
  <2> QED BY <2>2, <2>3
<1>15. Parted(whole, source, slash, rest)
  <2>1. s + 1 + r + 2 = s + r + 3 /\ s + 1 + 2 = s + 3
    OBVIOUS
  <2>2. Len(whole) = s + 1 + r + 2 /\ whole[s + 1 + 2] = Space
        /\ \A i \in 1..r : whole[s + 1 + 2 + i] = rest[i]
    BY <1>11, <1>14, <2>1
  <2> QED BY <1>2, <1>3, <1>11, <1>12, <1>13, <2>2, Zenon DEF Parted
<1> QED BY <1>6, <1>15

\* The line of the root file system becomes the entry of the mtab on "/", and no
\* other line is changed (ObFstab.c:88-121).
THEOREM EveryRootEntryRewritten == RewritesRoot
<1> SUFFICES ASSUME NEW line \in Lines, NEW stale \in Leftovers, NEW e \in MtabEntries
             PROVE  LET written == RewriteLine(line, stale, EntryOn(e, e.mountPoint))
                    IN  IF SecondColumn(line) # <<Slash>> THEN written = line
                        ELSE IsComplete(line) => written = EntryOn(e, <<Slash>>)
  BY Zenon DEF RewritesRoot
<1> DEFINE slash == <<Slash>>
           memory == Append(EntryOn(e, e.mountPoint), NUL)
<1>1. GetNthColumn(Append(line, NUL) \o stale, Len(line), 1).column = SecondColumn(line)
  BY EveryColumnFound, Zenon DEF FindsColumns
<1>2. RewriteLine(line, stale, EntryOn(e, e.mountPoint))
        = IF SecondColumn(line) = slash THEN RootEntry(memory, Len(line)) ELSE line
  BY <1>1, Zenon DEF RewriteLine
<1>3. ASSUME IsComplete(line) PROVE RootEntry(memory, Len(line)) = EntryOn(e, slash)
  <2>1. line \in Seq(Char) /\ IsWord(e.source) /\ IsWord(e.mountPoint)
        /\ e.source \in Seq(Char) /\ e.mountPoint \in Seq(Char) /\ e.rest \in Seq(Char)
    BY LinesAssumption, Zenon DEF IsText, IsWord
  <2>2. Space \in Char /\ Slash \in Char /\ NUL \in Char
    BY LinesAssumption, Zenon
  <2>3. Len(line) \in Nat /\ Len(line) > Len(e.source)
    <3>1. Len(line) \in Nat /\ Len(e.source) \in Nat
      BY <2>1
    <3>2. Len(line) > OverlayLength /\ Len(e.source) <= OverlayLength
      BY <1>3, <2>1, LinesAssumption, CompleteIsLong, Zenon
    <3> QED BY <3>1, <3>2 DEF OverlayLength
  <2>4. slash \in Seq(Char) /\ slash = Only(Slash)
    <3>1. slash = Only(Slash)
      BY Zenon DEF Only
    <3> HIDE DEF slash
    <3> QED BY <2>2, <3>1, Single
  <2>5. \A place : place \in Seq(Char) => Parted(EntryOn(e, place), e.source, place, e.rest)
    <3> SUFFICES ASSUME NEW place, place \in Seq(Char)
                 PROVE  Parted(EntryOn(e, place), e.source, place, e.rest)
      OBVIOUS
    <3> DEFINE A == Append(e.source, Space)
               B == A \o place
               C == Append(B, Space)
               D == C \o e.rest
    <3>1. Adds(A, e.source, Space) /\ Joins(B, A, place) /\ Adds(C, B, Space)
          /\ Joins(D, C, e.rest)
      BY Zenon DEF Adds, Joins
    <3>2. EntryOn(e, place) = D
      BY Zenon DEF EntryOn
    <3> HIDE DEF A, B, C, D
    <3>3. Parted(D, e.source, place, e.rest)
      BY <2>1, <2>2, <3>1, EntryParted
    <3> QED BY <3>2, <3>3
  <2>6. Adds(memory, EntryOn(e, e.mountPoint), NUL)
    BY Zenon DEF Adds
  <2> HIDE DEF memory
  <2>7. Parted(RootEntry(memory, Len(line)), e.source, slash, e.rest)
    BY <2>1, <2>2, <2>3, <2>4, <2>5, <2>6, EntryReplaced
  <2>8. Parted(EntryOn(e, slash), e.source, slash, e.rest)
    BY <2>4, <2>5
  <2> HIDE DEF slash
  <2> QED BY <2>1, <2>4, <2>7, <2>8, PartedIsUnique
<1> QED BY <1>2, <1>3, Zenon

------------------------------------------------------------------------------
(***************************************************************************)
(* The overlay.                                                            *)
(***************************************************************************)
File == {"fstab", "orig"}
Slot == Content \cup {Nothing, Whiteout}
Pair == [fstab: Slot, orig: Slot]

\* What the pass has not come to yet.
BootOK ==
  /\ pc \in {"off", "reload", "commit", "update", "prepare"} => chain = <<>> /\ lower = <<>>
  /\ pc \in {"off", "reload", "commit", "update", "prepare", "collect", "fstab"}
       => before = Nothing
  /\ pc = "composed" => ~error
  /\ pc = "reload" => reloads > 0

\* The layers that have been collected lead from the head to the next one.
Linked(list, next) ==
  /\ list = <<>> => next = cfg.head
  /\ list # <<>> => list[1] = cfg.head
  /\ \A i \in 1..Len(list) :
       list[i] \in Layer /\ layer[list[i]] = IF i = Len(list) THEN next ELSE list[i + 1]

Stacked ==
  Counted =>
    LET layers == IF Include THEN Tail(lower) ELSE lower
    IN  (Include => lower[1] = Upper) /\ IsChain(layers, cfg.head)

OnOverlay == {"fstab", "truncate", "rewrite", "durables", "composed"}

ChainOK ==
  /\ At("collect") /\ cursor # Done =>
       /\ error \/ Linked(chain, cursor)
       /\ Len(chain) <= StackDepth /\ \A i \in 1..Len(chain) : chain[i] \in Layer
  /\ At("collect") /\ cursor = Done => error \/ chain = <<>> \/ IsChain(chain, cfg.head)
  /\ pc \in OnOverlay => error \/ Stacked
  /\ pc = "crashed" =>
       \/ ~Counted
       \/ Len(chain) = StackDepth /\ \A i \in 1..Len(chain) : chain[i] \in Layer

JobOK ==
  /\ pc \in OnOverlay => lower # <<>> /\ (~cfg.useTmpfs => over = lower[1])
  /\ pc \in {"update", "prepare", "collect"} => commitJob = NoJob
  /\ pc \in OnOverlay \ {"composed"} => commitJob = NoJob
  /\ commitJob # NoJob /\ ~commitJob.inRam /\ layer[commitJob.name] = Absent
       => commitJob.under = over

FstabOK ==
  /\ pc \in {"truncate", "rewrite", "durables", "undo"} /\ before # Nothing
       => files[Top].orig = before
  /\ pc \in {"truncate", "rewrite", "durables"} => before # Nothing
  /\ pc = "rewrite" => files[Top].fstab = Empty
  /\ pc \in {"durables", "composed"} =>
       files[Top].fstab \in Content /\ files[Top].fstab.root # "disk"
  /\ pc = "restored" /\ before # Nothing => files[Top].fstab = before

\* The user's text is in the fstab, or beside it and no fstab is there.
Safe ==
  \/ files[Upper].fstab.text = edited
  \/ files[Upper].fstab = Whiteout /\ files[Upper].orig.text = edited

\* The fstab could not be written, and nobody has noticed.
Unwritten == files[Upper].fstab = Empty /\ files[Upper].orig.text = edited

EditOK ==
  edited # NoText =>
    /\ Top = Upper /\ pc \in {"truncate", "rewrite", "durables"} => files[Upper].orig.text = edited
    /\ Top = Upper /\ pc = "truncate" => files[Upper].fstab \in {Nothing, Whiteout}
    /\ Top = Upper /\ pc = "durables" =>
         files[Upper].fstab.text = edited \/ files[Upper].fstab = Empty
    /\ Top = Upper /\ pc = "undo" =>
         \/ /\ files[Upper].fstab.text = edited
            /\ before = Nothing \/ files[Upper].orig.text = edited
         \/ /\ files[Upper].fstab \in {Nothing, Whiteout}
            /\ files[Upper].orig.text = edited
         \/ Unwritten /\ before # Nothing
    /\ Top = Upper /\ pc = "composed" => Safe \/ Unwritten
    /\ Top = Ram \/ pc \notin {"truncate", "rewrite", "durables", "undo", "composed"} => Safe

IInv == TypeOK /\ BootOK /\ ChainOK /\ JobOK /\ FstabOK /\ EditOK

------------------------------------------------------------------------------
\* What may be seen of a file.
LEMMA VisibleType ==
  ASSUME NEW slot \in Slot
  PROVE  Visible(slot) \in Content \cup {Nothing}
  BY DEF Visible, Slot

\* What the overlay shows of a file is a content or nothing.
LEMMA ViewType ==
  ASSUME TypeOK, NEW f \in File
  PROVE  View(f) \in Content \cup {Nothing}
<1>1. files \in [Place -> Pair] /\ lower \in Seq(Layer \cup {Root, Upper})
  BY DEF TypeOK, Pair, Slot
<1>2. \A p \in Place : files[p][f] \in Slot
  BY <1>1 DEF File, Pair
<1>3. Below(f) \in Content \cup {Nothing}
  <2>1. CASE ~\E i \in DOMAIN lower : Topmost(i, f)
    BY <2>1 DEF Below
  <2>2. CASE \E i \in DOMAIN lower : Topmost(i, f)
    <3> DEFINE i == CHOOSE i \in DOMAIN lower : Topmost(i, f)
    <3>1. i \in DOMAIN lower
      BY <2>2
    <3>2. lower[i] \in Place
      BY <3>1, <1>1, ElementOfSeq DEF Place
    <3>3. Visible(files[lower[i]][f]) \in Content \cup {Nothing}
      BY <3>2, <1>2, VisibleType
    <3> QED BY <3>3, <2>2 DEF Below
  <2> QED BY <2>1, <2>2
<1>4. Top \in Place
  BY DEF Top, Place
<1>5. Visible(files[Top][f]) \in Content \cup {Nothing}
  BY <1>2, <1>4, VisibleType
<1> QED BY <1>3, <1>5 DEF View

\* The two files of the upper layer after a renaming, and all the others.
LEMMA RenameShape ==
  ASSUME TypeOK, NEW from \in File, NEW to \in File, from # to, Rename(from, to),
         View(from) # Nothing
  PROVE  /\ files' \in [Place -> Pair]
         /\ \A p \in Place : p # Top => files'[p] = files[p]
         /\ files'[Top][to] = View(from)
         /\ files'[Top][from] \in {Nothing, Whiteout}
<1>1. files \in [Place -> Pair] /\ Top \in Place
  BY DEF TypeOK, Pair, Slot, Top, Place
<1>2. View(from) \in Slot
  BY ViewType DEF Slot
<1>3. Removed(from) \in Slot /\ Removed(from) \in {Nothing, Whiteout}
  BY DEF Removed, Slot
<1> DEFINE new == [files[Top] EXCEPT ![to] = View(from), ![from] = Removed(from)]
<1>4. files[Top] \in Pair
  BY <1>1
<1>5. new \in Pair /\ new[to] = View(from) /\ new[from] = Removed(from)
  BY <1>2, <1>3, <1>4 DEF Pair, File
<1>6. files' = [files EXCEPT ![Top] = new]
  BY DEF Rename
<1> HIDE DEF new
<1> QED BY <1>1, <1>3, <1>5, <1>6

------------------------------------------------------------------------------
\* The steps, with what the compositions leave alone.
Outside == UNCHANGED <<reloads, fstabVars, jobVars, upperVars>>
Beside == UNCHANGED <<reloads, jobVars, upperVars>>

\* What a commit job may come to, and what that leaves behind.
CommitStep == CommitRefused \/ Commit \/ CommitShort \/ CommitFails

LEMMA CommitSteps ==
  ASSUME CommitStep
  PROVE  /\ CommitFrame
         /\ pc = "commit" /\ commitJob # NoJob
         /\ pc' = "restored" \/ (pc' = "update" /\ commitJob' = NoJob)
         /\ commitJob' \in {commitJob, NoJob}
         /\ error' = error \/ error' = TRUE
         /\ hasUpper' = hasUpper \/ hasUpper' \in BOOLEAN
         /\ \/ UNCHANGED <<layer, files, edited, over>>
            \/ /\ CanCommit
               /\ layer' = [layer EXCEPT ![commitJob.name] = Bare]
               /\ UNCHANGED <<files, edited, over>>
            \/ /\ CanCommit
               /\ \E under \in {commitJob.under, NoName, Bare} : MoveUpper(under)
<1> USE DEF At, GoTo, Fails
<1>1. CASE CommitRefused
  BY <1>1 DEF CommitRefused, upperVars
<1>2. CASE Commit
  BY <1>2 DEF Commit, FinishCommit
<1>3. CASE CommitShort
  BY <1>3 DEF CommitShort, FinishCommit
<1>4. CASE CommitFails
  BY <1>4 DEF CommitFails, upperVars
<1> QED BY <1>1, <1>2, <1>3, <1>4 DEF CommitStep

\* Every step is one of these.
LEMMA Steps ==
  ASSUME [Next]_vars
  PROVE  \/ Load \/ NoCommit \/ CommitStep \/ NoUpdateJob \/ UpdateConfig \/ Prepare
         \/ (CollectRoot /\ Outside) \/ (CollectEnd /\ Outside) \/ (CollectMissing /\ Outside)
         \/ (CollectLayer /\ Outside) \/ (CollectUnreadable /\ Outside)
         \/ (CollectOverflow /\ Outside)
         \/ NoLayers \/ MountOverlay
         \/ (NoMtabEntry /\ Beside) \/ (NoFstab /\ Beside) \/ (RenameFstab /\ Beside)
         \/ (TruncateFstab /\ Beside) \/ (RewriteFstab /\ Beside) \/ (UndoFstab /\ Beside)
         \/ LaterTasks
         \/ (\E lost \in BOOLEAN : Halt(lost) /\ (lost => dirty))
         \/ ScheduleCommit \/ ScheduleUpdate \/ CleanJobs \/ EditConfig \/ EditFstab
         \/ UNCHANGED vars
  BY DEF Next, Boot, CollectStep, Collect, FstabTask, FstabStep, Shutdown, PowerLoss,
         Outside, Beside, CommitStep

------------------------------------------------------------------------------
\* Numbers of layers.
LEMMA Modulo ==
  ASSUME NEW m \in Nat \ {0}, NEW n \in Nat
  PROVE  n % m \in Nat /\ n % m <= n /\ (n < m => n % m = n)
<1>1. ASSUME n < m PROVE n % m = n
  BY <1>1, SMT
<1>2. n % m \in 0..(m - 1)
  BY SMT
<1> QED BY <1>1, <1>2, SMT

\* What is put into the array of layers.
LEMMA ArrayType ==
  ASSUME chain \in Seq(Layer \cup {Root}), NEW include \in BOOLEAN
  PROVE  /\ Lowers(include) \in Seq(Layer \cup {Root, Upper})
         /\ ~include => Lowers(include) \in Seq(Layer \cup {Root})
         /\ LowerCount(include) \in Nat
         /\ LowerCount(include) <= Len(Lowers(include))
<1>1. Collected \in Nat /\ Collected <= Len(chain)
  BY LayersAssumption, Modulo DEF Collected
<1>2. Items \in Seq(Layer \cup {Root}) /\ ItemCount \in Nat /\ ItemCount <= Len(Items)
  <2>1. CASE Collected = 0
    <3>1. Items = <<Root>> /\ ItemCount = 1
      BY <2>1 DEF Items, ItemCount
    <3> QED BY <3>1
  <2>2. CASE Collected # 0
    <3>1. Items = chain /\ ItemCount = Collected
      BY <2>2 DEF Items, ItemCount
    <3> QED BY <3>1, <1>1
  <2> QED BY <2>1, <2>2
<1>3. CASE ~include
  BY <1>2, <1>3 DEF Lowers, LowerCount
<1>4. CASE include
  <2>1. Lowers(include) \in Seq(Layer \cup {Root, Upper})
        /\ Len(Lowers(include)) = Len(Items) + 1
    BY <1>2, <1>4 DEF Lowers
  <2>2. ItemCount + 1 \in Nat /\ CountMod \in Nat \ {0}
    BY <1>2, LayersAssumption
  <2>3. LowerCount(include) = (ItemCount + 1) % CountMod
    BY <1>4 DEF LowerCount
  <2>4. LowerCount(include) \in Nat /\ LowerCount(include) <= ItemCount + 1
    BY <2>2, <2>3, Modulo
  <2>5. LowerCount(include) <= Len(Lowers(include))
    BY <1>2, <2>1, <2>4
  <2> QED BY <1>4, <2>1, <2>4, <2>5
<1> QED BY <1>3, <1>4

\* What is mounted, and that something is.
LEMMA MountedType ==
  ASSUME chain \in Seq(Layer \cup {Root}), NEW include \in BOOLEAN, LowerCount(include) > 0
  PROVE  LET mounted == Mounted(SubSeq(Lowers(include), 1, LowerCount(include)))
         IN  /\ mounted \in Seq(Layer \cup {Root, Upper})
             /\ mounted # <<>>
             /\ ~include => mounted[1] \in Layer \cup {Root}
<1> DEFINE all == Lowers(include)  n == LowerCount(include)
<1>1. all \in Seq(Layer \cup {Root, Upper}) /\ n \in Nat /\ 0 < n /\ n <= Len(all)
      /\ (~include => all \in Seq(Layer \cup {Root}))
  BY ArrayType
<1> HIDE DEF all, n
<1>2. SubSeq(all, 1, n) \in Seq(Layer \cup {Root, Upper}) /\ Len(SubSeq(all, 1, n)) = n
      /\ SubSeq(all, 1, n)[1] = all[1]
  BY <1>1
<1>3. ~include => all[1] \in Layer \cup {Root}
  BY <1>1
<1> QED BY <1>1, <1>2, <1>3 DEF Mounted, all, n

\* The initial state.
LEMMA TypeInit == Init => TypeOK
<1> SUFFICES ASSUME Init PROVE TypeOK
  OBVIOUS
<1>1. files \in [Place -> Pair]
  BY FstabAssumption DEF Init, NoFiles, RootFiles, Pair, Slot, Content
<1>2. error \in BOOLEAN /\ dirty \in BOOLEAN /\ hasUpper \in BOOLEAN
  BY Zenon DEF Init
<1> QED
  BY <1>1, <1>2, OverlayAssumption DEF Init, TypeOK, PcOK, Pair, Slot

\* The values that the fstab task writes.
LEMMA RewrittenType ==
  ASSUME NEW content \in Content
  PROVE  /\ Rewritten(content) \in Content
         /\ Rewritten(content).root # "disk"
         /\ Rewritten(content).text = content.text
  BY DEF Rewritten, Content, Empty, Mark

\* The fstab that was kept is what the overlay shows of the kept file.
LEMMA KeptView ==
  ASSUME TypeOK, FstabOK, pc \in {"truncate", "rewrite", "durables", "undo"}, before # Nothing
  PROVE  View("orig") = before /\ before \in Content /\ files[Top].orig = before
<1>1. files[Top].orig = before
  BY DEF FstabOK
<1>2. before \in Content
  BY DEF TypeOK
<1>3. before # Whiteout
  BY <1>2, FstabAssumption DEF Content, Empty, Whiteout, Mark
<1> QED BY <1>1, <1>2, <1>3 DEF View, Visible

\* One step keeps the types.
LEMMA TypeStep ==
  ASSUME TypeOK, BootOK, JobOK, FstabOK, [Next]_vars
  PROVE  TypeOK'
<1> USE OverlayAssumption DEF TypeOK, PcOK, At, GoTo
<1>1. CASE Load
  <2>1. cfg' \in Settings \cup {NoConfig} /\ pc' \in {"restored", "commit"}
    BY <1>1 DEF Load
  <2>2. reloads' \in 0..MaxReloads
    BY <1>1 DEF Load, BootOK
  <2>3. error' \in BOOLEAN
    BY <1>1, Zenon DEF Load
  <2> QED BY <1>1, <2>1, <2>2, <2>3 DEF Load, fstabVars, jobVars, upperVars
<1>2. CASE NoCommit
  BY <1>2 DEF NoCommit, passVars, fstabVars, jobVars, upperVars
<1>3. CASE CommitStep
  <2>1. /\ CommitFrame /\ pc' \in {"restored", "update"} /\ commitJob' \in {commitJob, NoJob}
        /\ commitJob # NoJob
    BY <1>3, CommitSteps
  <2>2. commitJob.name \in Layer /\ commitJob.under \in Layer \cup {Root}
    BY <2>1
  <2>3. error' \in BOOLEAN /\ hasUpper' \in BOOLEAN
    <3>1. error' = error \/ error' = TRUE
      BY <1>3, CommitSteps
    <3>2. hasUpper' = hasUpper \/ hasUpper' \in BOOLEAN
      BY <1>3, CommitSteps
    <3> QED BY <3>1, <3>2, Zenon
  <2>4. /\ layer' \in [Layer -> Name \cup {NoName, Absent, Bare}]
        /\ files' \in [Place -> Pair]
        /\ edited' \in Text \cup {NoText}
        /\ over' \in Layer \cup {Root, Done}
    <3>1. files \in [Place -> Pair] /\ NoFiles \in Pair /\ Upper \in Place
      BY DEF NoFiles, Pair, Slot, Place
    <3>2. CASE UNCHANGED <<layer, files, edited, over>>
      BY <3>1, <3>2
    <3>3. CASE layer' = [layer EXCEPT ![commitJob.name] = Bare] /\ UNCHANGED <<files, edited, over>>
      BY <2>2, <3>1, <3>3
    <3>4. ASSUME NEW under \in {commitJob.under, NoName, Bare}, MoveUpper(under)
          PROVE  <2>4!1 /\ <2>4!2 /\ <2>4!3 /\ <2>4!4
      <4>1. layer' \in [Layer -> Name \cup {NoName, Absent, Bare}]
        BY <2>2, <3>4 DEF MoveUpper, Name
      <4>2. files' \in [Place -> Pair]
        BY <2>2, <3>1, <3>4 DEF MoveUpper
      <4> QED BY <3>4, <4>1, <4>2 DEF MoveUpper
    <3> QED BY <1>3, <3>2, <3>3, <3>4, CommitSteps
  <2> QED BY <2>1, <2>3, <2>4 DEF CommitFrame, Pair, Slot
<1>4. CASE NoUpdateJob
  <2>1. error' \in BOOLEAN
    BY <1>4, Zenon DEF NoUpdateJob, Fails
  <2> QED BY <1>4, <2>1 DEF NoUpdateJob, Fails, fstabVars, jobVars, upperVars
<1>5. CASE UpdateConfig
  <2>1. config' \in Settings \cup {NoConfig} /\ updateJob' \in Settings \cup {NoConfig}
    BY <1>5 DEF UpdateConfig
  <2>2. error' \in BOOLEAN
    BY <1>5, Zenon DEF UpdateConfig
  <2> QED BY <1>5, <2>1, <2>2 DEF UpdateConfig, fstabVars, upperVars
<1>6. CASE Prepare
  <2>1. files' \in [Place -> Pair] /\ edited' \in Text \cup {NoText}
    BY <1>6 DEF Prepare, BlankUpper, Pair, Slot, NoFiles, Place, Top
  <2>2. hasUpper' \in BOOLEAN
    BY <1>6, Zenon DEF Prepare
  <2>3. cursor' \in Name \cup {NoName, Done}
    BY <1>6 DEF Prepare, Fails, Settings, NoConfig
  <2>4. error' \in BOOLEAN
    BY <1>6, Zenon DEF Prepare, Fails
  <2> QED BY <1>6, <2>1, <2>2, <2>3, <2>4 DEF Prepare, Fails, Pair, Slot, jobVars
<1>7. CASE CollectRoot /\ Outside
  BY <1>7 DEF CollectRoot, Collecting, CollectFrame, Outside, fstabVars, jobVars, upperVars
<1>8. CASE CollectEnd /\ Outside
  BY <1>8 DEF CollectEnd, Collecting, CollectFrame, Outside, fstabVars, jobVars, upperVars
<1>9. CASE CollectMissing /\ Outside
  BY <1>9 DEF CollectMissing, Collecting, CollectFrame, Outside, fstabVars, jobVars, upperVars
<1>10. CASE (CollectLayer \/ CollectUnreadable) /\ Outside
  <2>1. chain' \in Seq(Layer \cup {Root})
    <3>1. cursor \in Layer /\ chain' = Append(chain, cursor)
      BY <1>10 DEF CollectLayer, CollectUnreadable, HasInfo
    <3>2. chain \in Seq(Layer \cup {Root})
      OBVIOUS
    <3> QED BY ONLY <3>1, <3>2, SMT
  <2>2. cursor' \in Name \cup {NoName, Done}
    BY <1>10 DEF CollectLayer, CollectUnreadable, HasInfo
  <2>3. error' \in BOOLEAN
    BY <1>10, Zenon DEF CollectLayer, CollectUnreadable
  <2> QED BY <1>10, <2>1, <2>2, <2>3 DEF CollectLayer, CollectUnreadable, Collecting, CollectFrame,
                                   Outside, fstabVars, jobVars, upperVars
<1>11. CASE CollectOverflow /\ Outside
  BY <1>11 DEF CollectOverflow, Outside, fstabVars, jobVars, upperVars
<1>12. CASE NoLayers
  BY <1>12 DEF NoLayers, passVars, fstabVars, jobVars, upperVars
<1>13. CASE MountOverlay
  <2>1. Include \in BOOLEAN
    BY Zenon DEF Include
  <2>2. lower' \in Seq(Layer \cup {Root, Upper}) /\ over' \in Layer \cup {Root, Done}
    <3>1. CASE LowerCount(Include) > 0
               /\ lower' = Mounted(SubSeq(Lowers(Include), 1, LowerCount(Include)))
               /\ over' = IF Top = Upper THEN lower'[1] ELSE over
      <4>1. Top = Upper => ~Include
        BY DEF Top, Include, Ram, Upper
      <4> QED BY <3>1, <2>1, <4>1, MountedType
    <3>2. CASE UNCHANGED <<lower, over>>
      BY <3>2
    <3> QED BY <1>13, <3>1, <3>2 DEF MountOverlay
  <2>3. error' \in BOOLEAN
    BY <1>13, Zenon DEF MountOverlay, Fails
  <2>4. pc' \in {"fstab", "restored", "crashed"}
    BY <1>13 DEF MountOverlay, Fails
  <2>5. UNCHANGED <<layer, cfg, cursor, chain, reloads, fstabVars, jobVars, hasUpper>>
    BY <1>13, Zenon DEF MountOverlay
  <2> QED BY <2>2, <2>3, <2>4, <2>5 DEF fstabVars, jobVars
<1>14. CASE NoMtabEntry /\ Beside
  <2>1. error' \in BOOLEAN
    BY <1>14, Zenon DEF NoMtabEntry, MayLogError
  <2> QED BY <1>14, <2>1 DEF NoMtabEntry, FstabFrame, Beside, fstabVars, jobVars, upperVars
<1>15. CASE NoFstab /\ Beside
  BY <1>15 DEF NoFstab, FstabFrame, Beside, fstabVars, jobVars, upperVars
<1>16. CASE RenameFstab /\ Beside
  <2>1. files' \in [Place -> Pair] /\ before' \in Content \cup {Nothing}
    BY <1>16, RenameShape, ViewType DEF RenameFstab, File
  <2> QED BY <1>16, <2>1 DEF RenameFstab, FstabFrame, Beside, jobVars, upperVars, Pair, Slot
<1>17. CASE TruncateFstab /\ Beside
  <2>1. files' \in [Place -> Pair]
    <3>1. \A p \in Place : [files[p] EXCEPT !.fstab = Empty] \in Pair
      BY DEF Pair, Slot, Content
    <3>2. files' = files \/ files' = [files EXCEPT ![Top].fstab = Empty]
      BY <1>17 DEF TruncateFstab
    <3> QED BY <3>1, <3>2 DEF Top, Place, Pair, Slot
  <2>2. dirty' \in BOOLEAN
    BY <1>17, Zenon DEF TruncateFstab
  <2>3. error' \in BOOLEAN
    BY <1>17 DEF TruncateFstab
  <2> QED BY <1>17, <2>1, <2>2, <2>3 DEF TruncateFstab, FstabFrame, Beside, jobVars, upperVars,
                                         Pair, Slot
<1>18. CASE RewriteFstab /\ Beside
  <2>1. Rewritten(View("orig")) \in Slot /\ Top \in Place
    <3>1. before # Nothing /\ pc = "rewrite"
      BY <1>18 DEF RewriteFstab, FstabOK
    <3> QED BY <3>1, KeptView, RewrittenType DEF Slot, Top, Place
  <2>2. files' \in [Place -> Pair]
    <3>1. files' = files \/ files' = [files EXCEPT ![Top].fstab = Rewritten(View("orig"))]
      BY <1>18 DEF RewriteFstab
    <3>2. files \in [Place -> Pair]
      BY DEF Pair, Slot
    <3>3. \A slot \in Slot, pair \in Pair : [pair EXCEPT !.fstab = slot] \in Pair
      BY DEF Pair
    <3> QED BY <2>1, <3>1, <3>2, <3>3
  <2> QED BY <1>18, <2>2 DEF RewriteFstab, FstabFrame, Beside, jobVars, upperVars, Pair, Slot
<1>19. CASE UndoFstab /\ Beside
  <2>1. files' \in [Place -> Pair]
    BY <1>19, RenameShape DEF UndoFstab, File, Pair, Slot
  <2>2. dirty' \in BOOLEAN
    BY <1>19, Zenon DEF UndoFstab
  <2>3. edited' \in Text \cup {NoText}
    BY <1>19 DEF UndoFstab
  <2> QED BY <1>19, <2>1, <2>2, <2>3 DEF UndoFstab, FstabFrame, Beside, jobVars, upperVars, Pair, Slot
<1>20. CASE LaterTasks
  <2>1. error' \in BOOLEAN
    BY <1>20, Zenon DEF LaterTasks, MayLogError
  <2> QED BY <1>20, <2>1 DEF LaterTasks, fstabVars, jobVars, upperVars
<1>21. ASSUME NEW lost \in BOOLEAN, Halt(lost) PROVE TypeOK'
  <2>1. files' \in [Place -> Pair]
    <3>1. NoFiles \in Pair /\ files \in [Place -> Pair] /\ Upper # Ram
      BY DEF NoFiles, Pair, Slot, Upper, Ram
    <3>2. \A pair \in Pair : [pair EXCEPT !.fstab = Empty] \in Pair
                              /\ [pair EXCEPT !.fstab = @] \in Pair
      BY DEF Pair, Slot, Content
    <3>3. files' = [files EXCEPT ![Ram] = NoFiles,
                                 ![Upper].fstab = IF lost THEN Empty ELSE @]
      BY <1>21 DEF Halt
    <3>4. CASE lost
      BY <3>1, <3>2, <3>3, <3>4 DEF Place
    <3>5. CASE ~lost
      BY <3>1, <3>2, <3>3, <3>5 DEF Place
    <3> QED BY <3>4, <3>5
  <2>2. error' \in BOOLEAN /\ dirty' \in BOOLEAN
    BY <1>21, Zenon DEF Halt
  <2>3. edited' \in Text \cup {NoText}
    BY <1>21 DEF Halt
  <2>4. /\ pc' = "off" /\ cfg' = NoConfig /\ cursor' = Done /\ chain' = <<>> /\ lower' = <<>>
        /\ reloads' = MaxReloads /\ before' = Nothing
        /\ UNCHANGED <<layer, jobVars, upperVars>>
    BY <1>21, Zenon DEF Halt
  <2> QED BY <2>1, <2>2, <2>3, <2>4, SMTT(60) DEF jobVars, upperVars, Pair, Slot
<1>22. CASE ScheduleCommit
  <2>1. Active \in Layer \cup {Root}
    BY <1>22, ElementOfSeq DEF ScheduleCommit, Active, JobOK, OnOverlay
  <2>2. cfg.useTmpfs \in BOOLEAN
    <3>1. CASE cfg \in Settings
      BY <3>1 DEF Settings
    <3>2. CASE cfg = NoConfig
      BY <3>2, Zenon DEF NoConfig
    <3> QED BY <3>1, <3>2
  <2> QED BY <1>22, <2>1, <2>2 DEF ScheduleCommit, Job, passVars, fstabVars, upperVars
<1>23. CASE ScheduleUpdate
  BY <1>23 DEF ScheduleUpdate, passVars, fstabVars, upperVars
<1>24. CASE CleanJobs
  BY <1>24 DEF CleanJobs, passVars, fstabVars, upperVars
<1>25. CASE EditConfig
  BY <1>25 DEF EditConfig, passVars, fstabVars, upperVars
<1>26. CASE EditFstab
  <2>1. files' \in [Place -> Pair]
    BY <1>26 DEF EditFstab, Pair, Slot, Content, Place, Top
  <2> QED BY <1>26, <2>1, ZenonT(60) DEF EditFstab, passVars, jobVars, upperVars, Pair, Slot
<1>27. CASE UNCHANGED vars
  BY <1>27 DEF vars, passVars, fstabVars, jobVars, upperVars
<1> QED
  BY <1>1, <1>2, <1>3, <1>4, <1>5, <1>6, <1>7, <1>8, <1>9, <1>10, <1>11, <1>12, <1>13,
     <1>14, <1>15, <1>16, <1>17, <1>18, <1>19, <1>20, <1>21, <1>22, <1>23, <1>24, <1>25,
     <1>26, <1>27, Steps

------------------------------------------------------------------------------
\* What the fstab task and the later ones leave alone.
StackVars == <<layer, cfg, chain, lower>>

\* One step keeps what the pass has not come to yet as it is.
LEMMA BootStep ==
  ASSUME TypeOK, BootOK, [Next]_vars
  PROVE  BootOK'
<1> USE DEF BootOK, At, GoTo
<1>1. CASE Load \/ NoCommit \/ NoUpdateJob \/ UpdateConfig
  BY <1>1 DEF Load, NoCommit, NoUpdateJob, UpdateConfig, Fails, passVars, fstabVars
<1>2. CASE CommitStep \/ Prepare
  BY <1>2, CommitSteps DEF CommitFrame, Prepare, Fails
<1>3. CASE (CollectRoot \/ CollectEnd \/ CollectMissing \/ CollectLayer \/ CollectUnreadable)
           /\ Outside
  BY <1>3 DEF CollectRoot, CollectEnd, CollectMissing, CollectLayer, CollectUnreadable,
              Collecting, CollectFrame, Outside, fstabVars
<1>4. CASE CollectOverflow /\ Outside
  BY <1>4 DEF CollectOverflow, Outside, fstabVars
<1>5. CASE NoLayers \/ MountOverlay
  BY <1>5 DEF NoLayers, MountOverlay, Collection, Fails, passVars, fstabVars
<1>6. CASE (NoMtabEntry \/ NoFstab \/ RenameFstab \/ TruncateFstab \/ RewriteFstab \/ UndoFstab)
           /\ Beside
  BY <1>6 DEF NoMtabEntry, NoFstab, RenameFstab, TruncateFstab, RewriteFstab, UndoFstab
<1>7. CASE LaterTasks
  BY <1>7 DEF LaterTasks
<1>8. ASSUME NEW lost \in BOOLEAN, Halt(lost) PROVE BootOK'
  BY <1>8 DEF Halt
<1>9. CASE ScheduleCommit \/ ScheduleUpdate \/ CleanJobs \/ EditConfig \/ EditFstab
  BY <1>9 DEF ScheduleCommit, ScheduleUpdate, CleanJobs, EditConfig, EditFstab, passVars,
              fstabVars
<1>10. CASE UNCHANGED vars
  BY <1>10 DEF vars, passVars, fstabVars
<1> QED
  BY <1>1, <1>2, <1>3, <1>4, <1>5, <1>6, <1>7, <1>8, <1>9, <1>10, Steps

\* The stack only depends on these variables.
LEMMA StackFrame ==
  ASSUME UNCHANGED StackVars
  PROVE  (Stacked' <=> Stacked) /\ (Counted' <=> Counted)
  BY DEF StackVars, Stacked, Counted, IsChain, StandsOn, Include

\* A sequence with one more element in front of it.
LEMMA InFront ==
  ASSUME NEW S, NEW x \in S, NEW list \in Seq(S)
  PROVE  LET all == <<x>> \o list
         IN  /\ all \in Seq(S)
             /\ Len(all) = Len(list) + 1
             /\ all[1] = x
             /\ Tail(all) = list
             /\ SubSeq(all, 1, Len(all)) = all
<1> DEFINE all == <<x>> \o list
<1>1. all \in Seq(S) /\ Len(all) = Len(list) + 1 /\ all[1] = x /\ Len(list) \in Nat
  OBVIOUS
<1>2. \A i \in 1..Len(list) : all[i + 1] = list[i]
  OBVIOUS
<1> HIDE DEF all
<1>3. Tail(all) \in Seq(S) /\ Len(Tail(all)) = Len(list)
      /\ \A i \in 1..Len(list) : Tail(all)[i] = all[i + 1]
  BY <1>1
<1>4. Tail(all) = list
  BY <1>2, <1>3, SeqEqual
<1>5. SubSeq(all, 1, Len(all)) = all
  BY <1>1, SubSeqFull
<1> QED BY <1>1, <1>4, <1>5 DEF all

\* A sequence with one more element behind it.
LEMMA Behind ==
  ASSUME NEW S, NEW x \in S, NEW list \in Seq(S)
  PROVE  LET all == Append(list, x)
         IN  /\ all \in Seq(S)
             /\ all # <<>>
             /\ Len(all) = Len(list) + 1
             /\ Len(list) \in Nat
             /\ \A i \in 1..Len(list) : all[i] = list[i]
             /\ all[Len(all)] = x
             /\ all[1] = IF list = <<>> THEN x ELSE list[1]
OBVIOUS

\* A number of layers that fits mounts the layers that were collected.
LEMMA WholeArray ==
  ASSUME chain \in Seq(Layer \cup {Root}), chain # <<>>, Counted
  PROVE  /\ Mounted(SubSeq(Lowers(Include), 1, LowerCount(Include)))
              = IF Include THEN <<Upper>> \o chain ELSE chain
         /\ ~Overrun(Include)
<1>1. CountMod \in Nat \ {0} /\ Len(chain) \in Nat /\ Len(chain) # 0
  BY LayersAssumption
<1>2. Collected = Len(chain)
  BY <1>1, Modulo DEF Counted, Collected
<1>3. Items = chain /\ ItemCount = Len(chain)
  BY <1>1, <1>2 DEF Items, ItemCount
<1>4. CASE Include
  <2>1. Len(chain) + 1 < CountMod
    BY <1>4 DEF Counted
  <2>2. (Len(chain) + 1) % CountMod = Len(chain) + 1
    BY <1>1, <2>1, Modulo
  <2>3. LowerCount(Include) = Len(chain) + 1
    BY <1>3, <1>4, <2>2 DEF LowerCount
  <2>4. Lowers(Include) = <<Upper>> \o chain
    BY <1>3, <1>4 DEF Lowers
  <2>5. chain \in Seq(Layer \cup {Root, Upper}) /\ Upper \in Layer \cup {Root, Upper}
    OBVIOUS
  <2>6. SubSeq(<<Upper>> \o chain, 1, Len(chain) + 1) = <<Upper>> \o chain
    BY <2>5, InFront
  <2>7. Len(<<Upper>> \o chain) = Len(chain) + 1
    BY <2>5, InFront
  <2>8. ~Overrun(Include)
    BY <1>1, <2>3, <2>4, <2>7 DEF Overrun
  <2> QED BY <1>4, <2>3, <2>4, <2>6, <2>8 DEF Mounted
<1>5. CASE ~Include
  BY <1>1, <1>3, <1>5 DEF Lowers, LowerCount, Mounted, Overrun
<1> QED BY <1>4, <1>5

\* One step keeps what was collected a chain.
LEMMA ChainStep ==
  ASSUME TypeOK, BootOK, ChainOK, [Next]_vars
  PROVE  ChainOK'
<1> USE DEF At, GoTo, OnOverlay
<1>1. CASE Load \/ NoCommit \/ CommitStep \/ NoUpdateJob \/ UpdateConfig \/ NoLayers
  <2>1. pc' \notin OnOverlay \cup {"collect", "crashed"}
    BY <1>1, CommitSteps DEF Load, NoCommit, Fails, NoUpdateJob, UpdateConfig, NoLayers
  <2> QED BY <2>1 DEF ChainOK
<1>2. CASE Prepare
  BY <1>2, LayersAssumption DEF Prepare, Fails, BootOK, ChainOK, Linked
<1>3. CASE CollectRoot /\ Outside
  <2>1. error \/ Linked(chain, cursor)
    BY <1>3 DEF CollectRoot, Collecting, ChainOK, Root, NoName, Done
  <2>2. ASSUME Linked(chain, cursor) PROVE IsChain(Append(chain, Root), cfg.head)
    <3> DEFINE all == Append(chain, Root)
    <3>1. all # <<>> /\ Len(all) = Len(chain) + 1 /\ Len(chain) \in Nat
          /\ (\A i \in 1..Len(chain) : all[i] = chain[i]) /\ all[Len(all)] = Root
          /\ all[1] = IF chain = <<>> THEN Root ELSE chain[1]
      BY Behind DEF TypeOK
    <3> HIDE DEF all
    <3>2. all[1] = cfg.head
      <4>1. chain = <<>> => cursor = cfg.head
        BY <2>2 DEF Linked
      <4>2. cfg.head # NoName
        <5>1. cfg.head \in Name \cup {Done}
          BY DEF TypeOK, Settings, NoConfig
        <5>2. NoName \notin Layer
          BY LayersAssumption, Zenon
        <5> QED BY <5>1, <5>2 DEF Name, NoName, Root, End, Done
      <4>3. chain = <<>> => cfg.head = Root
        BY <1>3, <4>1, <4>2 DEF CollectRoot
      <4> QED BY <2>2, <3>1, <4>3 DEF Linked
    <3>3. ASSUME NEW i \in 1..Len(chain)
          PROVE  i < Len(all) /\ all[i] \in Layer /\ StandsOn(all[i], all[i + 1])
      <4>1. chain[i] \in Layer
            /\ layer[chain[i]] = IF i = Len(chain) THEN cursor ELSE chain[i + 1]
        BY <2>2 DEF Linked
      <4>2. CASE i = Len(chain)
        BY <1>3, <3>1, <4>1, <4>2 DEF CollectRoot, StandsOn
      <4>3. CASE i # Len(chain)
        BY <3>1, <4>1, <4>3 DEF StandsOn
      <4> QED BY <4>2, <4>3
    <3>4. \A i \in 1..Len(all) : i \in 1..Len(chain) \/ i = Len(all)
      BY <3>1
    <3>5. IsChain(all, cfg.head)
      BY <3>1, <3>2, <3>3, <3>4 DEF IsChain
    <3> QED BY <3>5 DEF all
  <2>3. error' \/ IsChain(chain, cfg.head)'
    BY <1>3, <2>1, <2>2 DEF CollectRoot, CollectFrame, IsChain, StandsOn
  <2> QED BY <1>3, <2>3 DEF CollectRoot, Collecting, CollectFrame, ChainOK
<1>4. CASE CollectEnd /\ Outside
  <2>1. (error \/ Linked(chain, End)) /\ chain \in Seq(Layer \cup {Root})
    BY <1>4 DEF CollectEnd, Collecting, ChainOK, TypeOK, End, Done
  <2>2. error \/ chain = <<>> \/ IsChain(chain, cfg.head)
    BY <2>1 DEF Linked, IsChain, StandsOn
  <2>3. error' \/ chain' = <<>> \/ IsChain(chain, cfg.head)'
    BY <1>4, <2>2 DEF CollectEnd, CollectFrame, IsChain, StandsOn
  <2> QED BY <1>4, <2>3 DEF CollectEnd, Collecting, CollectFrame, ChainOK
<1>5. CASE CollectMissing /\ Outside
  BY <1>5 DEF CollectMissing, Collecting, CollectFrame, ChainOK
<1>6. CASE (CollectLayer \/ CollectUnreadable) /\ Outside
  <2>1. cursor \in Layer /\ cursor # Done /\ chain \in Seq(Layer \cup {Root})
        /\ Len(chain) < StackDepth /\ StackDepth \in Nat
    BY <1>6, LayersAssumption DEF CollectLayer, CollectUnreadable, HasInfo, TypeOK, Done
  <2>2. /\ error \/ Linked(chain, cursor)
        /\ \A i \in 1..Len(chain) : chain[i] \in Layer
    BY <1>6, <2>1 DEF CollectLayer, CollectUnreadable, Collecting, ChainOK
  <2> DEFINE all == Append(chain, cursor)  next == layer[cursor]
  <2>3. all # <<>> /\ Len(all) = Len(chain) + 1 /\ Len(chain) \in Nat
        /\ (\A i \in 1..Len(chain) : all[i] = chain[i]) /\ all[Len(all)] = cursor
        /\ all[1] = IF chain = <<>> THEN cursor ELSE chain[1]
    BY <2>1, Behind
  <2>4. chain' = all /\ UNCHANGED <<layer, pc, cfg, lower>> /\ pc = "collect"
    BY <1>6 DEF CollectLayer, CollectUnreadable, CollectFrame, Collecting
  <2> HIDE DEF all
  <2>5. \A i \in 1..Len(all) : i \in 1..Len(chain) \/ i = Len(all)
    BY <2>3
  <2>6. Len(all) <= StackDepth /\ \A i \in 1..Len(all) : all[i] \in Layer
    BY <2>1, <2>2, <2>3, <2>5
  <2>7. ASSUME Linked(chain, cursor) PROVE Linked(all, next)
    <3>1. all[1] = cfg.head
      BY <2>3, <2>7 DEF Linked
    <3>2. ASSUME NEW i \in 1..Len(chain)
          PROVE  i # Len(all) /\ layer[all[i]] = all[i + 1]
      <4>1. layer[chain[i]] = IF i = Len(chain) THEN cursor ELSE chain[i + 1]
        BY <2>7 DEF Linked
      <4>2. CASE i = Len(chain)
        BY <2>3, <4>1, <4>2
      <4>3. CASE i # Len(chain)
        BY <2>3, <4>1, <4>3
      <4> QED BY <4>2, <4>3
    <3>3. \A i \in 1..Len(all) :
            all[i] \in Layer /\ layer[all[i]] = IF i = Len(all) THEN next ELSE all[i + 1]
      BY <2>3, <2>5, <2>6, <3>2
    <3> QED BY <2>3, <3>1, <3>3 DEF Linked
  <2>8. error' \/ Linked(chain, cursor)'
    <3>1. CASE CollectUnreadable
      BY <3>1 DEF CollectUnreadable
    <3>2. CASE CollectLayer
      <4>1. cursor' = next /\ error' = error
        BY <3>2 DEF CollectLayer
      <4> HIDE DEF next
      <4>2. error' \/ Linked(all, next)
        BY <2>2, <2>7, <4>1
      <4> QED BY <2>4, <4>1, <4>2 DEF Linked
    <3> QED BY <1>6, <3>1, <3>2
  <2>9. cursor' # Done
    BY <1>6, LayersAssumption
    DEF CollectLayer, CollectUnreadable, HasInfo, TypeOK, Name, Absent, Bare, Done, Root, End, NoName
  <2> QED BY <2>4, <2>6, <2>8, <2>9 DEF ChainOK
<1>7. CASE CollectOverflow /\ Outside
  <2>1. cursor \in Layer /\ cursor # Done
    BY <1>7, LayersAssumption DEF CollectOverflow, HasInfo, Done
  <2> QED BY <1>7, <2>1 DEF CollectOverflow, Collecting, ChainOK
<1>8. CASE MountOverlay
  <2>1. CASE pc' # "fstab"
    <3>1. pc' = "crashed" => UNCHANGED <<cfg, chain>> /\ Overrun(Include) /\ chain # <<>>
      BY <1>8 DEF MountOverlay, Fails
    <3>2. pc' = "crashed" => ~Counted'
      BY <3>1, WholeArray DEF TypeOK, Counted, Include
    <3> QED BY <1>8, <2>1, <3>2 DEF MountOverlay, Fails, ChainOK
  <2>2. CASE pc' = "fstab"
    <3>1. lower' = Mounted(SubSeq(Lowers(Include), 1, LowerCount(Include)))
          /\ UNCHANGED <<layer, cfg, chain, error>> /\ chain # <<>>
          /\ chain \in Seq(Layer \cup {Root})
      BY <1>8, <2>2 DEF MountOverlay, Fails, TypeOK
    <3>2. error \/ IsChain(chain, cfg.head)
      BY <1>8 DEF MountOverlay, Collection, ChainOK
    <3>3. ASSUME Counted, IsChain(chain, cfg.head) PROVE Stacked'
      <4>1. lower' = IF Include THEN <<Upper>> \o chain ELSE chain
        BY <3>1, <3>3, WholeArray
      <4>2. IsChain(chain, cfg.head)' /\ (Include' <=> Include)
        BY <3>1, <3>3 DEF IsChain, StandsOn, Include
      <4>3. CASE Include
        <5>1. chain \in Seq(Layer \cup {Root, Upper}) /\ Upper \in Layer \cup {Root, Upper}
          BY <3>1
        <5>2. lower' = <<Upper>> \o chain
          BY <4>1, <4>3
        <5>3. lower'[1] = Upper /\ Tail(lower') = chain
          BY <5>1, <5>2, InFront
        <5>4. IsChain(Tail(lower), cfg.head)'
          BY <3>1, <4>2, <5>3 DEF IsChain, StandsOn
        <5> QED BY <4>2, <4>3, <5>3, <5>4 DEF Stacked
      <4>4. CASE ~Include
        BY <3>1, <4>1, <4>2, <4>4 DEF Stacked
      <4> QED BY <4>3, <4>4
    <3>4. Counted' <=> Counted
      BY <3>1 DEF Counted, Include
    <3>5. error' \/ Stacked'
      BY <3>1, <3>2, <3>3, <3>4 DEF Stacked
    <3> QED BY <2>2, <3>5 DEF ChainOK
  <2> QED BY <2>1, <2>2
<1>9. CASE (NoMtabEntry \/ NoFstab \/ RenameFstab \/ TruncateFstab \/ RewriteFstab \/ UndoFstab)
           /\ Beside
  <2>1. UNCHANGED StackVars /\ (error => error')
    BY <1>9 DEF NoMtabEntry, NoFstab, RenameFstab, TruncateFstab, RewriteFstab, UndoFstab,
                MayLogError, FstabFrame, StackVars
  <2>2. pc' \in OnOverlay => pc \in OnOverlay
    BY <1>9 DEF NoMtabEntry, NoFstab, RenameFstab, TruncateFstab, RewriteFstab, UndoFstab
  <2>3. pc' \notin {"collect", "crashed"}
    BY <1>9 DEF NoMtabEntry, NoFstab, RenameFstab, TruncateFstab, RewriteFstab, UndoFstab
  <2> QED BY <2>1, <2>2, <2>3, StackFrame DEF ChainOK
<1>10. CASE LaterTasks
  <2>1. UNCHANGED StackVars /\ (error => error') /\ pc = "durables"
        /\ pc' \notin {"collect", "crashed"}
    BY <1>10 DEF LaterTasks, MayLogError, StackVars
  <2> QED BY <2>1, StackFrame DEF ChainOK
<1>11. ASSUME NEW lost \in BOOLEAN, Halt(lost) PROVE ChainOK'
  BY <1>11 DEF Halt, ChainOK
<1>12. CASE ScheduleCommit \/ ScheduleUpdate \/ CleanJobs \/ EditConfig \/ EditFstab
            \/ UNCHANGED vars
  <2>1. UNCHANGED StackVars /\ UNCHANGED <<error, pc, cursor>>
    BY <1>12 DEF ScheduleCommit, ScheduleUpdate, CleanJobs, EditConfig, EditFstab, vars,
                 passVars, StackVars
  <2>2. ASSUME pc = "collect" PROVE ChainOK'
    BY <2>1, <2>2 DEF ChainOK, StackVars, Linked, IsChain, StandsOn
  <2>3. ASSUME pc # "collect" PROVE ChainOK'
    <3>1. chain' = chain
      BY <2>1 DEF StackVars
    <3> QED BY <2>1, <2>3, <3>1, StackFrame DEF ChainOK
  <2> QED BY <2>2, <2>3
<1> QED
  BY <1>1, <1>2, <1>3, <1>4, <1>5, <1>6, <1>7, <1>8, <1>9, <1>10, <1>11, <1>12, Steps

\* One step keeps what is said of the commit job.
LEMMA JobStep ==
  ASSUME TypeOK, BootOK, JobOK, [Next]_vars
  PROVE  JobOK'
<1> USE DEF JobOK, At, GoTo, OnOverlay
<1>0. CASE CommitStep
  <2>1. /\ commitJob' \in {commitJob, NoJob}
        /\ pc' = "restored" \/ (pc' = "update" /\ commitJob' = NoJob)
        /\ commitJob # NoJob
    BY <1>0, CommitSteps
  <2>2. /\ commitJob.name \in Layer /\ commitJob.under \in Layer \cup {Root}
        /\ layer \in [Layer -> Name \cup {NoName, Absent, Bare}]
    BY <2>1 DEF TypeOK
  <2>3. Absent \notin {commitJob.under, NoName, Bare}
    BY <2>2, LayersAssumption DEF Absent, NoName, Bare, Root
  <2>4. layer'[commitJob.name] = Absent => UNCHANGED <<layer, over>>
    BY <1>0, <2>2, <2>3, CommitSteps DEF MoveUpper
  <2> QED BY <2>1, <2>4
<1>1. CASE Load \/ NoCommit \/ NoUpdateJob \/ UpdateConfig
  BY <1>1 DEF Load, NoCommit, Fails, NoUpdateJob, UpdateConfig, passVars, jobVars, upperVars
<1>2. CASE Prepare \/ NoLayers
  BY <1>2 DEF Prepare, Fails, NoLayers, Collection, passVars, jobVars, upperVars
<1>3. CASE (CollectRoot \/ CollectEnd \/ CollectMissing \/ CollectLayer \/ CollectUnreadable
              \/ CollectOverflow) /\ Outside
  BY <1>3 DEF CollectRoot, CollectEnd, CollectMissing, CollectLayer, CollectUnreadable,
              CollectOverflow, Collecting, CollectFrame, Outside, jobVars, upperVars
<1>4. CASE MountOverlay
  <2>1. commitJob' = NoJob
    BY <1>4 DEF MountOverlay, Collection, jobVars
  <2>2. CASE pc' # "fstab"
    BY <1>4, <2>1, <2>2 DEF MountOverlay, Fails
  <2>3. CASE pc' = "fstab"
    <3>1. pc' # "restored" /\ pc' # "crashed"
      BY <2>3
    <3>2. /\ LowerCount(Include) > 0
          /\ lower' = Mounted(SubSeq(Lowers(Include), 1, LowerCount(Include)))
          /\ over' = IF Top = Upper THEN lower'[1] ELSE over
          /\ cfg' = cfg
      BY <1>4, <3>1, Zenon DEF MountOverlay, Fails
    <3>3. lower' # <<>>
      <4>1. Include \in BOOLEAN /\ chain \in Seq(Layer \cup {Root})
        BY Zenon DEF Include, TypeOK
      <4> QED BY <3>2, <4>1, MountedType
    <3>4. ~cfg'.useTmpfs => over' = lower'[1]
      <4>1. ~cfg.useTmpfs => Top = Upper
        BY Zenon DEF Top
      <4> QED BY <3>2, <4>1
    <3> QED BY <2>1, <2>3, <3>3, <3>4
  <2> QED BY <2>2, <2>3
<1>5. CASE (NoMtabEntry \/ NoFstab \/ RenameFstab \/ TruncateFstab \/ RewriteFstab \/ UndoFstab)
           /\ Beside
  BY <1>5 DEF NoMtabEntry, NoFstab, RenameFstab, TruncateFstab, RewriteFstab, UndoFstab,
              FstabFrame, Beside, jobVars, upperVars
<1>6. CASE LaterTasks
  BY <1>6 DEF LaterTasks, jobVars, upperVars
<1>7. ASSUME NEW lost \in BOOLEAN, Halt(lost) PROVE JobOK'
  BY <1>7 DEF Halt, jobVars, upperVars
<1>8. CASE ScheduleCommit
  <2>1. over = lower[1] => Active = over
    BY LayersAssumption DEF TypeOK, Active, Root, Done, Upper
  <2>2. ~commitJob'.inRam => commitJob'.under = over
    BY <1>8, <2>1 DEF ScheduleCommit, Job
  <2> QED BY <1>8, <2>2 DEF ScheduleCommit, passVars, upperVars
<1>9. CASE ScheduleUpdate \/ CleanJobs \/ EditConfig \/ EditFstab \/ UNCHANGED vars
  BY <1>9 DEF ScheduleUpdate, CleanJobs, EditConfig, EditFstab, vars, passVars, jobVars, upperVars
<1> QED
  BY <1>0, <1>1, <1>2, <1>3, <1>4, <1>5, <1>6, <1>7, <1>8, <1>9, Steps

\* One step keeps what the steps of the fstab task rely on.
LEMMA FilesStep ==
  ASSUME TypeOK, BootOK, FstabOK, [Next]_vars
  PROVE  FstabOK'
<1> USE DEF At, GoTo
<1>1. CASE Load \/ NoCommit \/ CommitStep \/ NoUpdateJob \/ UpdateConfig \/ Prepare
  <2>1. pc' \in {"restored", "commit", "update", "reload", "prepare", "collect"} /\ before' = Nothing
    BY <1>1, CommitSteps DEF Load, NoCommit, CommitFrame, Fails, NoUpdateJob, UpdateConfig, Prepare,
                             fstabVars, BootOK
  <2> QED BY <2>1 DEF FstabOK
<1>2. CASE (CollectRoot \/ CollectEnd \/ CollectMissing \/ CollectLayer \/ CollectUnreadable
              \/ CollectOverflow) /\ Outside
  BY <1>2 DEF CollectRoot, CollectEnd, CollectMissing, CollectLayer, CollectUnreadable,
              CollectOverflow, Collecting, CollectFrame, FstabOK
<1>3. CASE NoLayers \/ MountOverlay
  BY <1>3 DEF NoLayers, MountOverlay, Collection, Fails, fstabVars, BootOK, FstabOK
<1>4. CASE (NoMtabEntry \/ NoFstab) /\ Beside
  BY <1>4 DEF NoMtabEntry, NoFstab, fstabVars, BootOK, FstabOK
<1>5. CASE RenameFstab /\ Beside
  <2>1. files'[Top].orig = View("fstab")
    BY <1>5, RenameShape DEF RenameFstab, File
  <2>2. Top' = Top
    BY <1>5 DEF RenameFstab, FstabFrame, Top
  <2> QED BY <1>5, <2>1, <2>2 DEF RenameFstab, FstabOK
<1>6. CASE TruncateFstab /\ Beside
  <2>1. Top' = Top /\ Top \in Place
    BY <1>6 DEF TruncateFstab, FstabFrame, Top, Place
  <2>2. files'[Top].orig = files[Top].orig /\ (pc' = "rewrite" => files'[Top].fstab = Empty)
    BY <1>6, <2>1 DEF TruncateFstab, TypeOK
  <2> QED BY <1>6, <2>1, <2>2 DEF TruncateFstab, FstabOK
<1>7. CASE RewriteFstab /\ Beside
  <2>1. View("orig") = before /\ before \in Content /\ files[Top].orig = before
    BY <1>7, KeptView DEF RewriteFstab, FstabOK
  <2>2. Top' = Top /\ Top \in Place
    BY <1>7 DEF RewriteFstab, FstabFrame, Top, Place
  <2>3. files[Top].fstab = Empty
    BY <1>7 DEF RewriteFstab, FstabOK
  <2>4. files'[Top].orig = before /\ files'[Top].fstab \in {Empty, Rewritten(before)}
    BY <1>7, <2>1, <2>2, <2>3 DEF RewriteFstab, TypeOK
  <2>5. \A content \in {Empty, Rewritten(before)} : content \in Content /\ content.root # "disk"
    BY <2>1, RewrittenType DEF Content, Empty, Mark
  <2> QED BY <1>7, <2>2, <2>4, <2>5 DEF RewriteFstab, FstabOK
<1>8. CASE UndoFstab /\ Beside
  <2>1. ASSUME before # Nothing PROVE files'[Top].fstab = before
    <3>1. View("orig") = before
      BY <1>8, <2>1, KeptView DEF UndoFstab
    <3>2. Rename("orig", "fstab")
      BY <1>8, <2>1, <3>1 DEF UndoFstab
    <3> QED BY <2>1, <3>1, <3>2, RenameShape DEF File
  <2>2. Top' = Top
    BY <1>8 DEF UndoFstab, FstabFrame, Top
  <2> QED BY <1>8, <2>1, <2>2 DEF UndoFstab, FstabOK
<1>9. CASE LaterTasks
  BY <1>9 DEF LaterTasks, fstabVars, FstabOK, Top
<1>10. ASSUME NEW lost \in BOOLEAN, Halt(lost) PROVE FstabOK'
  BY <1>10 DEF Halt, FstabOK
<1>11. CASE ScheduleCommit \/ ScheduleUpdate \/ CleanJobs \/ EditConfig \/ UNCHANGED vars
  BY <1>11 DEF ScheduleCommit, ScheduleUpdate, CleanJobs, EditConfig, vars, passVars, fstabVars,
               FstabOK, Top
<1>12. CASE EditFstab
  <2>1. Top' = Top /\ Top \in Place
    BY <1>12 DEF EditFstab, passVars, Top, Place
  <2>2. files'[Top].fstab \in Content /\ files'[Top].fstab.root # "disk"
    BY <1>12, <2>1 DEF EditFstab, TypeOK, Content
  <2> QED BY <1>12, <2>1, <2>2 DEF EditFstab, FstabOK
<1> QED
  BY <1>1, <1>2, <1>3, <1>4, <1>5, <1>6, <1>7, <1>8, <1>9, <1>10, <1>11, <1>12, Steps

\* One step keeps the user's text where it is said to be.
LEMMA EditStep ==
  ASSUME TypeOK, BootOK, FstabOK, EditOK, [Next]_vars
  PROVE  EditOK'
<1> USE DEF At, GoTo
<1>0. /\ files \in [Place -> Pair] /\ Upper \in Place /\ Ram \in Place /\ Upper # Ram
      /\ Top \in {Upper, Ram}
  BY DEF TypeOK, Pair, Slot, Place, Upper, Ram, Top
<1>1. CASE Load \/ NoCommit \/ NoUpdateJob \/ UpdateConfig
  <2>1. /\ pc \in {"off", "reload", "commit", "update"} /\ UNCHANGED <<files, edited>>
        /\ pc' \in {"restored", "reload", "commit", "update", "prepare"}
    BY <1>1 DEF Load, NoCommit, NoUpdateJob, UpdateConfig, Fails, passVars, fstabVars
  <2> QED BY <2>1 DEF EditOK, Safe
<1>2. CASE CommitStep
  <2>1. pc = "commit" /\ pc' \in {"restored", "update"}
    BY <1>2, CommitSteps
  <2>2. CASE edited' = NoText
    BY <2>2 DEF EditOK
  <2>3. CASE UNCHANGED <<files, edited>>
    BY <2>1, <2>3 DEF EditOK, Safe
  <2> QED BY <1>2, <2>2, <2>3, CommitSteps DEF MoveUpper
<1>3. CASE Prepare
  <2>1. UNCHANGED edited => files'[Upper] = files[Upper] \/ edited' = NoText
    BY <1>0, <1>3 DEF Prepare, BlankUpper
  <2>2. pc' \notin {"truncate", "rewrite", "durables", "undo"} /\ pc = "prepare"
        /\ (UNCHANGED edited \/ edited' = NoText)
    BY <1>3 DEF Prepare, Fails, BlankUpper
  <2> QED BY <2>1, <2>2 DEF EditOK, Safe
<1>4. CASE (CollectRoot \/ CollectEnd \/ CollectMissing \/ CollectLayer \/ CollectUnreadable
              \/ CollectOverflow) /\ Outside
  <2>1. pc = "collect" /\ pc' \in {"collect", "crashed"} /\ UNCHANGED <<files, edited>>
    BY <1>4 DEF CollectRoot, CollectEnd, CollectMissing, CollectLayer, CollectUnreadable,
                CollectOverflow, Collecting, CollectFrame, Outside, fstabVars
  <2> QED BY <2>1 DEF EditOK, Safe
<1>5. CASE NoLayers \/ MountOverlay
  BY <1>5 DEF NoLayers, MountOverlay, Collection, Fails, fstabVars, EditOK, Safe
<1>6. CASE (NoMtabEntry \/ NoFstab) /\ Beside
  <2>1. pc = "fstab" /\ pc' = "undo" /\ before = Nothing
        /\ UNCHANGED <<files, before, edited, cfg>>
    BY <1>6 DEF NoMtabEntry, NoFstab, FstabFrame, fstabVars, BootOK
  <2> QED BY <2>1 DEF EditOK, Safe, Top
<1>7. CASE RenameFstab /\ Beside
  <2>1. /\ View("fstab") # Nothing /\ pc = "fstab" /\ pc' = "truncate"
        /\ UNCHANGED <<edited, cfg>>
    BY <1>7 DEF RenameFstab, FstabFrame
  <2>2. /\ \A p \in Place : p # Top => files'[p] = files[p]
        /\ files'[Top].orig = View("fstab")
        /\ files'[Top].fstab \in {Nothing, Whiteout}
    BY <1>7, RenameShape DEF RenameFstab, File
  <2>3. CASE Top = Ram
    BY <1>0, <2>1, <2>2, <2>3 DEF EditOK, Safe, Top
  <2>4. CASE Top = Upper
    <3>1. ASSUME edited # NoText PROVE View("fstab").text = edited
      <4>1. files[Upper].fstab # Whiteout
        BY <2>1, <2>4 DEF View, Visible, Nothing, Whiteout, Mark
      <4>2. files[Upper].fstab.text = edited
        BY <2>1, <3>1, <4>1 DEF EditOK, Safe
      <4>3. files[Upper].fstab # Nothing
        BY <3>1, <4>2 DEF Nothing, Mark
      <4> QED BY <2>4, <4>1, <4>2, <4>3 DEF View, Visible
    <3> QED BY <2>1, <2>2, <2>4, <3>1, Zenon DEF EditOK, Top, Upper, Ram
  <2> QED BY <1>0, <2>3, <2>4
<1>8. CASE TruncateFstab /\ Beside
  <2>1. UNCHANGED <<edited, cfg, before>> /\ pc = "truncate" /\ pc' \in {"rewrite", "undo"}
    BY <1>8 DEF TruncateFstab, FstabFrame
  <2>2. \/ files' = files /\ pc' = "undo"
        \/ files' = [files EXCEPT ![Top].fstab = Empty] /\ pc' = "rewrite"
    BY <1>8 DEF TruncateFstab
  <2>3. CASE files' = files /\ pc' = "undo"
    BY <1>0, <2>1, <2>3 DEF EditOK, Safe, Top
  <2>4. CASE files' = [files EXCEPT ![Top].fstab = Empty] /\ pc' = "rewrite"
    <3>1. files'[Top].orig = files[Top].orig /\ (Top = Ram => files'[Upper] = files[Upper])
      BY <1>0, <2>4
    <3> QED BY <1>0, <2>1, <2>4, <3>1 DEF EditOK, Safe, Top
  <2> QED BY <2>2, <2>3, <2>4
<1>9. CASE RewriteFstab /\ Beside
  <2>1. /\ UNCHANGED <<edited, cfg, before>> /\ pc = "rewrite" /\ pc' = "durables"
        /\ \/ files' = files
           \/ files' = [files EXCEPT ![Top].fstab = Rewritten(View("orig"))]
    BY <1>9 DEF RewriteFstab, FstabFrame
  <2>2. View("orig") = before /\ before \in Content /\ files[Top].orig = before
    BY <2>1, KeptView DEF FstabOK
  <2>3. files[Top].fstab = Empty
    BY <2>1 DEF FstabOK
  <2>4. /\ files'[Top].orig = files[Top].orig
        /\ files'[Top].fstab.text = files[Top].orig.text \/ files'[Top].fstab = Empty
        /\ Top = Ram => files'[Upper] = files[Upper]
    <3> DEFINE new == Rewritten(View("orig"))
    <3>1. new.text = files[Top].orig.text
      BY <2>2, RewrittenType
    <3>2. files' = files \/ files' = [files EXCEPT ![Top].fstab = new]
      BY <2>1
    <3>3. Top \in Place /\ files[Top] \in Pair
      BY <1>0
    <3> HIDE DEF new
    <3>4. CASE files' = files
      BY <2>3, <3>4
    <3>5. CASE files' = [files EXCEPT ![Top].fstab = new]
      <4>1. files'[Top].orig = files[Top].orig /\ files'[Top].fstab = new
        BY <1>0, <3>3, <3>5 DEF Pair
      <4>2. Top = Ram => files'[Upper] = files[Upper]
        BY <1>0, <3>5
      <4> QED BY <3>1, <4>1, <4>2
    <3> QED BY <3>2, <3>4, <3>5
  <2>5. Top' = Top
    BY <2>1 DEF Top
  <2>6. CASE Top = Upper
    BY <1>0, <2>1, <2>4, <2>5, <2>6 DEF EditOK
  <2>7. CASE Top = Ram
    <3>1. edited # NoText => Safe
      BY <2>7 DEF EditOK
    <3>2. edited' # NoText => Safe'
      BY <2>1, <2>4, <2>7, <3>1 DEF Safe
    <3>3. Top' # Upper
      BY <1>0, <2>5, <2>7
    <3> QED BY <3>2, <3>3 DEF EditOK
  <2> QED BY <1>0, <2>6, <2>7
<1>10. CASE UndoFstab /\ Beside
  <2>1. UNCHANGED <<cfg, before>> /\ pc = "undo" /\ pc' = "restored"
    BY <1>10 DEF UndoFstab, FstabFrame
  <2>2. CASE View("orig") = Nothing
    <3>1. files' = files /\ edited' = edited
      BY <1>10, <2>2 DEF UndoFstab
    <3>2. ASSUME edited # NoText PROVE Safe
      <4>1. CASE Top = Ram
        BY <3>2, <4>1 DEF EditOK
      <4>2. CASE Top = Upper
        <5>1. files[Upper].orig.text # edited
          <6>1. files[Upper].orig \in {Nothing, Whiteout}
            BY <2>2, <4>2 DEF View, Visible
          <6> QED BY <3>2, <6>1 DEF Nothing, Whiteout, Mark
        <5> QED BY <2>1, <3>2, <4>2, <5>1 DEF EditOK, Safe, Unwritten
      <4> QED BY <1>0, <4>1, <4>2
    <3> QED BY <2>1, <3>1, <3>2 DEF EditOK, Safe
  <2>3. CASE View("orig") # Nothing
    <3>1. /\ \A p \in Place : p # Top => files'[p] = files[p]
          /\ files'[Top].fstab = View("orig")
      BY <1>10, <2>3, RenameShape DEF UndoFstab, File
    <3>2. edited' = IF before = Nothing /\ View("fstab") # Nothing THEN NoText ELSE edited
      BY <1>10, <2>3 DEF UndoFstab
    <3>3. ASSUME edited' # NoText PROVE Safe'
      <4>1. edited' = edited /\ (before # Nothing \/ View("fstab") = Nothing)
        BY <3>2, <3>3
      <4>2. CASE Top = Ram
        BY <1>0, <3>1, <3>3, <4>1, <4>2 DEF EditOK, Safe
      <4>3. CASE Top = Upper
        <5>1. files[Upper].orig.text = edited
          <6>1. before = Nothing => files[Upper].fstab \in {Nothing, Whiteout}
            BY <4>1, <4>3 DEF View, Visible
          <6>2. files[Upper].fstab \in {Nothing, Whiteout} => files[Upper].fstab.text # edited
            BY <3>3, <4>1 DEF Nothing, Whiteout, Mark
          <6> QED BY <2>1, <3>3, <4>1, <4>3, <6>1, <6>2 DEF EditOK, Unwritten
        <5>2. files[Upper].orig \notin {Nothing, Whiteout}
          BY <3>3, <4>1, <5>1 DEF Nothing, Whiteout, Mark
        <5>3. View("orig") = files[Upper].orig
          BY <4>3, <5>2 DEF View, Visible
        <5> QED BY <3>1, <4>1, <4>3, <5>1, <5>3 DEF Safe
      <4> QED BY <1>0, <4>2, <4>3
    <3> QED BY <2>1, <3>3 DEF EditOK
  <2> QED BY <2>2, <2>3
<1>11. CASE LaterTasks
  <2>1. UNCHANGED <<files, edited, before, cfg>> /\ pc = "durables" /\ pc' \in {"undo", "composed"}
    BY <1>11 DEF LaterTasks, fstabVars
  <2>2. Top' = Top /\ before # Nothing
    BY <2>1 DEF Top, FstabOK
  <2> QED BY <1>0, <2>1, <2>2 DEF EditOK, Safe, Unwritten
<1>12. ASSUME NEW lost \in BOOLEAN, Halt(lost) PROVE EditOK'
  <2>1. files' = [files EXCEPT ![Ram] = NoFiles,
                               ![Upper].fstab = IF lost THEN Empty ELSE @]
    BY <1>12 DEF Halt
  <2>2. /\ pc' = "off"
        /\ \/ edited' = NoText
           \/ edited' = edited /\ files'[Upper].fstab \notin {Empty, Nothing}
    BY <1>12, Zenon DEF Halt
  <2>3. ASSUME edited' # NoText PROVE Safe'
    <3>1. edited' = edited /\ files'[Upper].fstab \notin {Empty, Nothing}
      BY <2>2, <2>3
    <3>2. CASE lost
      <4>1. files'[Upper].fstab = Empty
        BY <1>0, <2>1, <3>2 DEF Pair
      <4> QED BY <3>1, <4>1
    <3>3. ASSUME ~lost
          PROVE  files'[Upper] = files[Upper] /\ files[Upper].fstab \notin {Empty, Nothing}
      <4>1. files'[Upper] = files[Upper]
        BY <1>0, <2>1, <3>3 DEF Pair
      <4> QED BY <3>1, <4>1
    <3>4. ASSUME ~lost PROVE Safe
      <4>1. CASE Top = Upper /\ pc = "rewrite"
        BY <3>3, <3>4, <4>1 DEF FstabOK
      <4>2. CASE ~(Top = Upper /\ pc = "rewrite")
        BY <1>0, <2>3, <3>1, <3>3, <3>4, <4>2 DEF EditOK, Safe, Unwritten
      <4> QED BY <4>1, <4>2
    <3> QED BY <3>1, <3>2, <3>3, <3>4 DEF Safe
  <2> QED BY <2>2, <2>3 DEF EditOK
<1>13. CASE ScheduleCommit \/ ScheduleUpdate \/ CleanJobs \/ EditConfig \/ UNCHANGED vars
  BY <1>13 DEF ScheduleCommit, ScheduleUpdate, CleanJobs, EditConfig, vars, passVars, fstabVars,
               EditOK, Safe, Unwritten, Top
<1>14. CASE EditFstab
  <2>1. PICK text \in Text \ {Original} :
          /\ files' = [files EXCEPT ![Top].fstab = [text |-> text, root |-> "overlay"]]
          /\ edited' = IF Top = Upper THEN text ELSE edited
    BY <1>14 DEF EditFstab
  <2>2. pc = "composed" /\ UNCHANGED <<pc, cfg>>
    BY <1>14 DEF EditFstab, passVars
  <2>3. CASE Top = Upper
    BY <1>0, <2>1, <2>2, <2>3 DEF EditOK, Safe
  <2>4. CASE Top = Ram
    BY <1>0, <2>1, <2>2, <2>4 DEF EditOK, Safe
  <2> QED BY <1>0, <2>3, <2>4
<1> QED
  BY <1>1, <1>2, <1>3, <1>4, <1>5, <1>6, <1>7, <1>8, <1>9, <1>10, <1>11, <1>12, <1>13, <1>14,
     Steps

------------------------------------------------------------------------------
\* The invariant holds at first.
LEMMA InitInvariant == Init => IInv
<1> SUFFICES ASSUME Init PROVE IInv
  OBVIOUS
<1>1. BootOK /\ ChainOK /\ JobOK /\ FstabOK /\ EditOK
  BY DEF Init, BootOK, ChainOK, JobOK, FstabOK, EditOK, OnOverlay, At
<1> QED BY <1>1, TypeInit DEF IInv

\* Every step keeps it.
LEMMA NextInvariant == IInv /\ [Next]_vars => IInv'
<1> SUFFICES ASSUME IInv, [Next]_vars PROVE IInv'
  OBVIOUS
<1>1. TypeOK /\ BootOK /\ ChainOK /\ JobOK /\ FstabOK /\ EditOK
  BY DEF IInv
<1> QED
  BY <1>1, TypeStep, BootStep, ChainStep, JobStep, FilesStep, EditStep DEF IInv

\* The invariant holds in every reachable state.
THEOREM Invariance == Spec => []IInv
<1> USE InitInvariant, NextInvariant
<1> QED BY PTL DEF Spec

\* The types hold: no boot, failure or edit leaves a variable outside them.
THEOREM TypeCorrect == Spec => []TypeOK
<1>1. IInv => TypeOK
  BY DEF IInv
<1> QED BY <1>1, Invariance, PTL

\* A system on the overlay runs on the whole chain of its head, each layer on
\* the one it was made for (obCollectLayers, obMountOverlay).
THEOREM WholeChain == Spec => []ChainMounted
<1>1. IInv => ChainMounted
  BY DEF IInv, ChainMounted, ChainOK, BootOK, OnOverlay, Stacked, At
<1> QED BY <1>1, Invariance, PTL

\* Nothing kills obinit but a layer that stands on itself, or too many layers,
\* if the stack has room for more calls than there are layers (obCollectLayers).
THEOREM NoCrash ==
  ASSUME IsFiniteSet(Layer), Cardinality(Layer) < StackDepth
  PROVE  Spec => []CrashOnlyOnCycle
<1>1. IInv => CrashOnlyOnCycle
  <2> SUFFICES ASSUME IInv, At("crashed"), Counted
               PROVE  \E i, j \in 1..Len(chain) : i # j /\ chain[i] = chain[j]
    BY DEF CrashOnlyOnCycle
  <2>1. Len(chain) = StackDepth /\ (\A i \in 1..Len(chain) : chain[i] \in Layer)
        /\ StackDepth \in Nat /\ chain \in Seq(Layer \cup {Root})
    BY LayersAssumption DEF IInv, TypeOK, ChainOK, At
  <2>2. IsFiniteSet(1..StackDepth) /\ Cardinality(1..StackDepth) = StackDepth
    BY <2>1, FS_Interval
  <2>3. chain \in [1..StackDepth -> Layer]
    BY <2>1, LenProperties
  <2>4. \E i, j \in 1..StackDepth : i # j /\ chain[i] = chain[j]
    BY <2>2, <2>3, FS_PigeonHole
  <2> QED BY <2>1, <2>4
<1> QED BY <1>1, Invariance, PTL

\* A system on the overlay has an fstab that is not the disk's (obUpdateFstab).
THEOREM FstabFound == Spec => []FstabFits
<1>1. IInv => FstabFits
  <2> SUFFICES ASSUME IInv, At("composed")
               PROVE  View("fstab") # Nothing /\ View("fstab").root # "disk"
    BY DEF FstabFits
  <2>1. files[Top].fstab \in Content /\ files[Top].fstab.root # "disk"
    BY DEF IInv, FstabOK, At
  <2>2. files[Top].fstab \notin {Nothing, Whiteout}
    BY <2>1, FstabAssumption DEF Content, Nothing, Whiteout, Empty, Mark
  <2> QED BY <2>1, <2>2 DEF View, Visible
<1> QED BY <1>1, Invariance, PTL

\* A rollback leaves the fstab that the boot found (obDeinitFstab).
THEOREM FstabRestored == Spec => []FstabRolledBack
<1>1. IInv => FstabRolledBack
  <2> SUFFICES ASSUME IInv, At("restored"), before # Nothing
               PROVE  View("fstab") = before
    BY DEF FstabRolledBack
  <2>1. files[Top].fstab = before /\ before \in Content
    BY DEF IInv, TypeOK, FstabOK, At
  <2>2. before # Whiteout
    BY <2>1, FstabAssumption DEF Content, Whiteout, Empty, Mark
  <2> QED BY <2>1, <2>2 DEF View, Visible
<1> QED BY <1>1, Invariance, PTL

\* What the user wrote is in one of the two files (obUpdateFstab,
\* obDeinitFstab), whenever the power fails.
THEOREM EditKept == Spec => []FstabEditKept
<1>1. IInv => FstabEditKept
  <2> SUFFICES ASSUME IInv, edited # NoText
               PROVE  files[Upper].fstab.text = edited \/ files[Upper].orig.text = edited
    BY DEF FstabEditKept
  <2> QED BY DEF IInv, EditOK, Safe, Unwritten, Top
<1> QED BY <1>1, Invariance, PTL

\* A layer is committed on the layer its files were written over, or left without
\* a layer.yaml, or with one that names no layer (obExecCommitJob, obhelper).
THEOREM CommitOnBase == Spec => CommitPointsToHead
<1>1. IInv /\ [Next]_vars
        => [layer' # layer /\ ~commitJob.inRam
              => layer'[commitJob.name] \in {over, Bare, NoName}]_vars
  <2> SUFFICES ASSUME IInv, [Next]_vars, layer' # layer, ~commitJob.inRam
               PROVE  layer'[commitJob.name] \in {over, Bare, NoName}
    OBVIOUS
  <2>1. CommitStep
    BY Steps DEF Load, NoCommit, NoUpdateJob, UpdateConfig, Prepare, CollectRoot, CollectEnd,
      CollectMissing, CollectLayer, CollectUnreadable, CollectOverflow, CollectFrame, NoLayers,
      MountOverlay, NoMtabEntry, NoFstab, RenameFstab, TruncateFstab, RewriteFstab, UndoFstab,
      FstabFrame, LaterTasks, Halt, ScheduleCommit, ScheduleUpdate, CleanJobs, EditConfig,
      EditFstab, vars
  <2>2. /\ CanCommit /\ commitJob # NoJob
        /\ \E under \in {commitJob.under, NoName, Bare} :
             layer' = [layer EXCEPT ![commitJob.name] = under]
    BY <2>1, CommitSteps DEF MoveUpper
  <2>3. /\ commitJob.under = over /\ commitJob.name \in Layer
        /\ layer \in [Layer -> Name \cup {NoName, Absent, Bare}]
    BY <2>2 DEF IInv, JobOK, TypeOK, CanCommit
  <2> QED BY <2>2, <2>3
<1> QED BY <1>1, Invariance, PTL DEF Spec, CommitPointsToHead

\* The numbers of the stages.
LEMMA StageIs ==
  /\ Stage["reload"] = 1 /\ Stage["commit"] = 2 /\ Stage["update"] = 3
  /\ Stage["prepare"] = 4 /\ Stage["collect"] = 5 /\ Stage["fstab"] = 6
  /\ Stage["truncate"] = 7 /\ Stage["rewrite"] = 8 /\ Stage["durables"] = 9
  /\ Stage["undo"] = 10 /\ Stage["composed"] = 11 /\ Stage["restored"] = 11
  /\ Stage["crashed"] = 11
  BY DEF Stage

\* No step of a boot takes it back to where it was: a pass goes forward, the
\* recursion over the layers ends at the limit of the stack, whatever graph they
\* make, and only a reload, of which there is a limited number, starts a pass over
\* (main.c:48-61).
THEOREM BootForward == Spec => BootAdvances
<1>1. IInv /\ [Next]_vars => [Boot => Advances]_vars
  <2> SUFFICES ASSUME IInv, Boot PROVE Advances
    OBVIOUS
  <2> USE StageIs DEF At, GoTo, Fails, Unloaded
  <2>1. reloads \in Nat /\ StackDepth \in Nat /\ chain \in Seq(Layer \cup {Root})
        /\ cursor \in Name \cup {NoName, Done}
    BY OverlayAssumption, LayersAssumption DEF IInv, TypeOK
  <2>2. CASE pc = "reload" /\ Load
    BY <2>1, <2>2 DEF Load, Advances
  <2>3. CASE NoCommit \/ NoUpdateJob
    BY <2>1, <2>3 DEF NoCommit, NoUpdateJob, passVars, Advances
  <2>4. CASE CommitStep
    <3>1. reloads' = reloads /\ pc = "commit" /\ pc' \in {"restored", "update"}
      BY <2>4, CommitSteps DEF CommitFrame
    <3> QED BY <3>1, <2>1 DEF Advances
  <2>5. CASE UpdateConfig
    BY <2>1, <2>5 DEF UpdateConfig, Advances
  <2>6. CASE Prepare
    BY <2>1, <2>6 DEF Prepare, Advances
  <2>7. CASE CollectStep
    <3>1. pc = "collect" /\ reloads' = reloads
      BY <2>7 DEF CollectStep, Collect, CollectRoot, CollectEnd, CollectMissing, CollectLayer,
                  CollectUnreadable, CollectOverflow, Collecting
    <3>2. CASE CollectOverflow
      BY <2>1, <3>1, <3>2 DEF CollectOverflow, Advances
    <3>3. CASE ~CollectOverflow
      <4>1. cursor # Done
        BY <2>7, <3>3, LayersAssumption
        DEF CollectStep, Collect, CollectRoot, CollectEnd, CollectMissing, CollectLayer,
            CollectUnreadable, HasInfo, Root, NoName, End, Done
      <4>2. Len(chain) <= StackDepth
        BY <3>1, <4>1 DEF IInv, ChainOK
      <4>3. pc' = pc
        BY <2>7, <3>3 DEF CollectStep, Collect, CollectRoot, CollectEnd, CollectMissing,
                          CollectLayer, CollectUnreadable, CollectFrame
      <4>4. \/ cursor' = Done
            \/ /\ Len(chain) < StackDepth
               /\ Len(chain') = Len(chain) + 1
        BY <2>1, <2>7, <3>3 DEF CollectStep, Collect, CollectRoot, CollectEnd, CollectMissing,
                                CollectLayer, CollectUnreadable, HasInfo
      <4>5. 0 <= Room' /\ Room' < Room
        BY <2>1, <4>1, <4>2, <4>4 DEF Room
      <4> QED BY <3>1, <4>3, <4>5 DEF Advances
    <3> QED BY <3>2, <3>3
  <2>8. CASE NoLayers \/ MountOverlay
    BY <2>1, <2>8 DEF NoLayers, MountOverlay, Collection, passVars, Advances
  <2>9. CASE FstabTask
    BY <2>1, <2>9 DEF FstabTask, FstabStep, NoMtabEntry, NoFstab, RenameFstab, TruncateFstab,
                      RewriteFstab, UndoFstab, Advances
  <2>10. CASE LaterTasks
    BY <2>1, <2>10 DEF LaterTasks, Advances
  <2> QED
    BY <2>2, <2>3, <2>4, <2>5, <2>6, <2>7, <2>8, <2>9, <2>10 DEF Boot, CommitStep
<1> QED BY <1>1, Invariance, PTL DEF Spec, BootAdvances

\* When the fstab task rewrites the fstab, it finds the mount point of every line
\* (ObFstab.c:20-51),
THEOREM EveryMountPointFound == Spec => []ColumnsFound
<1>1. ColumnsFound
  BY EveryColumnFound, Zenon DEF ColumnsFound
<1> QED BY <1>1, PTL

\* and it puts the overlay's own entry in the place of the root's, and changes no
\* other line (ObFstab.c:88-121).
THEOREM OnlyRootReplaced == Spec => []RootEntryRewritten
<1>1. RootEntryRewritten
  BY EveryRootEntryRewritten, Zenon DEF RootEntryRewritten
<1> QED BY <1>1, PTL
==============================================================================
