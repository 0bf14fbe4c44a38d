--------------------------- MODULE SqlTextsProofs ---------------------------
(***************************************************************************)
(* Proofs that the SQL guard tells the texts of SqlTexts apart for any     *)
(* number of clauses and statements.                                       *)
(*                                                                         *)
(* The guard looks at tokens and knows nothing of statements; SqlTexts     *)
(* writes statements and knows nothing of the guard.  The invariant says   *)
(* of a text, after every clause, what the guard would find in it: the     *)
(* text is some s with a semicolon or none at either end, s has a main     *)
(* statement at a position f that MainIndex finds, and the positions of s  *)
(* keep the rules of a mode as long as the guard may take s for one        *)
(* statement of that mode (Judged): of a read, exactly as long as s is one *)
(* statement that only reads; of a write, no longer than s is one          *)
(* statement, or an INSERT of a query in parentheses with one more query   *)
(* after it (Passing).  That a rule says of a position what it said before *)
(* more was written (OkContinues) makes each action a matter of the few    *)
(* tokens it adds.  Texts that a separator has broken stay refused         *)
(* (Broken).                                                               *)
(***************************************************************************)
EXTENDS SqlTexts, Integers, SequenceTheorems, FiniteSetTheorems,
        WellFoundedInduction, TLAPS

-----------------------------------------------------------------------------
(***************************************************************************)
(* The vocabulary of the invariant, of SqlTexts.                           *)
(***************************************************************************)

(* The words of SqlTexts: every token a clause of a statement is made of.  *)
Words ==
  {"SELECT", "AS", "INTO", "FROM", "WHERE", "IN", "UNION", "ALL", "OPTION", "MAXDOP", "USE", "HINT",
   "WITH", "XMLNAMESPACES", "INSERT", "VALUES", "UPDATE", "SET", "DELETE", "MERGE", "USING", "ON",
   "WHEN", "MATCHED", "THEN", "OUTPUT", "EXEC", "a", "t", "(", ")", Comma, String, Quoted}

(* What a text is made of: words, and what separates statements.           *)
Tokens == Words \cup {Semicolon, "GO"}

(* How many parentheses are open after position i.                         *)
Level(s, i) ==
  Cardinality({j \in 1 .. i : s[j] = "("}) - Cardinality({j \in 1 .. i : s[j] = ")"})

(* Position i is outside every parenthesis.                                *)
Top(s, i) == Depth(s, i) = 0

(* The parenthesis at j closes the one at i.                               *)
Matches(s, i, j) ==
  /\ i < j /\ s[j] = ")" /\ Depth(s, j) = Depth(s, i)
  /\ \A k \in i + 1 .. j - 1 : ~(s[k] = ")" /\ Depth(s, k) = Depth(s, i))

(* A common table expression begins at x: a name, columns or none, AS, and *)
(* the parenthesis at o.                                                   *)
CteHead(s, x, o) ==
  /\ IsWord(s[x]) \/ s[x] = Quoted
  /\ s[x] # "XMLNAMESPACES"
  /\ \/ s[x + 1] = "AS" /\ o = x + 2
     \/ /\ s[x + 1] = "("
        /\ \E y \in x + 2 .. Len(s) - 2 :
             Matches(s, x + 1, y) /\ s[y + 1] = "AS" /\ o = y + 2
  /\ s[o] = "("

(* One expression, or the XML namespaces, from x to just before e: what    *)
(* one turn of skipCtePrefix passes over.                                  *)
CteAt(s, x, e) ==
  \/ \E o \in x + 2 .. e - 2 : CteHead(s, x, o) /\ Matches(s, o, e - 1)
  \/ x + 2 < e /\ s[x] = "XMLNAMESPACES" /\ s[x + 1] = "(" /\ Matches(s, x + 1, e - 1)

(* Expressions that follow each other, with commas, from after WITH to x.  *)
PathTo(s, x) ==
  \E P \in SUBSET (2 .. x) :
    /\ 2 \in P /\ x \in P
    /\ \A y \in P \ {x} : \E z \in P : y + 3 < z /\ CteAt(s, y, z - 1) /\ s[z - 1] = Comma

(* The statement begins at f: at the start, or after the last of the       *)
(* common table expressions.                                               *)
Main(s, f) ==
  /\ Depth(s, f) = 0 /\ s[f] # Comma
  /\ \/ s[1] # "WITH" /\ f = 1
     \/ s[1] = "WITH" /\ \E x \in 2 .. f - 1 : PathTo(s, x) /\ CteAt(s, x, f)

(* Nothing but common table expressions was written so far, and the last   *)
(* is closed or still open.                                                *)
Prefix(s) ==
  /\ s[1] = "WITH"
  /\ \E x \in 2 .. Len(s) :
       /\ PathTo(s, x)
       /\ IF open = <<>> THEN at = "defined" /\ CteAt(s, x, Len(s) + 1)
          ELSE /\ open[1] = "defined"
               /\ \E o \in x + 2 .. Len(s) :
                    /\ CteHead(s, x, o) /\ Depth(s, o) = 0
                    /\ \A k \in o .. Len(s) : Level(s, k) >= 1

(* The word at i is none that the mode forbids everywhere.                 *)
NotForbidden(s, i, mode) == s[i] \in Forbidden(mode) => IsQueryHintUse(s, i)

(* Position i breaks no rule of a read whose statement begins at f.        *)
ReadOk(s, f, i) ==
  /\ NotForbidden(s, i, "read")
  /\ i > f /\ s[i] = "SELECT" /\ Top(s, i) => AfterSetOperator(s, i)

(* Position i breaks no rule of a write whose statement begins at f.       *)
WriteOk(s, f, i) ==
  /\ NotForbidden(s, i, "write")
  /\ i > f =>
       /\ s[i] = "INTO" => IntoAllowed(s, f, i)
       /\ Top(s, i) =>
            /\ s[i] \in WriteKeywords => WriteAllowed(s, f, i)
            /\ s[i] = "SET" => SetAllowed(s, f, i)
            /\ s[i] = "SELECT" => SelectAllowed(s, f, i)

(* All of s passes as one read.                                            *)
ReadPasses(s, f) == \A i \in 1 .. Len(s) : ReadOk(s, f, i)

(* All of s passes as one write.                                           *)
WritePasses(s, f) == \A i \in 1 .. Len(s) : WriteOk(s, f, i)

(* The words a statement may begin with.                                   *)
Starts(statement) ==
  IF statement = Reading THEN {"SELECT"}
  ELSE IF statement = Other THEN {"EXEC", "USE", "SET"} ELSE {statement}

(* The clauses of an INSERT that has no rows yet.                          *)
Inserting == {"inserting", "output"}

(* The clauses of a MERGE that may have more branches.                     *)
Merging   == {"merging", "merged"}

(* One statement was written.                                              *)
Single == Len(statements) = 1

(* The first statement.                                                    *)
First == statements[1]

(* A query follows an INSERT, as a statement of its own.                   *)
Doubled == Len(statements) = 2 /\ First = "INSERT" /\ statements[2] = Reading

(* The statements of a text that a mode may accept.                        *)
Sole == Single \/ Doubled

(* One change, and no more statements than the write mode takes for one.   *)
Passing == changes = 1 /\ (Single \/ (Doubled /\ enclosed))

(* How far the statement that begins at f has come. The guard knows the    *)
(* words that may follow from those already there: an INSERT takes one     *)
(* source outside of parentheses, an UPDATE its SET where it stands, and   *)
(* an OUTPUT follows no SELECT.                                            *)
Stage(s, f) ==
  /\ Single /\ at \in Inserting =>
       /\ s[f] = "INSERT"
       /\ \A i \in f + 1 .. Len(s) : Top(s, i) => s[i] \notin {"SELECT", "VALUES"}
  /\ \/ Single /\ s[f] = "INSERT" /\ at \notin Inserting /\ changes = 1 /\ ~enclosed
     \/ Doubled
     => \E i \in f + 1 .. Len(s) : Top(s, i) /\ s[i] \in {"SELECT", "VALUES"}
  /\ Single /\ at \in Merging => s[f] = "MERGE"
  /\ s[f] = "UPDATE" => f + 2 <= Len(s) /\ s[f + 1] = "t" /\ s[f + 2] = "SET" /\ Top(s, f + 2)
  /\ at = "selected" /\ open = <<>> =>
       \E i \in f .. Len(s) : s[i] = "SELECT" /\ Top(s, i)
         /\ \A j \in i + 1 .. Len(s) : s[j] # "OUTPUT"

(* What the rules say of s, by what was really written: s passes as a read *)
(* exactly when it is one statement that changes nothing, and passes as a  *)
(* write when it is one statement that changes rows, and only when it is   *)
(* Passing.                                                                *)
Judged(s, f) ==
  /\ Main(s, f) /\ s[f] \in Starts(First)
  /\ Single /\ changes = 0 /\ nested = 0 <=> ReadPasses(s, f)
  /\ First \in Writing =>
       (Single /\ changes = 1 => WritePasses(s, f)) /\ (WritePasses(s, f) => Passing)
  /\ Sole => Stage(s, f)

(* What s holds, a text without separators at its ends: parentheses that   *)
(* match, but for those still open, and then nothing, common table         *)
(* expressions, or a statement that is judged as it is.                    *)
Written(s) ==
  /\ s \in Seq(Words)
  /\ Level(s, Len(s)) = Len(open) /\ \A i \in 0 .. Len(s) : Level(s, i) >= 0
  /\ s = <<>> => at = "start" /\ statements = <<>> /\ changes = 0 /\ nested = 0 /\ open = <<>>
  /\ s # <<>> /\ statements = <<>> =>
       /\ changes = 0 /\ nested = 0 /\ Prefix(s)
       /\ \A i \in 1 .. Len(s) : NotForbidden(s, i, "read")
  /\ statements # <<>> => \E f \in 1 .. Len(s) : Judged(s, f)

(* What a clause ends with when another statement may begin.               *)
EndTokens == {"a", "t", ")", Quoted, "DELETE"}

(* What the last token of a text says of the clause.                       *)
Ends(s) ==
  IF at = "query" THEN Last(s) \in SetOperators \/ (open # <<>> /\ Last(s) = "(")
  ELSE Last(s) \in EndTokens

(* The clauses of statements that change rows.                             *)
ChangeClauses == Inserting \cup Merging \cup {"changed", "returned"}

(* What can be written last.                                               *)
Clauses == QueryEnds \cup StatementEnds \cup ChangeClauses \cup {"start", "query", "defined"}

(* What follows a parenthesis that is open.                                *)
Afters == {"sourced", "filtered", "finished", "defined"}

(* The statements.                                                         *)
Kinds == {Reading, Other} \cup Writing

(* The variables of SqlTexts stay within their types.                      *)
Typed ==
  /\ text \in Seq(Tokens) /\ at \in Clauses /\ open \in Seq(Afters)
  /\ statements \in Seq(Kinds) /\ changes \in Nat
  /\ nested \in Nat /\ enclosed \in BOOLEAN /\ grouped \in Nat

(* Nothing but queries stands in parentheses.                              *)
Nesting ==
  /\ open # <<>> =>
       /\ at \in QueryEnds \cup {"query"}
       /\ \A k \in 2 .. Len(open) : open[k] \in {"sourced", "filtered"}

(* A statement that changes rows, and each of its clauses, was counted.    *)
Counted ==
  /\ statements # <<>> /\ First # Reading => changes >= 1
  /\ at \in ChangeClauses => changes >= 1 /\ statements # <<>>

(* A semicolon stands between other tokens.                                *)
Interior ==
  \E i \in DOMAIN text :
    /\ text[i] = Semicolon
    /\ \E j \in 1 .. i - 1 : text[j] # Semicolon
    /\ \E k \in i + 1 .. Len(text) : text[k] # Semicolon

(* Common table expressions are being written.                             *)
Defining == IF open = <<>> THEN at = "defined" ELSE open[1] = "defined"

(* A text that no mode accepts, whatever is still written: it holds GO, or *)
(* a semicolon between statements.                                         *)
Broken ==
  \/ \E i \in DOMAIN text : text[i] = "GO"
  \/ Interior /\ (Len(statements) >= 2 \/ (Len(statements) = 1 /\ Defining))

(* The text is s, with one semicolon or none before it and after it.       *)
Bodied(s, lead, trail) ==
  /\ lead \in {<<>>, <<Semicolon>>} /\ trail \in {<<>>, <<Semicolon>>}
  /\ text = lead \o s \o trail
  /\ Written(s)
  /\ s # <<>> /\ trail = <<>> => at # "start" /\ Ends(s)
  /\ trail # <<>> => s # <<>> /\ at = "start" /\ open = <<>> /\ statements # <<>>

-----------------------------------------------------------------------------
(***************************************************************************)
(* Counting tokens, and how deep each position stands.                     *)
(***************************************************************************)

(* How often a token occurs in the first i positions.                      *)
Count(s, token, i) == Cardinality({j \in 1 .. i : s[j] = token})

(* A set of numbers has a least.                                           *)
LEMMA LeastNatural ==
  ASSUME NEW S \in SUBSET Nat, S # {}
  PROVE  \E least \in S : \A n \in S : least <= n
<1>. DEFINE R == {p \in Nat \X Nat : p[1] < p[2]}
<1>1. IsWellFoundedOn(R, Nat)
  BY NatLessThanWellFounded DEF OpToRel
<1>. HIDE DEF R
<1>2. PICK least \in S : \A n \in S : ~(<<n, least>> \in R)
  BY <1>1, WFMin
<1>3. \A n \in S : ~(n < least)
  BY <1>2 DEF R
<1>. QED BY <1>3

(* A set that has zero, and with every number the next, has all.           *)
LEMMA Induction ==
  ASSUME NEW S, 0 \in S, \A n \in Nat : n \in S => n + 1 \in S
  PROVE  Nat \subseteq S
<1>. DEFINE T == Nat \ S
<1>. SUFFICES ASSUME T # {} PROVE FALSE
  OBVIOUS
<1>1. PICK least \in T : \A n \in T : least <= n
  <2>. HIDE DEF T
  <2>1. T \in SUBSET Nat
    BY DEF T
  <2>. QED BY <2>1, LeastNatural
<1>2. least - 1 \in S /\ least - 1 \in Nat
  BY <1>1
<1>. QED BY <1>1, <1>2

(* Counts are numbers.                                                     *)
LEMMA CountTyped ==
  ASSUME NEW s, NEW token, NEW i \in Nat
  PROVE  /\ IsFiniteSet({j \in 1 .. i : s[j] = token})
         /\ Count(s, token, i) \in Nat
<1>. DEFINE S == {j \in 1 .. i : s[j] = token}
<1>1. IsFiniteSet(1 .. i)
  BY FS_Interval
<1>2. S \in SUBSET (1 .. i)
  OBVIOUS
<1>3. IsFiniteSet(S)
  <2>. HIDE DEF S
  <2>. QED BY <1>1, <1>2, FS_Subset
<1>4. Cardinality(S) \in Nat
  <2>. HIDE DEF S
  <2>. QED BY <1>3, FS_CardinalityType
<1>. QED BY <1>3, <1>4 DEF Count

(* A token that is nowhere is counted as zero.                             *)
LEMMA CountNone ==
  ASSUME NEW s, NEW token, NEW i \in Nat, \A j \in 1 .. i : s[j] # token
  PROVE  Count(s, token, i) = 0
<1>1. {j \in 1 .. i : s[j] = token} = {}
  OBVIOUS
<1>. QED BY <1>1, FS_EmptySet DEF Count

(* One more position counts one more at most.                              *)
LEMMA CountStep ==
  ASSUME NEW s, NEW token, NEW i \in Nat
  PROVE  Count(s, token, i + 1) = Count(s, token, i) + (IF s[i + 1] = token THEN 1 ELSE 0)
<1>. DEFINE S == {j \in 1 .. i : s[j] = token}
            T == {j \in 1 .. i + 1 : s[j] = token}
<1>1. IsFiniteSet(S) /\ Cardinality(S) \in Nat
  BY CountTyped DEF Count
<1>2. CASE s[i + 1] = token
  <2>1. \A j : j \in T <=> j \in S \cup {i + 1}
    BY <1>2
  <2>2. T = S \cup {i + 1} /\ i + 1 \notin S
    <3>1. i + 1 \notin S
      OBVIOUS
    <3>. HIDE DEF S, T
    <3>. QED BY <2>1, <3>1, Zenon
  <2>3. Cardinality(S \cup {i + 1}) = Cardinality(S) + 1
    <3>. HIDE DEF S
    <3>. QED BY <1>1, <2>2, FS_AddElement
  <2>. QED BY <1>2, <2>2, <2>3 DEF Count
<1>3. CASE s[i + 1] # token
  <2>1. \A j : j \in T <=> j \in S
    BY <1>3
  <2>2. T = S
    <3>. HIDE DEF S, T
    <3>. QED BY <2>1, Zenon
  <2>. QED BY <1>1, <1>3, <2>2 DEF Count
<1>. QED BY <1>2, <1>3

(* Texts that agree on some positions count the same there.                *)
LEMMA CountSame ==
  ASSUME NEW s, NEW t, NEW token, NEW i \in Nat, \A j \in 1 .. i : s[j] = t[j]
  PROVE  Count(s, token, i) = Count(t, token, i)
<1>1. {j \in 1 .. i : s[j] = token} = {j \in 1 .. i : t[j] = token}
  OBVIOUS
<1>. QED BY <1>1 DEF Count

(* What is appended is counted on its own.                                 *)
LEMMA CountAppended ==
  ASSUME NEW S, NEW s \in Seq(S), NEW b \in Seq(S), NEW token, NEW k \in 0 .. Len(b)
  PROVE  Count(s \o b, token, Len(s) + k) = Count(s, token, Len(s)) + Count(b, token, k)
<1>. DEFINE t == s \o b
            n == Len(s)
            K == {i \in Nat : i <= Len(b) =>
              Count(t, token, n + i) = Count(s, token, n) + Count(b, token, i)}
<1>0. /\ n \in Nat /\ Len(b) \in Nat
      /\ \A j \in 1 .. n : t[j] = s[j]
      /\ \A j \in 1 .. Len(b) : t[n + j] = b[j]
  OBVIOUS
<1>. HIDE DEF t, n
<1>1. 0 \in K
  <2>1. Count(t, token, n) = Count(s, token, n)
    BY <1>0, CountSame
  <2>2. Count(b, token, 0) = 0
    BY CountNone
  <2>3. Count(s, token, n) \in Nat
    BY <1>0, CountTyped
  <2>4. n + 0 = n
    BY <1>0
  <2>. QED BY <2>1, <2>2, <2>3, <2>4
<1>2. ASSUME NEW i \in Nat, i \in K PROVE i + 1 \in K
  <2>. SUFFICES ASSUME i + 1 <= Len(b)
                PROVE  Count(t, token, n + (i + 1)) = Count(s, token, n) + Count(b, token, i + 1)
    OBVIOUS
  <2>1. Count(t, token, n + i) = Count(s, token, n) + Count(b, token, i)
    BY <1>2, <1>0
  <2>2. Count(t, token, (n + i) + 1) =
          Count(t, token, n + i) + (IF t[(n + i) + 1] = token THEN 1 ELSE 0)
    BY <1>0, CountStep
  <2>3. Count(b, token, i + 1) = Count(b, token, i) + (IF b[i + 1] = token THEN 1 ELSE 0)
    BY CountStep
  <2>4. (n + i) + 1 = n + (i + 1) /\ t[n + (i + 1)] = b[i + 1]
    BY <1>0
  <2>5. Count(b, token, i) \in Nat /\ Count(s, token, n) \in Nat
    BY <1>0, CountTyped
  <2>. QED BY <2>1, <2>2, <2>3, <2>4, <2>5
<1>3. Nat \subseteq K
  <2>. HIDE DEF K
  <2>. QED BY <1>1, <1>2, Induction
<1>4. Count(t, token, n + k) = Count(s, token, n) + Count(b, token, k)
  <2>1. k \in Nat /\ k <= Len(b)
    BY <1>0
  <2>2. k \in K
    BY <2>1, <1>3
  <2>. QED BY <2>1, <2>2
<1>. QED BY <1>4 DEF t, n

(* Levels are differences of counts.                                       *)
LEMMA LevelIs ==
  ASSUME NEW s, NEW i \in Nat
  PROVE  Level(s, i) = Count(s, "(", i) - Count(s, ")", i) /\ Level(s, i) \in Int
<1>1. Count(s, "(", i) \in Nat /\ Count(s, ")", i) \in Nat
  BY CountTyped
<1>2. Level(s, i) = Count(s, "(", i) - Count(s, ")", i)
  BY DEF Level, Count
<1>. QED BY <1>1, <1>2

(* Depths, as the guard computes them, are levels: that of a closing       *)
(* parenthesis after it, that of any other token before it.                *)
LEMMA DepthIs ==
  ASSUME NEW s, NEW i \in Nat
  PROVE  /\ s[i + 1] = ")" => Depth(s, i + 1) = Level(s, i + 1)
         /\ s[i + 1] # ")" => Depth(s, i + 1) = Level(s, i)
         /\ Depth(s, i + 1) \in Int
<1>1. Depth(s, i + 1) = Count(s, "(", i) - Count(s, ")", i + 1)
  <2>1. (i + 1) - 1 = i
    OBVIOUS
  <2>. QED BY <2>1 DEF Depth, Count
<1>2. /\ Count(s, "(", i + 1) = Count(s, "(", i) + (IF s[i + 1] = "(" THEN 1 ELSE 0)
      /\ Count(s, ")", i + 1) = Count(s, ")", i) + (IF s[i + 1] = ")" THEN 1 ELSE 0)
  BY CountStep
<1>3. Count(s, "(", i) \in Nat /\ Count(s, ")", i) \in Nat
  BY CountTyped
<1>4. i + 1 \in Nat
  OBVIOUS
<1>5. Level(s, i) = Count(s, "(", i) - Count(s, ")", i)
  BY LevelIs
<1>6. Level(s, i + 1) = Count(s, "(", i + 1) - Count(s, ")", i + 1)
  BY LevelIs, <1>4
<1>. QED BY <1>1, <1>2, <1>3, <1>5, <1>6

(* Only a parenthesis changes the level.                                   *)
LEMMA LevelStep ==
  ASSUME NEW s, NEW i \in Nat
  PROVE  Level(s, i + 1) = Level(s,
           i) + (IF s[i + 1] = "(" THEN 1 ELSE IF s[i + 1] = ")" THEN -1 ELSE 0)
<1>2. /\ Count(s, "(", i + 1) = Count(s, "(", i) + (IF s[i + 1] = "(" THEN 1 ELSE 0)
      /\ Count(s, ")", i + 1) = Count(s, ")", i) + (IF s[i + 1] = ")" THEN 1 ELSE 0)
  BY CountStep
<1>3. Count(s, "(", i) \in Nat /\ Count(s, ")", i) \in Nat
  BY CountTyped
<1>4. i + 1 \in Nat
  OBVIOUS
<1>5. Level(s, i) = Count(s, "(", i) - Count(s, ")", i)
  BY LevelIs
<1>6. Level(s, i + 1) = Count(s, "(", i + 1) - Count(s, ")", i + 1)
  BY LevelIs, <1>4
<1>. QED BY <1>2, <1>3, <1>5, <1>6

(* Nothing is open at the start.                                           *)
LEMMA LevelZero == ASSUME NEW s PROVE Level(s, 0) = 0
<1>1. Count(s, "(", 0) = 0 /\ Count(s, ")", 0) = 0
  BY CountNone
<1>. QED BY <1>1, LevelIs

(* The levels of what is written are those of what stood before.           *)
LEMMA LevelAppended ==
  ASSUME NEW S, NEW s \in Seq(S), NEW b \in Seq(S)
  PROVE  /\ \A i \in 0 .. Len(s) : Level(s \o b, i) = Level(s, i)
         /\ \A i \in 1 .. Len(s) : Depth(s \o b, i) = Depth(s, i)
         /\ \A k \in 0 .. Len(b) : Level(s \o b, Len(s) + k) = Level(s, Len(s)) + Level(b, k)
         /\ \A k \in 1 .. Len(b) : Depth(s \o b, Len(s) + k) = Level(s, Len(s)) + Depth(b, k)
<1>. DEFINE t == s \o b
            n == Len(s)
<1>0. /\ n \in Nat /\ Len(b) \in Nat
      /\ \A j \in 1 .. n : t[j] = s[j]
      /\ \A j \in 1 .. Len(b) : t[n + j] = b[j]
  OBVIOUS
<1>4. \A k \in 0 .. Len(b) : /\ Count(t, "(", n + k) = Count(s, "(", n) + Count(b, "(", k)
                             /\ Count(t, ")", n + k) = Count(s, ")", n) + Count(b, ")", k)
  BY CountAppended
<1>. HIDE DEF t, n
<1>1. ASSUME NEW i \in 0 .. n PROVE Level(t, i) = Level(s, i)
  <2>1. i \in Nat /\ \A j \in 1 .. i : s[j] = t[j]
    BY <1>0
  <2>2. Count(s, "(", i) = Count(t, "(", i) /\ Count(s, ")", i) = Count(t, ")", i)
    BY <2>1, CountSame
  <2>3. Level(s, i) = Count(s, "(", i) - Count(s, ")", i)
          /\ Level(t, i) = Count(t, "(", i) - Count(t, ")", i)
    BY <2>1, LevelIs
  <2>. QED BY <2>2, <2>3
<1>2. ASSUME NEW i \in 1 .. n PROVE Depth(t, i) = Depth(s, i)
  <2>. DEFINE j == i - 1
  <2>1. i = j + 1 /\ j \in Nat /\ s[i] = t[i] /\ j \in 0 .. n
    BY <1>0
  <2>. HIDE DEF j
  <2>2. Level(t, j) = Level(s, j) /\ Level(t, i) = Level(s, i)
    BY <2>1, <1>1
  <2>3. (s[j + 1] = ")" => Depth(s, j + 1) = Level(s, j + 1))
          /\ (s[j + 1] # ")" => Depth(s, j + 1) = Level(s, j))
    BY <2>1, DepthIs
  <2>4. (t[j + 1] = ")" => Depth(t, j + 1) = Level(t, j + 1))
          /\ (t[j + 1] # ")" => Depth(t, j + 1) = Level(t, j))
    BY <2>1, DepthIs
  <2>. QED BY <2>1, <2>2, <2>3, <2>4
<1>3. ASSUME NEW k \in 0 .. Len(b) PROVE Level(t, n + k) = Level(s, n) + Level(b, k)
  <2>1. k \in Nat /\ n + k \in Nat
    BY <1>0
  <2>2. /\ Level(s, n) = Count(s, "(", n) - Count(s, ")", n)
        /\ Level(b, k) = Count(b, "(", k) - Count(b, ")", k)
        /\ Level(t, n + k) = Count(t, "(", n + k) - Count(t, ")", n + k)
    BY <2>1, <1>0, LevelIs
  <2>3. /\ Count(s, "(", n) \in Nat /\ Count(s, ")", n) \in Nat
        /\ Count(b, "(", k) \in Nat /\ Count(b, ")", k) \in Nat
    BY <2>1, <1>0, CountTyped
  <2>. QED BY <1>4, <2>2, <2>3
<1>5. ASSUME NEW k \in 1 .. Len(b) PROVE Depth(t, n + k) = Level(s, n) + Depth(b, k)
  <2>. DEFINE j == k - 1
  <2>1. k = j + 1 /\ j \in Nat /\ j \in 0 .. Len(b) /\ n + k = (n + j) + 1 /\ n + j \in Nat
          /\ t[n + k] = b[k]
    BY <1>0
  <2>. HIDE DEF j
  <2>2. Level(t, n + j) = Level(s, n) + Level(b, j) /\ Level(t, n + k) = Level(s, n) + Level(b, k)
    BY <2>1, <1>3
  <2>3. (b[j + 1] = ")" => Depth(b, j + 1) = Level(b, j + 1))
          /\ (b[j + 1] # ")" => Depth(b, j + 1) = Level(b, j))
    BY <2>1, DepthIs
  <2>4. /\ t[(n + j) + 1] = ")" => Depth(t, (n + j) + 1) = Level(t, (n + j) + 1)
        /\ t[(n + j) + 1] # ")" => Depth(t, (n + j) + 1) = Level(t, n + j)
    BY <2>1, DepthIs
  <2>. QED BY <2>1, <2>2, <2>3, <2>4
<1>. QED BY <1>1, <1>2, <1>3, <1>5 DEF t, n

-----------------------------------------------------------------------------
(***************************************************************************)
(* What a longer text keeps of a shorter one.                              *)
(***************************************************************************)

(* t goes on where s ends.                                                 *)
Continues(t, s) ==
  /\ Len(s) \in Nat /\ Len(t) \in Nat /\ Len(s) <= Len(t)
  /\ \A i \in 1 .. Len(s) : t[i] = s[i] /\ Depth(t, i) = Depth(s, i) /\ Depth(s, i) \in Int
  /\ \A i \in 0 .. Len(s) : Level(t, i) = Level(s, i) /\ Level(s, i) \in Int

(* A text with more after it goes on where it ended.                       *)
LEMMA AppendedContinues ==
  ASSUME NEW S, NEW s \in Seq(S), NEW b \in Seq(S)
  PROVE  Continues(s \o b, s)
<1>1. Len(s) \in Nat /\ Len(s \o b) \in Nat /\ Len(s) <= Len(s \o b)
      /\ \A i \in 1 .. Len(s) : (s \o b)[i] = s[i]
  OBVIOUS
<1>2. /\ \A i \in 0 .. Len(s) : Level(s \o b, i) = Level(s, i)
      /\ \A i \in 1 .. Len(s) : Depth(s \o b, i) = Depth(s, i)
  BY LevelAppended
<1>3. \A i \in 0 .. Len(s) : Level(s, i) \in Int
  BY LevelIs
<1>4. ASSUME NEW i \in 1 .. Len(s) PROVE Depth(s, i) \in Int
  <2>1. i - 1 \in Nat /\ (i - 1) + 1 = i
    BY <1>1
  <2>2. Depth(s, (i - 1) + 1) \in Int
    BY <2>1, DepthIs
  <2>. QED BY <2>1, <2>2
<1>. QED BY <1>1, <1>2, <1>3, <1>4 DEF Continues

(* Parentheses that match still do when the text goes on.                  *)
LEMMA MatchesContinues ==
  ASSUME NEW s, NEW t, Continues(t, s), NEW i \in Nat, NEW j \in 1 .. Len(s), 1 <= i,
         Matches(s, i, j)
  PROVE  Matches(t, i, j)
<1>1. i < j
  BY DEF Matches
<1>2. \A k \in i .. j : k \in 1 .. Len(s)
  BY <1>1 DEF Continues
<1>. QED BY <1>1, <1>2 DEF Matches, Continues

(* An expression that began still does.                                    *)
LEMMA CteHeadContinues ==
  ASSUME NEW s, NEW t, Continues(t, s), NEW x \in Nat, NEW o \in 1 .. Len(s), 1 <= x, x + 2 <= o,
         CteHead(s, x, o)
  PROVE  CteHead(t, x, o)
<1>1. x \in 1 .. Len(s) /\ x + 1 \in 1 .. Len(s)
  BY DEF Continues
<1>2. t[x] = s[x] /\ t[x + 1] = s[x + 1] /\ t[o] = s[o]
  BY <1>1 DEF Continues
<1>3. CASE s[x + 1] = "AS" /\ o = x + 2
  BY <1>2, <1>3 DEF CteHead
<1>4. CASE s[x + 1] = "(" /\ \E y \in x + 2 .. Len(s) - 2 : Matches(s, x + 1, y) /\ s[y + 1] = "AS"
             /\ o = y + 2
  <2>1. PICK y \in x + 2 .. Len(s) - 2 : Matches(s, x + 1, y) /\ s[y + 1] = "AS" /\ o = y + 2
    BY <1>4
  <2>2. y \in 1 .. Len(s) /\ y + 1 \in 1 .. Len(s) /\ y \in x + 2 .. Len(t) - 2 /\ x + 1 \in Nat
          /\ 1 <= x + 1
    BY <1>1, SMTT(30) DEF Continues
  <2>3. Matches(t, x + 1, y)
    BY <2>1, <2>2, MatchesContinues
  <2>4. t[y + 1] = "AS"
    BY <2>1, <2>2 DEF Continues
  <2>. QED BY <1>2, <1>4, <2>1, <2>2, <2>3, <2>4 DEF CteHead
<1>. QED BY <1>3, <1>4 DEF CteHead

(* An expression that ended still does.                                    *)
LEMMA CteContinues ==
  ASSUME NEW s, NEW t, Continues(t, s), NEW x \in Nat, NEW e \in Nat, 1 <= x, e <= Len(s) + 1,
         CteAt(s, x, e)
  PROVE  CteAt(t, x, e)
<1>0. Len(s) \in Nat
  BY DEF Continues
<1>1. CASE \E o \in x + 2 .. e - 2 : CteHead(s, x, o) /\ Matches(s, o, e - 1)
  <2>1. PICK o \in x + 2 .. e - 2 : CteHead(s, x, o) /\ Matches(s, o, e - 1)
    BY <1>1
  <2>2. o \in Nat /\ 1 <= o /\ o \in 1 .. Len(s) /\ e - 1 \in 1 .. Len(s) /\ x + 2 <= o
    BY <1>0
  <2>3. CteHead(t, x, o)
    BY <2>1, <2>2, CteHeadContinues
  <2>4. Matches(t, o, e - 1)
    BY <2>1, <2>2, MatchesContinues
  <2>. QED BY <2>3, <2>4 DEF CteAt
<1>2. CASE x + 2 < e /\ s[x] = "XMLNAMESPACES" /\ s[x + 1] = "(" /\ Matches(s, x + 1, e - 1)
  <2>1. x \in 1 .. Len(s) /\ x + 1 \in 1 .. Len(s) /\ x + 1 \in Nat /\ 1 <= x + 1
          /\ e - 1 \in 1 .. Len(s)
    BY <1>0, <1>2
  <2>2. Matches(t, x + 1, e - 1)
    BY <1>2, <2>1, MatchesContinues
  <2>3. t[x] = s[x] /\ t[x + 1] = s[x + 1]
    BY <2>1 DEF Continues
  <2>. QED BY <1>2, <2>2, <2>3 DEF CteAt
<1>. QED BY <1>1, <1>2 DEF CteAt

(* Expressions that follow each other still do.                            *)
LEMMA PathContinues ==
  ASSUME NEW s, NEW t, Continues(t, s), NEW x \in Nat, x <= Len(s) + 1, PathTo(s, x)
  PROVE  PathTo(t, x)
<1>0. Len(s) \in Nat
  BY DEF Continues
<1>1. PICK P \in SUBSET (2 .. x) :
        /\ 2 \in P /\ x \in P
        /\ \A y \in P \ {x} : \E z \in P : y + 3 < z /\ CteAt(s, y, z - 1) /\ s[z - 1] = Comma
  BY DEF PathTo
<1>2. ASSUME NEW y \in P \ {x}
      PROVE  \E z \in P : y + 3 < z /\ CteAt(t, y, z - 1) /\ t[z - 1] = Comma
  <2>1. PICK z \in P : y + 3 < z /\ CteAt(s, y, z - 1) /\ s[z - 1] = Comma
    BY <1>1
  <2>2. y \in Nat /\ 1 <= y /\ z - 1 \in Nat /\ z - 1 <= Len(s) + 1 /\ z - 1 \in 1 .. Len(s)
    <3>1. y \in 2 .. x /\ z \in 2 .. x /\ y + 3 < z
      BY <1>1, <1>2, <2>1
    <3>. QED BY <1>0, <3>1
  <2>3. CteAt(t, y, z - 1)
    BY <2>1, <2>2, CteContinues
  <2>4. t[z - 1] = s[z - 1]
    BY <2>2 DEF Continues
  <2>. QED BY <2>1, <2>3, <2>4
<1>. QED BY <1>1, <1>2 DEF PathTo

(* The statement begins where it did.                                      *)
LEMMA MainContinues ==
  ASSUME NEW s, NEW t, Continues(t, s), NEW f \in 1 .. Len(s), Main(s, f)
  PROVE  Main(t, f)
<1>0. Len(s) \in Nat /\ 1 \in 1 .. Len(s) /\ t[1] = s[1] /\ t[f] = s[f] /\ Depth(t, f) = Depth(s, f)
  BY DEF Continues
<1>1. CASE s[1] # "WITH" /\ f = 1
  BY <1>0, <1>1 DEF Main
<1>2. CASE s[1] = "WITH" /\ \E x \in 2 .. f - 1 : PathTo(s, x) /\ CteAt(s, x, f)
  <2>1. PICK x \in 2 .. f - 1 : PathTo(s, x) /\ CteAt(s, x, f)
    BY <1>2
  <2>2. x \in Nat /\ x <= Len(s) + 1 /\ 1 <= x /\ f \in Nat /\ f <= Len(s) + 1
    BY <1>0
  <2>3. PathTo(t, x) /\ CteAt(t, x, f)
    BY <2>1, <2>2, PathContinues, CteContinues
  <2>. QED BY <1>0, <1>2, <2>3 DEF Main
<1>. QED BY <1>1, <1>2 DEF Main

(* One more common table expression.                                       *)
LEMMA PathGoesOn ==
  ASSUME NEW s \in Seq(Words), NEW x \in Nat, 2 <= x, NEW e \in Nat, PathTo(s, x), CteAt(s, x, e),
         s[e] = Comma
  PROVE  PathTo(s, e + 1)
<1>0. x + 3 < e + 1
  <2>1. CASE \E o \in x + 2 .. e - 2 : CteHead(s, x, o) /\ Matches(s, o, e - 1)
    BY <2>1
  <2>2. CASE x + 2 < e
    BY <2>2
  <2>. QED BY <2>1, <2>2 DEF CteAt
<1>1. PICK P \in SUBSET (2 .. x) :
        /\ 2 \in P /\ x \in P
        /\ \A y \in P \ {x} : \E z \in P : y + 3 < z /\ CteAt(s, y, z - 1) /\ s[z - 1] = Comma
  BY DEF PathTo
<1>. DEFINE Q == P \cup {e + 1}
<1>2. Q \in SUBSET (2 .. e + 1) /\ 2 \in Q /\ e + 1 \in Q
  <2>1. 2 .. x \subseteq 2 .. e + 1 /\ e + 1 \in 2 .. e + 1
    BY <1>0
  <2>. QED BY <1>1, <2>1
<1>3. ASSUME NEW y \in Q \ {e + 1}
      PROVE  \E z \in Q : y + 3 < z /\ CteAt(s, y, z - 1) /\ s[z - 1] = Comma
  <2>1. CASE y = x
    <3>1. (e + 1) - 1 = e /\ e + 1 \in Q
      <4>1. (e + 1) - 1 = e
        OBVIOUS
      <4>2. e + 1 \in Q
        OBVIOUS
      <4>. QED BY <4>1, <4>2
    <3>. QED BY <2>1, <3>1, <1>0
  <2>2. CASE y # x
    BY <1>1, <2>2
  <2>. QED BY <2>1, <2>2
<1>. HIDE DEF Q
<1>. QED BY <1>2, <1>3 DEF PathTo

-----------------------------------------------------------------------------
(***************************************************************************)
(* The searches of the guard: closing parentheses and common table         *)
(* expressions.                                                            *)
(***************************************************************************)

(* Min and Max, as the community modules choose them.                      *)
LEMMA MinOf ==
  ASSUME NEW S \in SUBSET Nat, S # {}
  PROVE  Min(S) \in S /\ \A i \in S : Min(S) <= i
<1>1. \E least \in S : \A n \in S : least <= n
  BY LeastNatural
<1>. QED BY <1>1 DEF Min

(* The least member is the minimum.                                        *)
LEMMA MinIs ==
  ASSUME NEW S \in SUBSET Nat, NEW m \in S, \A i \in S : m <= i
  PROVE  Min(S) = m
<1>. DEFINE k == Min(S)
<1>1. k \in S /\ \A i \in S : k <= i
  BY MinOf
<1>. HIDE DEF k
<1>2. k = m
  BY <1>1
<1>. QED BY <1>2 DEF k

(* The greatest member is the maximum.                                     *)
LEMMA MaxIs ==
  ASSUME NEW S \in SUBSET Nat, NEW m \in S, \A i \in S : m >= i
  PROVE  Max(S) = m
<1>. DEFINE k == Max(S)
<1>1. k \in S /\ \A i \in S : k >= i
  BY DEF Max
<1>. HIDE DEF k
<1>2. k = m
  BY <1>1
<1>. QED BY <1>2 DEF k

(* The search for a closing parenthesis finds the one that matches.        *)
LEMMA MatchesIsNext ==
  ASSUME NEW s, Len(s) \in Nat, NEW i \in Nat, NEW j \in 1 .. Len(s), Matches(s, i, j)
  PROVE  AfterParenthesis(s, i) = j + 1
<1>. DEFINE S == {k \in i + 1 .. Len(s) : s[k] = ")" /\ Depth(s, k) = Depth(s, i)}
<1>1. S \in SUBSET Nat /\ j \in S
  BY DEF Matches
<1>2. ASSUME NEW k \in S PROVE j <= k
  <2>1. k \in Nat /\ i + 1 <= k /\ s[k] = ")" /\ Depth(s, k) = Depth(s, i)
    OBVIOUS
  <2>. QED BY <2>1 DEF Matches
<1>3. Min(S) = j
  <2>. HIDE DEF S
  <2>. QED BY <1>1, <1>2, MinIs
<1>. QED BY <1>3 DEF AfterParenthesis

(* In a text whose parentheses match, the search for the one that closes   *)
(* another finds one.                                                      *)
LEMMA ParenthesisCloses ==
  ASSUME NEW s, Len(s) \in Nat, NEW i \in 1 .. Len(s), s[i] = "(",
         \A k \in 0 .. Len(s) : Level(s, k) >= 0, Level(s, Len(s)) = 0
  PROVE  AfterParenthesis(s, i) \in i + 2 .. Len(s) + 1
<1>. DEFINE n == Len(s)
            d == Depth(s, i)
            Back == {k \in Nat : i <= k /\ k <= n /\ Level(s, k) <= d}
            S == {k \in i + 1 .. n : s[k] = ")" /\ Depth(s, k) = d}
<1>1. \A k \in Nat : Level(s, k) \in Int
  BY LevelIs
<1>2. d = Level(s, i - 1) /\ Level(s, i) = d + 1 /\ d >= 0 /\ d \in Int
  <2>. DEFINE j == i - 1
  <2>1. j \in Nat /\ i = j + 1 /\ j \in 0 .. n /\ s[j + 1] = "("
    OBVIOUS
  <2>. HIDE DEF j
  <2>2. Depth(s, j + 1) = Level(s, j)
    BY <2>1, DepthIs
  <2>3. Level(s, j + 1) = Level(s, j) + 1
    BY <2>1, LevelStep
  <2>4. Level(s, j) \in Int /\ Level(s, j) >= 0
    BY <1>1, <2>1
  <2>5. d = Level(s, j) /\ Level(s, i) = d + 1 /\ d >= 0 /\ d \in Int
    BY <2>1, <2>2, <2>3, <2>4
  <2>. QED BY <2>5 DEF j
<1>. HIDE DEF d
<1>3. n \in Back
  BY <1>2
<1>4. PICK c \in Back : \A k \in Back : c <= k
  <2>1. Back \in SUBSET Nat /\ Back # {}
    BY <1>3
  <2>. HIDE DEF Back
  <2>. QED BY <2>1, LeastNatural
<1>5. c > i /\ c <= n /\ c \in Nat
  <2>1. c # i
    BY <1>2, <1>4
  <2>. QED BY <1>4, <2>1
<1>6. s[c] = ")" /\ Depth(s, c) = d
  <2>1. c - 1 \in Nat /\ (c - 1) + 1 = c /\ i <= c - 1 /\ c - 1 <= n
    BY <1>5
  <2>2. Level(s, c - 1) > d
    <3>1. c - 1 \notin Back
      BY <1>4, <1>5
    <3>. QED BY <1>1, <1>2, <2>1, <3>1, SMTT(30)
  <2>3. Level(s, (c - 1) + 1) = Level(s, c - 1)
          + (IF s[(c - 1) + 1] = "(" THEN 1 ELSE IF s[(c - 1) + 1] = ")" THEN -1 ELSE 0)
    BY <2>1, LevelStep
  <2>4. Level(s, c) <= d
    BY <1>4
  <2>5. Level(s, c) = d /\ s[c] = ")"
    <3>1. Level(s, c) \in Int /\ Level(s, c - 1) \in Int
      BY <1>1, <1>5, <2>1
    <3>2. Level(s, c) = Level(s, c - 1)
          + (IF s[c] = "(" THEN 1 ELSE IF s[c] = ")" THEN -1 ELSE 0)
      BY <2>1, <2>3
    <3>. QED BY <1>2, <2>2, <2>4, <3>1, <3>2
  <2>6. Depth(s, (c - 1) + 1) = Level(s, (c - 1) + 1)
    BY <2>1, <2>5, DepthIs
  <2>. QED BY <2>1, <2>5, <2>6
<1>7. c \in S /\ S \in SUBSET Nat
  BY <1>5, <1>6
<1>8. Min(S) \in S
  <2>. HIDE DEF S
  <2>. QED BY <1>7, MinOf
<1>9. AfterParenthesis(s, i) = 1 + Min(S)
  BY DEF AfterParenthesis, d
<1>10. Min(S) \in i + 1 .. n
  BY <1>8
<1>. HIDE DEF S
<1>. QED BY <1>9, <1>10

(* So a common table expression ends after where it starts, or nowhere.    *)
LEMMA CteEnds ==
  ASSUME NEW s \in Seq(Tokens), \A k \in 0 .. Len(s) : Level(s, k) >= 0, Level(s, Len(s)) = 0,
         NEW i \in 1 .. Len(s) + 1
  PROVE  AfterCte(s, i) \in {Nowhere} \cup (i + 2 .. Len(s) + 1)
<1>. DEFINE columns == At(s, i + 1) = "("
            word == IF columns THEN AfterParenthesis(s, i + 1) ELSE i + 1
<1>0. Len(s) \in Nat /\ DOMAIN s = 1 .. Len(s)
  OBVIOUS
<1>1. CASE i > Len(s)
  BY <1>1 DEF AfterCte
<1>2. CASE i <= Len(s)
  <2>1. ASSUME NEW k \in Nat, k >= 1, At(s, k) = "("
        PROVE  AfterParenthesis(s, k) \in k + 2 .. Len(s) + 1
    <3>1. k \in 1 .. Len(s) /\ s[k] = "("
      BY <1>0, <2>1 DEF At
    <3>. QED BY <1>0, <3>1, ParenthesisCloses
  <2>2. word \in Nat /\ word >= i + 1 /\ (columns => word \in i + 2 .. Len(s) + 1)
    <3>1. CASE columns
      <4>1. i + 1 \in Nat /\ i + 1 >= 1
        BY <1>0
      <4>2. AfterParenthesis(s, i + 1) \in i + 1 + 2 .. Len(s) + 1
        BY <3>1, <4>1, <2>1
      <4>. QED BY <1>0, <3>1, <4>2
    <3>2. CASE ~columns
      BY <1>0, <3>2
    <3>. QED BY <3>1, <3>2
  <2>3. At(s, word + 1) = "(" => AfterParenthesis(s, word + 1) \in i + 2 .. Len(s) + 1
    <3>0. word \in Nat /\ word >= i + 1 /\ i \in Nat
      BY <1>0, <2>2
    <3>. HIDE DEF word, columns
    <3>. SUFFICES ASSUME At(s, word + 1) = "("
                  PROVE  AfterParenthesis(s, word + 1) \in i + 2 .. Len(s) + 1
      OBVIOUS
    <3>1. word + 1 \in Nat /\ word + 1 >= 1
      BY <3>0
    <3>2. AfterParenthesis(s, word + 1) \in word + 1 + 2 .. Len(s) + 1
      BY <2>1, <3>1
    <3>3. \A p : p \in word + 1 + 2 .. Len(s) + 1 => p \in i + 2 .. Len(s) + 1
      BY <1>0, <3>0
    <3>. QED BY <3>2, <3>3
  <2>4. AfterCte(s, i) \in {Nowhere, word, AfterParenthesis(s, word + 1)}
        /\ (AfterCte(s, i) = word =>
             columns \/ AfterCte(s, i) \in {Nowhere, AfterParenthesis(s, word + 1)})
        /\ (AfterCte(s, i) = AfterParenthesis(s, word + 1) =>
              At(s, word + 1) = "(" \/ AfterCte(s, i) =
                Nowhere \/ (columns /\ AfterCte(s, i) = word))
    BY DEF AfterCte
  <2>. HIDE DEF word, columns
  <2>. QED BY <2>2, <2>3, <2>4
<1>. QED BY <1>0, <1>1, <1>2

(* The guard finds the end of an expression.                               *)
LEMMA CteAfter ==
  ASSUME NEW s \in Seq(Tokens), NEW x \in Nat, 1 <= x, NEW e \in 1 .. Len(s) + 1, CteAt(s, x, e)
  PROVE  AfterCte(s, x) = e
<1>0. Len(s) \in Nat /\ DOMAIN s = 1 .. Len(s)
  OBVIOUS
<1>1. CASE \E o \in x + 2 .. e - 2 : CteHead(s, x, o) /\ Matches(s, o, e - 1)
  <2>1. PICK o \in x + 2 .. e - 2 : CteHead(s, x, o) /\ Matches(s, o, e - 1)
    BY <1>1
  <2>2. o \in Nat /\ e - 1 \in 1 .. Len(s) /\ x \in 1 .. Len(s) /\ x + 1 \in 1 .. Len(s)
          /\ o \in 1 .. Len(s)
    BY <1>0
  <2>3. AfterParenthesis(s, o) = e
    <3>1. AfterParenthesis(s, o) = (e - 1) + 1
      BY <1>0, <2>1, <2>2, MatchesIsNext
    <3>. QED BY <1>0, <3>1
  <2>4. s[o] = "(" /\ s[x] # "XMLNAMESPACES" /\ (IsWord(s[x]) \/ s[x] = Quoted)
    BY <2>1 DEF CteHead
  <2>5. At(s, x) = s[x] /\ At(s, x + 1) = s[x + 1] /\ At(s, o) = s[o]
    BY <1>0, <2>2 DEF At
  <2>6. CASE s[x + 1] = "AS" /\ o = x + 2
    <3>1. x + 2 = (x + 1) + 1
      OBVIOUS
    <3>. QED BY <1>0, <2>2, <2>3, <2>4, <2>5, <2>6, <3>1 DEF AfterCte
  <2>7. CASE s[x + 1] = "(" /\ \E y \in x + 2 .. Len(s) - 2 : Matches(s, x + 1, y)
               /\ s[y + 1] = "AS" /\ o = y + 2
    <3>1. PICK y \in x + 2 .. Len(s) - 2 : Matches(s, x + 1, y) /\ s[y + 1] = "AS" /\ o = y + 2
      BY <2>7
    <3>2. y \in 1 .. Len(s) /\ y + 1 \in 1 .. Len(s) /\ x + 1 \in Nat
      BY <1>0
    <3>3. AfterParenthesis(s, x + 1) = y + 1
      BY <1>0, <3>1, <3>2, MatchesIsNext
    <3>4. At(s, y + 1) = "AS" /\ y + 2 = (y + 1) + 1
      BY <1>0, <3>1, <3>2 DEF At
    <3>. QED BY <1>0, <2>2, <2>3, <2>4, <2>5, <2>7, <3>1, <3>3, <3>4 DEF AfterCte
  <2>. QED BY <2>1, <2>6, <2>7 DEF CteHead
<1>2. CASE x + 2 < e /\ s[x] = "XMLNAMESPACES" /\ s[x + 1] = "(" /\ Matches(s, x + 1, e - 1)
  <2>1. x \in 1 .. Len(s) /\ x + 1 \in 1 .. Len(s) /\ x + 1 \in Nat /\ e - 1 \in 1 .. Len(s)
          /\ (e - 1) + 1 = e
    BY <1>0, <1>2
  <2>2. AfterParenthesis(s, x + 1) = (e - 1) + 1
    BY <1>0, <1>2, <2>1, MatchesIsNext
  <2>3. At(s, x) = "XMLNAMESPACES" /\ At(s, x + 1) = "("
    BY <1>0, <1>2, <2>1 DEF At
  <2>4. IsWord("XMLNAMESPACES")
    <3>1. "XMLNAMESPACES" # Comma /\ "XMLNAMESPACES" # Semicolon
      BY Zenon DEF Comma, Semicolon
    <3>. QED BY <3>1 DEF IsWord, Punct, String, Quoted
  <2>. QED BY <1>0, <2>1, <2>2, <2>3, <2>4 DEF AfterCte
<1>. QED BY <1>1, <1>2 DEF CteAt

(* after takes each position from the k-th to where the expressions that   *)
(* start there end, the way AfterCtes goes about it.                       *)
Follows(after, s, i) ==
  after[i] = LET end == AfterCte(s, i)
             IN IF end # Nowhere /\ At(s, end) = Comma THEN after[end + 1] ELSE end

(* The recursive function of AfterCtes exists on every text whose          *)
(* parentheses match: an expression ends after it starts, so its values    *)
(* are defined from the end of the text backwards.                         *)
LEMMA AfterExists ==
  ASSUME NEW s \in Seq(Tokens), \A k \in 0 .. Len(s) : Level(s, k) >= 0, Level(s, Len(s)) = 0
  PROVE  \E after \in [1 .. Len(s) + 1 -> Nat] : \A i \in 1 .. Len(s) + 1 : Follows(after, s, i)
<1>. DEFINE n == Len(s)
            end(i) == AfterCte(s, i)
            goes(i) == end(i) # Nowhere /\ At(s, end(i)) = Comma
            Onward(k) == \E after \in [k .. n + 1 -> Nat] : \A i \in k .. n + 1 : Follows(after, s, i)
            K == {m \in Nat : m <= n => Onward(n + 1 - m)}
<1>0. n \in Nat /\ DOMAIN s = 1 .. n
  OBVIOUS
<1>1. ASSUME NEW i \in 1 .. n + 1
      PROVE  end(i) \in Nat /\ (goes(i) => end(i) + 1 \in i + 1 .. n + 1)
  <2>1. end(i) \in {Nowhere} \cup (i + 2 .. n + 1)
    BY CteEnds
  <2>2. goes(i) => end(i) \in DOMAIN s
    <3>1. "undefined" # Comma
      BY Zenon DEF Comma
    <3>. QED BY <3>1 DEF At
  <2>. HIDE DEF end, goes
  <2>3. goes(i) => end(i) \in 1 .. n /\ end(i) \in i + 2 .. n + 1
    <3>1. 0 \notin 1 .. n
      OBVIOUS
    <3>. QED BY <1>0, <2>1, <2>2, <3>1 DEF Nowhere
  <2>4. end(i) \in Nat
    BY <2>1 DEF Nowhere
  <2>5. goes(i) => end(i) + 1 \in i + 1 .. n + 1
    BY <2>3
  <2>. QED BY <2>4, <2>5
<1>2. \A after, i : Follows(after, s, i) <=>
        after[i] = IF goes(i) THEN after[end(i) + 1] ELSE end(i)
  BY DEF Follows
<1>. HIDE DEF end, goes
<1>3. Onward(n + 1)
  <2>. DEFINE g == [i \in n + 1 .. n + 1 |-> end(n + 1)]
  <2>1. ~goes(n + 1) /\ end(n + 1) \in Nat
    <3>1. n + 1 \in 1 .. n + 1
      BY <1>0
    <3>2. end(n + 1) \in Nat /\ (goes(n + 1) => end(n + 1) + 1 \in n + 1 + 1 .. n + 1)
      BY <1>1, <3>1
    <3>. QED BY <1>0, <3>2
  <2>2. g \in [n + 1 .. n + 1 -> Nat]
    BY <2>1
  <2>3. \A i \in n + 1 .. n + 1 : Follows(g, s, i)
    <3>1. \A i \in n + 1 .. n + 1 : i = n + 1
      BY <1>0
    <3>. QED BY <1>2, <2>1, <3>1
  <2>. QED BY <2>2, <2>3
<1>4. ASSUME NEW k \in 1 .. n, Onward(k + 1) PROVE Onward(k)
  <2>1. PICK g \in [k + 1 .. n + 1 -> Nat] : \A i \in k + 1 .. n + 1 : Follows(g, s, i)
    BY <1>4
  <2>. DEFINE v == IF goes(k) THEN g[end(k) + 1] ELSE end(k)
              h == [i \in k .. n + 1 |-> IF i = k THEN v ELSE g[i]]
  <2>2. v \in Nat
    BY <1>0, <1>1
  <2>3. h \in [k .. n + 1 -> Nat]
    <3>1. \A i \in k .. n + 1 : i # k => i \in k + 1 .. n + 1
      BY <1>0
    <3>. HIDE DEF v
    <3>. QED BY <2>2, <3>1
  <2>4. \A i \in k + 1 .. n + 1 : h[i] = g[i]
    BY <1>0
  <2>5. h[k] = v
    BY <1>0
  <2>. HIDE DEF h
  <2>6. ASSUME NEW i \in k .. n + 1 PROVE Follows(h, s, i)
    <3>1. goes(i) => end(i) + 1 \in k + 1 .. n + 1
      BY <1>0, <1>1
    <3>2. goes(i) => h[end(i) + 1] = g[end(i) + 1]
      BY <2>4, <3>1
    <3>3. CASE i = k
      BY <1>2, <2>5, <3>2, <3>3
    <3>4. CASE i # k
      <4>1. i \in k + 1 .. n + 1
        BY <1>0, <3>4
      <4>. QED BY <1>2, <2>1, <2>4, <3>2, <4>1
    <3>. QED BY <3>3, <3>4
  <2>. QED BY <2>3, <2>6
<1>. HIDE DEF Onward
<1>5. 0 \in K
  BY <1>0, <1>3
<1>6. ASSUME NEW m \in Nat, m \in K PROVE m + 1 \in K
  <2>. SUFFICES ASSUME m + 1 <= n PROVE Onward(n + 1 - (m + 1))
    OBVIOUS
  <2>. DEFINE k == n - m
  <2>1. k \in 1 .. n /\ n + 1 - m = k + 1 /\ n + 1 - (m + 1) = k
    <3>1. n \in Nat
      BY <1>0
    <3>. HIDE DEF n
    <3>. QED BY <3>1
  <2>. HIDE DEF k
  <2>2. Onward(k + 1)
    BY <1>0, <1>6, <2>1
  <2>. QED BY <1>4, <2>1, <2>2
<1>7. Onward(1)
  <2>1. Nat \subseteq K
    <3>. HIDE DEF K
    <3>. QED BY <1>5, <1>6, Induction
  <2>2. n \in K /\ n + 1 - n = 1
    BY <1>0, <2>1
  <2>. QED BY <1>0, <2>2
<1>. QED BY <1>7 DEF Onward

(* AfterCtes is where such a function takes the second position.           *)
LEMMA AfterCtesFollows ==
  ASSUME NEW s \in Seq(Tokens), \A k \in 0 .. Len(s) : Level(s, k) >= 0, Level(s, Len(s)) = 0
  PROVE  \E after :
           /\ \A i \in 1 .. Len(s) + 1 : Follows(after, s, i)
           /\ AfterCtes(s) = after[2]
<1>. DEFINE D == 1 .. Len(s) + 1
            body(g) == [i \in D |-> LET end == AfterCte(s, i)
                                    IN IF end # Nowhere /\ At(s, end) =
                                      Comma THEN g[end + 1] ELSE end]
            after == CHOOSE g : g = body(g)
<1>1. \A g : g = body(g) => DOMAIN g = D /\ \A i \in D : Follows(g, s, i)
  BY DEF Follows
<1>2. PICK h \in [D -> Nat] : \A i \in D : Follows(h, s, i)
  BY AfterExists
<1>3. h = body(h)
  BY <1>2 DEF Follows
<1>4. after = body(after)
  <2>. HIDE DEF body
  <2>. QED BY <1>3
<1>5. AfterCtes(s) = after[2]
  BY DEF AfterCtes
<1>6. \A i \in D : Follows(after, s, i)
  <2>. HIDE DEF body, after
  <2>. QED BY <1>1, <1>4
<1>. HIDE DEF after
<1>. QED BY <1>5, <1>6

(* The statement after the expressions of a path.                          *)
LEMMA PathFollowed ==
  ASSUME NEW s \in Seq(Tokens), \A k \in 0 .. Len(s) : Level(s, k) >= 0, Level(s, Len(s)) = 0,
         NEW x \in 1 .. Len(s), PathTo(s, x), NEW e \in 1 .. Len(s), CteAt(s, x, e), s[e] # Comma
  PROVE  AfterCtes(s) = e
<1>0. Len(s) \in Nat /\ DOMAIN s = 1 .. Len(s)
  OBVIOUS
<1>1. PICK after : /\ \A i \in 1 .. Len(s) + 1 : Follows(after, s, i)
                   /\ AfterCtes(s) = after[2]
  BY AfterCtesFollows
<1>2. after[x] = e
  <2>1. AfterCte(s, x) = e
    BY <1>0, CteAfter
  <2>2. At(s, e) = s[e] /\ x \in 1 .. Len(s) + 1
    BY <1>0 DEF At
  <2>. QED BY <1>1, <2>1, <2>2 DEF Follows
<1>3. PICK P \in SUBSET (2 .. x) :
        /\ 2 \in P /\ x \in P
        /\ \A y \in P \ {x} : \E z \in P : y + 3 < z /\ CteAt(s, y, z - 1) /\ s[z - 1] = Comma
  BY DEF PathTo
<1>. DEFINE K == {m \in Nat : \A y \in P : x - y <= m => after[y] = after[x]}
<1>4. 0 \in K
  <2>1. \A y \in P : y \in Nat /\ y <= x
    BY <1>0, <1>3
  <2>2. \A y \in P : x - y <= 0 => y = x
    BY <1>0, <2>1
  <2>. QED BY <2>2
<1>5. ASSUME NEW m \in Nat, m \in K PROVE m + 1 \in K
  <2>. SUFFICES ASSUME NEW y \in P, x - y <= m + 1, y # x PROVE after[y] = after[x]
    OBVIOUS
  <2>1. PICK z \in P : y + 3 < z /\ CteAt(s, y, z - 1) /\ s[z - 1] = Comma
    BY <1>3
  <2>2. y \in 2 .. x /\ z \in 2 .. x
    BY <1>3
  <2>3. y \in Nat /\ 1 <= y /\ z - 1 \in 1 .. Len(s) /\ z - 1 # 0 /\ (z - 1) + 1 = z
          /\ y \in 1 .. Len(s) + 1
        /\ z - 1 \in 1 .. Len(s) + 1 /\ x - z <= m
    BY <1>0, <2>1, <2>2
  <2>4. AfterCte(s, y) = z - 1
    BY <2>1, <2>3, CteAfter
  <2>5. At(s, z - 1) = Comma
    BY <1>0, <2>1, <2>3 DEF At
  <2>6. after[y] = after[z]
    BY <1>1, <2>3, <2>4, <2>5 DEF Follows, Nowhere
  <2>7. after[z] = after[x]
    BY <1>5, <2>3
  <2>. QED BY <2>6, <2>7
<1>6. x - 2 \in K
  <2>1. Nat \subseteq K
    <3>. HIDE DEF K
    <3>. QED BY <1>4, <1>5, Induction
  <2>2. x - 2 \in Nat
    BY <1>0, <1>3
  <2>. QED BY <2>1, <2>2
<1>7. after[2] = after[x]
  BY <1>0, <1>3, <1>6
<1>. QED BY <1>1, <1>2, <1>7

(* The statement of a complete text.                                       *)
LEMMA MainFound ==
  ASSUME NEW s \in Seq(Tokens), \A k \in 0 .. Len(s) : Level(s, k) >= 0, Level(s, Len(s)) = 0,
         NEW f \in 1 .. Len(s), Main(s, f)
  PROVE  MainIndex(s) = f
<1>1. CASE s[1] # "WITH" /\ f = 1
  BY <1>1 DEF MainIndex
<1>2. CASE s[1] = "WITH" /\ \E x \in 2 .. f - 1 : PathTo(s, x) /\ CteAt(s, x, f)
  <2>1. PICK x \in 2 .. f - 1 : PathTo(s, x) /\ CteAt(s, x, f)
    BY <1>2
  <2>2. x \in 1 .. Len(s) /\ s[f] # Comma
    BY DEF Main
  <2>. QED BY <1>2, <2>1, <2>2, PathFollowed DEF MainIndex
<1>. QED BY <1>1, <1>2 DEF Main

-----------------------------------------------------------------------------
(***************************************************************************)
(* The clauses, and how many parentheses each opens and closes.            *)
(***************************************************************************)

(* A comma is none of the words.                                           *)
LEMMA Marks ==
  /\ Comma \notin {"GO", "(", ")", "SELECT", "INTO", "SET", "USE", "EXEC", "INSERT", "UPDATE",
       "DELETE",
                   "MERGE", "OUTPUT", "VALUES", "INSERT", "WITH", "XMLNAMESPACES", "THEN"}
  /\ Comma \notin {"UNION", "ALL", "EXCEPT", "INTERSECT", "a", "t", Quoted, String, "AS"}
BY Zenon DEF Comma, Quoted, String

(* A semicolon is none of the words.                                       *)
LEMMA Separators ==
  /\ Semicolon \notin {"(", ")", "SELECT", String, "AS", Quoted, "a", "t", "INTO", "FROM", "WHERE",
       "IN"}
  /\ Semicolon \notin {"UNION", "ALL", "OPTION", "MAXDOP", "USE", "HINT", "WITH", "XMLNAMESPACES"}
  /\ Semicolon \notin {"INSERT", "VALUES", "UPDATE", "SET", "DELETE", "MERGE", "USING", "ON",
       "WHEN"}
  /\ Semicolon \notin {"MATCHED", "THEN", "OUTPUT", "EXEC", "GO", Comma}
BY Zenon DEF Semicolon, Comma, Quoted, String

(* So no clause holds a separator.                                         *)
LEMMA WordsAreNotSeparators == Semicolon \notin Words /\ "GO" \notin Words
BY Separators, Marks DEF Words, String, Quoted

(* The hints are words.                                                    *)
LEMMA OptionTyped ==
  <<"OPTION", "(", "MAXDOP", "a", Comma, "USE", "HINT", "(", String, ")", ")">> \in Seq(Words)
BY DEF Words

(* A source is made of words.                                              *)
LEMMA FromTyped == <<"FROM", "t">> \in Seq(Words)
BY DEF Words

(* The same, from the position before.                                     *)
LEMMA LevelAt ==
  ASSUME NEW s, NEW i \in Nat, i > 0
  PROVE  Level(s, i) = Level(s, i - 1) + (IF s[i] = "(" THEN 1 ELSE IF s[i] = ")" THEN -1 ELSE 0)
<1>. DEFINE j == i - 1
<1>1. j \in Nat /\ i = j + 1
  OBVIOUS
<1>. HIDE DEF j
<1>2. Level(s, j + 1) = Level(s,
        j) + (IF s[j + 1] = "(" THEN 1 ELSE IF s[j + 1] = ")" THEN -1 ELSE 0)
  BY <1>1, LevelStep
<1>3. Level(s, i) = Level(s, j) + (IF s[i] = "(" THEN 1 ELSE IF s[i] = ")" THEN -1 ELSE 0)
  BY <1>1, <1>2
<1>. QED BY <1>3 DEF j

(* A clause opens d more parentheses than it closes, and falls low at most *)
(* below where it starts.                                                  *)
Shape(b, low, d) ==
  /\ \A k \in 0 .. Len(b) : Level(b, k) \in Int /\ low <= Level(b, k)
  /\ Level(b, Len(b)) = d

(* What stands when a clause b was written after s.                        *)
LEMMA Joined ==
  ASSUME NEW s \in Seq(Words), NEW b \in Seq(Words), NEW low \in Int, NEW d \in Int,
         Shape(b, low, d),
         \A k \in 0 .. Len(s) : Level(s, k) >= 0, Level(s, Len(s)) + low >= 0
  PROVE  /\ s \o b \in Seq(Words) /\ s \o b \in Seq(Tokens) /\ s \in Seq(Tokens)
              /\ Continues(s \o b, s)
         /\ Len(s \o b) = Len(s) + Len(b)
         /\ \A k \in 1 .. Len(s) : (s \o b)[k] = s[k]
         /\ \A k \in 1 .. Len(b) : (s \o b)[Len(s) + k] = b[k]
         /\ \A k \in 0 .. Len(s \o b) : Level(s \o b, k) >= 0
         /\ Level(s \o b, Len(s \o b)) = Level(s, Len(s)) + d
         /\ \A k \in 0 .. Len(b) : Level(s \o b, Len(s) + k) >= Level(s, Len(s)) + low
         /\ \A k \in 1 .. Len(b) : Depth(s \o b, Len(s) + k) = Level(s, Len(s)) + Depth(b, k)
<1>1. s \o b \in Seq(Words) /\ s \in Seq(Tokens) /\ b \in Seq(Tokens)
  BY DEF Tokens
<1>2. s \o b \in Seq(Tokens)
  BY <1>1
<1>3. Continues(s \o b, s)
  BY AppendedContinues
<1>4. /\ Len(s \o b) = Len(s) + Len(b) /\ Len(s) \in Nat /\ Len(b) \in Nat
      /\ \A k \in 1 .. Len(s) : (s \o b)[k] = s[k]
      /\ \A k \in 1 .. Len(b) : (s \o b)[Len(s) + k] = b[k]
  OBVIOUS
<1>5. /\ \A i \in 0 .. Len(s) : Level(s \o b, i) = Level(s, i)
      /\ \A k \in 0 .. Len(b) : Level(s \o b, Len(s) + k) = Level(s, Len(s)) + Level(b, k)
      /\ \A k \in 1 .. Len(b) : Depth(s \o b, Len(s) + k) = Level(s, Len(s)) + Depth(b, k)
  BY LevelAppended
<1>6. Level(s, Len(s)) \in Int
  BY <1>4, LevelIs
<1>. DEFINE t == s \o b
            n == Len(s)
            m == Len(b)
<1>. HIDE DEF t, n, m
<1>7. \A k \in 0 .. m : Level(t, n + k) >= Level(s, n) + low
  BY <1>5, <1>6 DEF Shape, t, n, m
<1>8. \A k \in 0 .. Len(t) : Level(t, k) >= 0
  <2>. SUFFICES ASSUME NEW k \in 0 .. Len(t) PROVE Level(t, k) >= 0
    OBVIOUS
  <2>1. CASE k <= n
    BY <1>4, <1>5, <2>1 DEF t, n, m
  <2>2. CASE k > n
    <3>1. k - n \in 0 .. m /\ n + (k - n) = k
      BY <1>4, <2>2 DEF t, n, m
    <3>2. Level(t, k) >= Level(s, n) + low
      BY <1>7, <3>1
    <3>3. Level(t, k) \in Int
      BY LevelIs, <1>4 DEF t
    <3>. QED BY <1>6, <3>2, <3>3 DEF n
  <2>. QED BY <1>4, <2>1, <2>2 DEF t, n
<1>9. Level(t, Len(t)) = Level(s, n) + d
  BY <1>4, <1>5 DEF t, n, m, Shape
<1>. QED BY <1>1, <1>2, <1>3, <1>4, <1>5, <1>7, <1>8, <1>9 DEF t, n, m

(* The first token of a clause stands at the level where it was written.   *)
LEMMA FirstDepth ==
  ASSUME NEW b, b[1] # ")"
  PROVE  Depth(b, 1) = 0
<1>1. 0 \in Nat /\ 0 + 1 = 1
  OBVIOUS
<1>2. b[0 + 1] # ")" => Depth(b, 0 + 1) = Level(b, 0)
  BY <1>1, DepthIs
<1>. QED BY <1>1, <1>2, LevelZero

(* The shapes of the clauses: most hold no parenthesis, some end with one  *)
(* that stays open, and the others close all of theirs.                    *)
LEMMA PlainShape ==
  ASSUME NEW b, Len(b) \in Nat, \A k \in 1 .. Len(b) : b[k] # "(" /\ b[k] # ")"
  PROVE  /\ Shape(b, 0, 0)
         /\ \A k \in 1 .. Len(b) : Depth(b, k) = 0
<1>1. ASSUME NEW k \in 0 .. Len(b) PROVE Level(b, k) = 0
  <2>1. k \in Nat /\ \A j \in 1 .. k : b[j] # "(" /\ b[j] # ")"
    OBVIOUS
  <2>2. Count(b, "(", k) = 0 /\ Count(b, ")", k) = 0
    BY <2>1, CountNone
  <2>. QED BY <2>1, <2>2, LevelIs
<1>2. ASSUME NEW k \in 1 .. Len(b) PROVE Depth(b, k) = 0
  <2>. DEFINE j == k - 1
  <2>1. j \in Nat /\ k = j + 1 /\ j \in 0 .. Len(b)
    OBVIOUS
  <2>. HIDE DEF j
  <2>2. b[j + 1] # ")" => Depth(b, j + 1) = Level(b, j)
    BY <2>1, DepthIs
  <2>. QED BY <1>1, <2>1, <2>2
<1>. QED BY <1>1, <1>2 DEF Shape

(* A clause that ends with an open parenthesis.                            *)
LEMMA NestShape ==
  ASSUME NEW b, Len(b) \in Nat, Len(b) > 0, b[Len(b)] = "(",
         \A k \in 1 .. Len(b) - 1 : b[k] # "(" /\ b[k] # ")"
  PROVE  Shape(b, 0, 1) /\ Depth(b, Len(b)) = 0
<1>. DEFINE m == Len(b) - 1
<1>0. m \in Nat /\ Len(b) = m + 1
  OBVIOUS
<1>1. ASSUME NEW k \in 0 .. m PROVE Level(b, k) = 0
  <2>1. k \in Nat /\ \A j \in 1 .. k : b[j] # "(" /\ b[j] # ")"
    BY <1>0
  <2>2. Count(b, "(", k) = 0 /\ Count(b, ")", k) = 0
    BY <2>1, CountNone
  <2>. QED BY <2>1, <2>2, LevelIs
<1>. HIDE DEF m
<1>2. Level(b, m + 1) = Level(b, m) + 1 /\ Level(b, m) = 0
  BY <1>0, <1>1, LevelStep
<1>3. Depth(b, m + 1) = Level(b, m)
  BY <1>0, DepthIs
<1>4. \A k \in 0 .. m + 1 : k \in 0 .. m \/ k = m + 1
  BY <1>0
<1>5. \A k \in 0 .. m + 1 : Level(b, k) \in Int /\ 0 <= Level(b, k)
  BY <1>1, <1>2, <1>4
<1>. QED BY <1>0, <1>2, <1>3, <1>5 DEF Shape

(* The hints close both of their parentheses.                              *)
LEMMA OptionShape ==
  ASSUME NEW b, b = <<"OPTION", "(", "MAXDOP", "a", Comma, "USE", "HINT", "(", String, ")", ")">>
  PROVE  Shape(b, 0, 0)
<1>1. /\ Len(b) = 11 /\ b[1] = "OPTION" /\ b[2] = "(" /\ b[3] = "MAXDOP" /\ b[4] = "a"
           /\ b[5] = Comma
      /\ b[6] = "USE" /\ b[7] = "HINT" /\ b[8] = "(" /\ b[9] = String /\ b[10] = ")" /\ b[11] = ")"
  OBVIOUS
<1>2. Level(b, 0) = 0
  BY LevelZero
<1>3. Level(b, 1) = 0 /\ Level(b, 2) = 1 /\ Level(b, 3) = 1 /\ Level(b, 4) = 1 /\ Level(b, 5) = 1
      /\ Level(b, 6) = 1 /\ Level(b, 7) = 1 /\ Level(b, 8) = 2 /\ Level(b, 9) = 2
           /\ Level(b, 10) = 1
      /\ Level(b, 11) = 0
  BY <1>1, <1>2, LevelAt, Marks DEF String
<1>. QED BY <1>1, <1>2, <1>3 DEF Shape

(* A closing parenthesis.                                                  *)
LEMMA CloseShape ==
  ASSUME NEW b, b = <<")">>
  PROVE  Shape(b, -1, -1)
<1>1. Len(b) = 1 /\ b[1] = ")"
  OBVIOUS
<1>2. Level(b, 0) = 0
  BY LevelZero
<1>3. Level(b, 1) = -1
  BY <1>1, <1>2, LevelAt
<1>. QED BY <1>1, <1>2, <1>3 DEF Shape

-----------------------------------------------------------------------------
(***************************************************************************)
(* What the rules of the guard say of a position does not change when more *)
(* is written.                                                             *)
(***************************************************************************)

(* What a position finds before it is what it found before more was        *)
(* written.                                                                *)
LEMMA AtContinues ==
  ASSUME NEW s \in Seq(Tokens), NEW t \in Seq(Tokens), Continues(t, s), NEW i \in Int, i <= Len(s)
  PROVE  At(t, i) = At(s, i)
<1>1. DOMAIN s = 1 .. Len(s) /\ DOMAIN t = 1 .. Len(t) /\ Len(s) \in Nat /\ Len(t) \in Nat
  OBVIOUS
<1>. QED BY <1>1 DEF At, Continues

(* A word outside parentheses is found where it was.                       *)
LEMMA TopLevelContinues ==
  ASSUME NEW s, NEW t, Continues(t, s), NEW R, R \subseteq 1 .. Len(s), NEW word
  PROVE  TopLevel(t, word, R) = TopLevel(s, word, R)
<1>1. \A i \in R : t[i] = s[i] /\ Depth(t, i) = Depth(s, i)
  BY DEF Continues
<1>2. \A i : i \in TopLevel(t, word, R) <=> i \in TopLevel(s, word, R)
  BY <1>1 DEF TopLevel
<1>. QED BY <1>2 DEF TopLevel

(* A rule says of a position what it said before more was written.         *)
LEMMA OkContinues ==
  ASSUME NEW s \in Seq(Tokens), NEW t \in Seq(Tokens), Continues(t, s),
         NEW f \in 1 .. Len(s), NEW i \in 1 .. Len(s)
  PROVE  /\ ReadOk(t, f, i) <=> ReadOk(s, f, i)
         /\ WriteOk(t, f, i) <=> WriteOk(s, f, i)
<1>0. Len(s) \in Nat /\ i - 1 \in Int /\ i - 1 <= Len(s) /\ (i > f => i - 1 \in 1 .. Len(s))
  OBVIOUS
<1>1. /\ At(t, i - 1) = At(s, i - 1) /\ t[i] = s[i] /\ t[f] = s[f] /\ Depth(t, i) = Depth(s, i)
      /\ i > f => t[i - 1] = s[i - 1]
  BY <1>0, AtContinues DEF Continues
<1>2. \A mode : NotForbidden(t, i, mode) <=> NotForbidden(s, i, mode)
  BY <1>1 DEF NotForbidden, IsQueryHintUse
<1>3. Top(t, i) <=> Top(s, i)
  BY <1>1 DEF Top
<1>4. \A word : TopLevel(t, word, f + 1 .. i - 1) = TopLevel(s, word, f + 1 .. i - 1)
  <2>1. f + 1 .. i - 1 \subseteq 1 .. Len(s)
    BY <1>0
  <2>. QED BY <2>1, TopLevelContinues
<1>5. \A word : \A j \in f + 1 .. i - 1 :
        TopLevel(t, word, j .. i - 1) = TopLevel(s, word, j .. i - 1)
  <2>1. \A j \in f + 1 .. i - 1 : j .. i - 1 \subseteq 1 .. Len(s)
    BY <1>0
  <2>. QED BY <2>1, TopLevelContinues
<1>6. \A j : j \in TopLevel(s, "OUTPUT", f + 1 .. i - 1) => j \in f + 1 .. i - 1
  BY DEF TopLevel
<1>7. OutputOpen(t, f, i) <=> OutputOpen(s, f, i)
  BY <1>4, <1>5, <1>6 DEF OutputOpen
<1>8. IntoAllowed(t, f, i) <=> IntoAllowed(s, f, i)
  BY <1>1, <1>7 DEF IntoAllowed
<1>9. i > f => /\ WriteAllowed(t, f, i) <=> WriteAllowed(s, f, i)
               /\ SetAllowed(t, f, i) <=> SetAllowed(s, f, i)
               /\ SelectAllowed(t, f, i) <=> SelectAllowed(s, f, i)
               /\ AfterSetOperator(t, i) <=> AfterSetOperator(s, i)
  BY <1>1, <1>4 DEF WriteAllowed, SetAllowed, SelectAllowed, AfterSetOperator
<1>. QED BY <1>1, <1>2, <1>3, <1>8, <1>9 DEF ReadOk, WriteOk

(* A longer text passes when the shorter did and the new positions do.     *)
LEMMA PassesContinue ==
  ASSUME NEW s \in Seq(Tokens), NEW t \in Seq(Tokens), Continues(t, s), NEW f \in 1 .. Len(s)
  PROVE  /\ ReadPasses(t, f) <=> ReadPasses(s, f) /\ \A i \in Len(s) + 1 .. Len(t) : ReadOk(t, f, i)
         /\ WritePasses(t, f) <=> WritePasses(s, f)
              /\ \A i \in Len(s) + 1 .. Len(t) : WriteOk(t, f, i)
<1>1. Len(s) \in Nat /\ Len(t) \in Nat /\ Len(s) <= Len(t)
  BY DEF Continues
<1>2. \A i : i \in 1 .. Len(t) <=> i \in 1 .. Len(s) \/ i \in Len(s) + 1 .. Len(t)
  BY <1>1
<1>3. \A i \in 1 .. Len(s) : (ReadOk(t, f, i) <=> ReadOk(s, f, i))
        /\ (WriteOk(t, f, i) <=> WriteOk(s, f, i))
  BY OkContinues
<1>. QED BY <1>2, <1>3 DEF ReadPasses, WritePasses

(* Words that are in no rule pass in both modes.                           *)
Ruled == {"EXEC", "USE", "INSERT", "UPDATE", "DELETE", "MERGE", "INTO", "SET", "SELECT"}

(* Words without a rule of their own pass.                                 *)
LEMMA OthersPass ==
  ASSUME NEW s, NEW f, NEW i, s[i] \notin Ruled
  PROVE  /\ ReadOk(s, f, i) /\ WriteOk(s, f, i)
         /\ NotForbidden(s, i, "read") /\ NotForbidden(s, i, "write")
BY DEF Ruled, ReadOk, WriteOk, NotForbidden, Forbidden, NonDmlKeywords, WriteKeywords

(* The stages after more was written.                                      *)
LEMMA StageOn ==
  ASSUME NEW s, NEW t, Continues(t, s), NEW f \in 1 .. Len(s), Stage(s, f),
         statements' = statements, enclosed => enclosed',
         s[f] = "INSERT" /\ changes' = 1 => changes = 1,
         at' \in Inserting => at \in Inserting
           /\ \A i \in Len(s) + 1 .. Len(t) : t[i] \notin {"SELECT", "VALUES"},
         at \in Inserting /\ at' \notin Inserting /\ changes' = 1 /\ ~enclosed' =>
           \E i \in Len(s) + 1 .. Len(t) : Top(t, i) /\ t[i] \in {"SELECT", "VALUES"},
         at' \in Merging => at \in Merging,
         at' = "selected" /\ open' = <<>> =>
           \/ \E i \in Len(s) + 1 .. Len(t) : t[i] = "SELECT" /\ Top(t, i)
                /\ \A j \in i + 1 .. Len(t) : t[j] # "OUTPUT"
           \/ at = "selected" /\ open = <<>> /\ \A j \in Len(s) + 1 .. Len(t) : t[j] # "OUTPUT"
  PROVE  Stage(t, f)'
<1>0. Len(s) \in Nat /\ Len(t) \in Nat /\ Len(s) <= Len(t)
  BY DEF Continues
<1>1. \A i \in 1 .. Len(s) : t[i] = s[i] /\ (Top(t, i) <=> Top(s, i)) /\ i \in 1 .. Len(t)
  BY <1>0 DEF Continues, Top
<1>2. \A i \in f + 1 .. Len(t) : i \in f + 1 .. Len(s) \/ i \in Len(s) + 1 .. Len(t)
  BY <1>0
<1>3. \A i : i \in f + 1 .. Len(s) \/ i \in f .. Len(s) => i \in 1 .. Len(s)
  BY <1>0
<1>4. \A i \in Len(s) + 1 .. Len(t) : i \in f + 1 .. Len(t) /\ i \in f .. Len(t)
  BY <1>0
<1>10. (Single' <=> Single) /\ (Doubled' <=> Doubled)
  BY DEF Single, Doubled, First
<1>5. Single /\ at' \in Inserting =>
        /\ t[f] = "INSERT"
        /\ \A i \in f + 1 .. Len(t) : Top(t, i) => t[i] \notin {"SELECT", "VALUES"}
  <2>. SUFFICES ASSUME Single, at' \in Inserting
                PROVE  /\ t[f] = "INSERT"
                       /\ \A i \in f + 1 .. Len(t) : Top(t, i) => t[i] \notin {"SELECT", "VALUES"}
    OBVIOUS
  <2>1. at \in Inserting /\ \A i \in Len(s) + 1 .. Len(t) : t[i] \notin {"SELECT", "VALUES"}
    OBVIOUS
  <2>2. s[f] = "INSERT" /\ \A i \in f + 1 .. Len(s) : Top(s, i) => s[i] \notin {"SELECT", "VALUES"}
    BY <2>1 DEF Stage
  <2>. QED BY <1>1, <1>2, <1>3, <2>1, <2>2
<1>6. \/ Single /\ t[f] = "INSERT" /\ at' \notin Inserting /\ changes' = 1 /\ ~enclosed'
      \/ Doubled
      => \E i \in f + 1 .. Len(t) : Top(t, i) /\ t[i] \in {"SELECT", "VALUES"}
  <2>1. CASE Single /\ t[f] = "INSERT" /\ at' \notin Inserting /\ changes' = 1 /\ ~enclosed'
               /\ at \in Inserting
    BY <2>1, <1>4
  <2>2. CASE \/ Single /\ t[f] = "INSERT" /\ at' \notin Inserting /\ changes' = 1 /\ ~enclosed'
                  /\ at \notin Inserting
             \/ Doubled
    <3>1. \/ Single /\ s[f] = "INSERT" /\ at \notin Inserting /\ changes = 1 /\ ~enclosed
          \/ Doubled
      BY <1>1, <2>2
    <3>2. PICK i \in f + 1 .. Len(s) : Top(s, i) /\ s[i] \in {"SELECT", "VALUES"}
      BY <3>1 DEF Stage
    <3>3. i \in f + 1 .. Len(t)
      BY <1>0
    <3>. QED BY <1>1, <1>3, <3>2, <3>3
  <2>. QED BY <2>1, <2>2
<1>7. Single /\ at' \in Merging => t[f] = "MERGE"
  BY <1>1 DEF Stage
<1>8. t[f] = "UPDATE" => f + 2 <= Len(t) /\ t[f + 1] = "t" /\ t[f + 2] = "SET" /\ Top(t, f + 2)
  <2>1. s[f] = "UPDATE" => f + 1 \in 1 .. Len(s) /\ f + 2 \in 1 .. Len(s)
    BY <1>0 DEF Stage
  <2>. QED BY <1>0, <1>1, <2>1 DEF Stage
<1>9. at' = "selected" /\ open' = <<>> =>
        \E i \in f .. Len(t) : t[i] = "SELECT" /\ Top(t, i)
          /\ \A j \in i + 1 .. Len(t) : t[j] # "OUTPUT"
  <2>. SUFFICES ASSUME at' = "selected", open' = <<>>, at = "selected", open = <<>>,
                       \A j \in Len(s) + 1 .. Len(t) : t[j] # "OUTPUT"
                PROVE  \E i \in f .. Len(t) : t[i] = "SELECT" /\ Top(t, i)
                         /\ \A j \in i + 1 .. Len(t) : t[j] # "OUTPUT"
    BY <1>4
  <2>1. PICK i \in f .. Len(s) : s[i] = "SELECT" /\ Top(s, i)
          /\ \A j \in i + 1 .. Len(s) : s[j] # "OUTPUT"
    BY DEF Stage
  <2>2. i \in f .. Len(t) /\ \A j \in i + 1 .. Len(t) :
          j \in i + 1 .. Len(s) \/ j \in Len(s) + 1 .. Len(t)
    BY <1>0
  <2>3. \A j \in i + 1 .. Len(s) : j \in 1 .. Len(s)
    BY <1>0
  <2>. QED BY <1>1, <1>3, <2>1, <2>2, <2>3
<1>. QED BY <1>10, <1>5, <1>6, <1>7, <1>8, <1>9 DEF Stage, Inserting, Merging

(* The first statement after more was written.                             *)
LEMMA JudgedOn ==
  ASSUME NEW s \in Seq(Tokens), NEW t \in Seq(Tokens), Continues(t, s), NEW f \in 1 .. Len(s),
         Typed, Typed', Counted, Judged(s, f), 1 <= Len(statements),
         Len(statements) <= Len(statements'), First' = First, changes <= changes',
         nested <= nested',
         Single /\ changes = 0 /\ nested = 0 =>
           (Single' /\ changes' = 0 /\ nested' = 0 <=> \A i \in Len(s) + 1 .. Len(t) : ReadOk(t, f, i)),
         First \in Writing /\ Single' /\ changes' = 1 =>
           \A i \in Len(s) + 1 .. Len(t) : WriteOk(t, f, i),
         First \in Writing /\ Passing =>
           Passing' \/ \E i \in Len(s) + 1 .. Len(t) : ~WriteOk(t, f, i),
         Sole' => Stage(t, f)'
  PROVE  f \in 1 .. Len(t) /\ Judged(t, f)'
<1>0. /\ Len(statements) \in Nat /\ Len(statements') \in Nat /\ changes \in Nat /\ changes' \in Nat
      /\ nested \in Nat /\ nested' \in Nat /\ Len(statements) >= 1
  BY DEF Typed
<1>1. /\ f \in 1 .. Len(t) /\ t[f] = s[f]
      /\ Main(t, f)
  <2>1. Main(t, f)
    BY MainContinues DEF Judged
  <2>2. f \in 1 .. Len(t) /\ t[f] = s[f]
    BY DEF Continues
  <2>. QED BY <2>1, <2>2
<1>2. Single' => Single
  <2>. SUFFICES ASSUME Single' PROVE Single
    OBVIOUS
  <2>1. Len(statements') = 1
    BY DEF Single
  <2>2. Len(statements) = 1
    <3>. DEFINE a == Len(statements)
                b == Len(statements')
    <3>1. a \in Nat /\ b \in Nat /\ 1 <= a /\ a <= b /\ b = 1
      BY <1>0, <2>1
    <3>. HIDE DEF a, b
    <3>2. a = 1
      BY <3>1
    <3>. QED BY <3>2 DEF a
  <2>. QED BY <2>2 DEF Single
<1>3. Single' /\ changes' = 0 /\ nested' = 0 <=> ReadPasses(t, f)
  <2>1. Single /\ changes = 0 /\ nested = 0 <=> ReadPasses(s, f)
    BY DEF Judged
  <2>2. (changes' = 0 => changes = 0) /\ (nested' = 0 => nested = 0)
    BY <1>0
  <2>. QED BY <1>2, <2>1, <2>2, PassesContinue
<1>4. First \in Writing =>
        (Single' /\ changes' = 1 => WritePasses(t, f)) /\ (WritePasses(t, f) => Passing')
  <2>. SUFFICES ASSUME First \in Writing
                PROVE  (Single' /\ changes' = 1 => WritePasses(t, f))
                         /\ (WritePasses(t, f) => Passing')
    OBVIOUS
  <2>1. (Single /\ changes = 1 => WritePasses(s, f)) /\ (WritePasses(s, f) => Passing)
    BY DEF Judged
  <2>2. changes >= 1
    <3>1. statements # <<>> /\ First # Reading
      BY <1>0 DEF Typed, Writing, WriteKeywords, Reading
    <3>. QED BY <3>1 DEF Counted
  <2>3. changes' = 1 => changes = 1
    BY <1>0, <2>2
  <2>. QED BY <1>2, <2>1, <2>3, PassesContinue
<1>5. s[f] \in Starts(First)
  BY DEF Judged
<1>6. /\ t[f] \in Starts(First)'
      /\ (First \in Writing =>
            (Single /\ changes = 1 => WritePasses(t, f)) /\ (WritePasses(t, f) => Passing))'
  BY <1>1, <1>4, <1>5
<1>. QED BY <1>1, <1>3, <1>6 DEF Judged

-----------------------------------------------------------------------------
(***************************************************************************)
(* How the invariant is kept when a clause is written.                     *)
(***************************************************************************)

(* What Written says of types and levels.                                  *)
LEMMA TypedWritten ==
  ASSUME NEW s, Written(s)
  PROVE  /\ s \in Seq(Words) /\ s \in Seq(Tokens) /\ Len(s) \in Nat /\ DOMAIN s = 1 .. Len(s)
         /\ Len(open) = Level(s, Len(s)) /\ \A i \in 0 .. Len(s) : Level(s, i) >= 0
<1>1. s \in Seq(Words)
  BY DEF Written
<1>2. s \in Seq(Tokens)
  BY <1>1 DEF Tokens
<1>3. Len(s) \in Nat /\ DOMAIN s = 1 .. Len(s)
  BY <1>1
<1>. QED BY <1>1, <1>2, <1>3 DEF Written

(* Texts are put together in any order.                                    *)
LEMMA Regroup ==
  \A a, b, c \in Seq(Tokens) : (a \o b) \o c = a \o (b \o c)
<1>. DEFINE S == Seq(Tokens)
<1>1. ASSUME NEW a \in S, NEW b \in S, NEW c \in S PROVE (a \o b) \o c = a \o (b \o c)
  BY <1>1, ConcatAssociative
<1>. QED BY <1>1

(* The text goes on with a clause.                                         *)
LEMMA Extend ==
  ASSUME NEW s, NEW lead, Bodied(s, lead, <<>>), NEW b \in Seq(Words), Len(b) >= 1,
         text' = text \o b, at' # "start",
         IF at' = "query" THEN b[Len(b)] \in SetOperators \/ (open' # <<>> /\ b[Len(b)] = "(")
                          ELSE b[Len(b)] \in EndTokens,
         Written(s \o b)'
  PROVE  Bodied(s \o b, lead, <<>>)'
<1>1. s \in Seq(Words) /\ lead \in {<<>>, <<Semicolon>>} /\ text = lead \o s \o <<>>
  BY DEF Bodied, Written
<1>2. lead \in Seq(Tokens) /\ s \in Seq(Tokens) /\ b \in Seq(Tokens)
  <2>1. <<Semicolon>> \in Seq(Tokens) /\ <<>> \in Seq(Tokens)
    BY DEF Tokens
  <2>2. s \in Seq(Tokens) /\ b \in Seq(Tokens)
    BY <1>1 DEF Tokens
  <2>. QED BY <1>1, <2>1, <2>2
<1>3. text' = lead \o (s \o b) \o <<>>
  <2>1. lead \o s \in Seq(Tokens) /\ s \o b \in Seq(Tokens)
    BY <1>2
  <2>2. (lead \o s) \o <<>> = lead \o s /\ (lead \o (s \o b)) \o <<>> = lead \o (s \o b)
    BY <1>2, <2>1, ConcatEmptySeq, ConcatProperties
  <2>3. (lead \o s) \o b = lead \o (s \o b)
    BY <1>2, Regroup
  <2>. QED BY <1>1, <2>2, <2>3
<1>4. Len(s \o b) = Len(s) + Len(b) /\ (s \o b)[Len(s) + Len(b)] = b[Len(b)] /\ Len(s) + Len(b) >= 1
  BY <1>1
<1>5. Last(s \o b) = b[Len(b)] /\ s \o b # <<>>
  BY <1>1, <1>4 DEF Last
<1>6. Ends(s \o b)'
  BY <1>5 DEF Ends
<1>. QED BY <1>1, <1>3, <1>5, <1>6 DEF Bodied

(* A clause that belongs to what is being written: no statement begins and *)
(* nothing else is changed by it.                                          *)
LEMMA ClauseWritten ==
  ASSUME Typed, Typed', Counted, NEW s, Written(s), Len(s) >= 1,
         NEW b \in Seq(Words), Len(b) >= 1, NEW low \in Int, NEW d \in Int, Shape(b, low, d),
         Len(open) + low >= 0, Len(open') = Len(open) + d,
         statements' = statements, changes' = changes, nested' = nested, enclosed => enclosed',
         statements = <<>> => Prefix(s \o b)',
         statements = <<>> => \A i \in Len(s) + 1 .. Len(s \o b) : NotForbidden(s \o b, i, "read"),
         ASSUME NEW f \in 1 .. Len(s), Judged(s, f), statements # <<>>
         PROVE  /\ Single /\ changes = 0 /\ nested = 0 =>
                     \A i \in Len(s) + 1 .. Len(s \o b) : ReadOk(s \o b, f, i)
                /\ First \in Writing /\ Single /\ changes = 1 =>
                     \A i \in Len(s) + 1 .. Len(s \o b) : WriteOk(s \o b, f, i)
                /\ Sole => Stage(s \o b, f)'
  PROVE  Written(s \o b)'
<1>. DEFINE t == s \o b
<1>1. /\ s \in Seq(Words) /\ s \in Seq(Tokens) /\ Len(s) \in Nat /\ Level(s, Len(s)) = Len(open)
      /\ \A k \in 0 .. Len(s) : Level(s, k) >= 0
  BY TypedWritten
<1>2. /\ t \in Seq(Words) /\ t \in Seq(Tokens) /\ Continues(t, s) /\ Len(t) = Len(s) + Len(b)
      /\ \A k \in 0 .. Len(t) : Level(t, k) >= 0
      /\ Level(t, Len(t)) = Len(open')
  <2>1. Level(s, Len(s)) + low >= 0 /\ s \in Seq(Words) /\ \A k \in 0 .. Len(s) : Level(s, k) >= 0
    BY <1>1
  <2>2. /\ s \o b \in Seq(Words) /\ s \o b \in Seq(Tokens)
        /\ Continues(s \o b, s) /\ Len(s \o b) = Len(s) + Len(b)
    BY <2>1, Joined
  <2>3. /\ \A k \in 0 .. Len(s \o b) : Level(s \o b, k) >= 0
        /\ Level(s \o b, Len(s \o b)) = Level(s, Len(s)) + d
    BY <2>1, Joined
  <2>. QED BY <1>1, <2>2, <2>3
<1>. HIDE DEF t
<1>3. t # <<>>
  <2>1. Len(t) # 0
    BY <1>1, <1>2
  <2>. QED BY <2>1
<1>4. statements = <<>> => changes = 0 /\ nested = 0 /\ \A i \in 1 .. Len(t) : NotForbidden(t, i, "read")
  <2>. SUFFICES ASSUME statements = <<>>
                PROVE  changes = 0 /\ nested = 0 /\ \A i \in 1 .. Len(t) : NotForbidden(t, i, "read")
    OBVIOUS
  <2>1. s # <<>>
    BY <1>1
  <2>2. changes = 0 /\ nested = 0 /\ \A i \in 1 .. Len(s) : NotForbidden(s, i, "read")
    BY <2>1 DEF Written
  <2>3. ASSUME NEW i \in 1 .. Len(s) PROVE NotForbidden(t, i, "read")
    <3>1. At(t, i - 1) = At(s, i - 1)
      BY <1>1, <1>2, AtContinues
    <3>2. t[i] = s[i]
      BY <1>2 DEF Continues
    <3>. QED BY <2>2, <3>1, <3>2 DEF NotForbidden, IsQueryHintUse
  <2>4. \A i \in 1 .. Len(t) : i \in 1 .. Len(s) \/ i \in Len(s) + 1 .. Len(t)
    BY <1>1, <1>2
  <2>. QED BY <2>2, <2>3, <2>4 DEF t
<1>5. statements # <<>> => \E f \in 1 .. Len(t) : Judged(t, f)'
  <2>. SUFFICES ASSUME statements # <<>> PROVE \E f \in 1 .. Len(t) : Judged(t, f)'
    OBVIOUS
  <2>1. PICK f \in 1 .. Len(s) : Judged(s, f)
    BY DEF Written
  <2>2. /\ Single /\ changes = 0 /\ nested = 0 => \A i \in Len(s) + 1 .. Len(t) : ReadOk(t, f, i)
        /\ First \in Writing /\ Single /\ changes = 1 =>
                     \A i \in Len(s) + 1 .. Len(t) : WriteOk(t, f, i)
        /\ Sole => Stage(t, f)'
    BY <2>1 DEF t
  <2>3. 1 <= Len(statements) /\ Len(statements) <= Len(statements') /\ changes <= changes'
          /\ nested <= nested'
    BY DEF Typed
  <2>4. First' = First /\ (Single' <=> Single) /\ (Sole' <=> Sole) /\ (Passing => Passing')
    BY DEF First, Single, Doubled, Sole, Passing
  <2>5. /\ Single /\ changes = 0 /\ nested = 0 =>
             (Single' /\ changes' = 0 /\ nested' = 0 <=> \A i \in Len(s) + 1 .. Len(t) : ReadOk(t, f, i))
        /\ First \in Writing /\ Single' /\ changes' = 1 =>
             \A i \in Len(s) + 1 .. Len(t) : WriteOk(t, f, i)
        /\ Sole' => Stage(t, f)'
    BY <2>2, <2>4
  <2>6. f \in 1 .. Len(t) /\ Judged(t, f)'
    BY <1>1, <1>2, <2>1, <2>3, <2>4, <2>5, JudgedOn
  <2>. QED BY <2>6
<1>6. statements = <<>> => Prefix(t)'
  BY DEF t
<1>7. Written(t)'
  BY <1>2, <1>3, <1>4, <1>5, <1>6 DEF Written
<1>. QED BY <1>7 DEF t

(* A clause without any word that is in a rule.                            *)
LEMMA HarmlessKeeps ==
  ASSUME Typed, Typed', Counted, NEW s, NEW lead, Bodied(s, lead, <<>>), Len(s) >= 1,
         NEW b \in Seq(Words), Len(b) >= 1, NEW low \in Int, NEW d \in Int, Shape(b, low, d),
         Len(open) + low >= 0, Len(open') = Len(open) + d,
         text' = text \o b, statements' = statements, changes' = changes, nested' = nested,
         enclosed => enclosed', at \in Inserting => enclosed', at' \notin Inserting \cup Merging \cup {"selected", "start"},
         \A k \in 1 .. Len(b) : b[k] \notin Ruled,
         IF at' = "query" THEN b[Len(b)] \in SetOperators \/ (open' # <<>> /\ b[Len(b)] = "(")
                          ELSE b[Len(b)] \in EndTokens,
         statements = <<>> => Prefix(s \o b)'
  PROVE  Bodied(s \o b, lead, <<>>)'
<1>. DEFINE t == s \o b
<1>1. Written(s)
  BY DEF Bodied
<1>2. /\ s \in Seq(Words) /\ Len(s) \in Nat /\ Level(s, Len(s)) = Len(open)
      /\ \A k \in 0 .. Len(s) : Level(s, k) >= 0
  BY <1>1, TypedWritten
<1>. HIDE DEF t
<1>3. /\ Continues(t, s) /\ Len(t) = Len(s) + Len(b)
      /\ \A k \in 1 .. Len(b) : t[Len(s) + k] = b[k]
  <2>1. Level(s, Len(s)) + low >= 0
    BY <1>2
  <2>2. \A k \in 0 .. Len(s) : Level(s, k) >= 0
    BY <1>2
  <2>3. s \in Seq(Words)
    BY <1>2
  <2>4. Continues(s \o b, s)
    BY <2>1, <2>2, <2>3, Joined
  <2>5. Len(s \o b) = Len(s) + Len(b)
    BY <2>1, <2>2, <2>3, Joined
  <2>6. \A k \in 1 .. Len(b) : (s \o b)[Len(s) + k] = b[k]
    BY <2>1, <2>2, <2>3, Joined
  <2>. QED BY <2>4, <2>5, <2>6 DEF t
<1>. HIDE DEF t
<1>4. \A i \in Len(s) + 1 .. Len(t) : t[i] \notin Ruled
  <2>. SUFFICES ASSUME NEW i \in Len(s) + 1 .. Len(t) PROVE t[i] \notin Ruled
    OBVIOUS
  <2>. DEFINE k == i - Len(s)
  <2>1. k \in 1 .. Len(b) /\ i = Len(s) + k
    BY <1>2, <1>3
  <2>. HIDE DEF k
  <2>. QED BY <1>3, <2>1
<1>5. \A f : \A i \in Len(s) + 1 .. Len(t) : ReadOk(t, f, i) /\ WriteOk(t, f, i)
        /\ NotForbidden(t, i, "read")
  BY <1>4, OthersPass
<1>6. ASSUME NEW f \in 1 .. Len(s), Judged(s, f), Sole PROVE Stage(t, f)'
  <2>1. Stage(s, f)
    BY <1>6 DEF Judged
  <2>. QED BY <1>3, <2>1, StageOn
<1>7. Written(t)'
  BY <1>1, <1>5, <1>6, ClauseWritten DEF t
<1>. QED BY <1>7, Extend DEF t

(* Before the first statement, inside the parentheses of an expression.    *)
LEMMA PrefixInside ==
  ASSUME NEW s, Written(s), Len(s) >= 1, statements = <<>>, open # <<>>, open' # <<>>,
         open'[1] = open[1],
         NEW b \in Seq(Words), NEW low \in Int, NEW d \in Int, Shape(b, low, d),
         Len(open) + low >= 1
  PROVE  Prefix(s \o b)'
<1>. DEFINE t == s \o b
            n == Len(s)
<1>1. /\ s \in Seq(Words) /\ n \in Nat /\ Level(s, n) = Len(open)
      /\ \A k \in 0 .. n : Level(s, k) >= 0
  BY TypedWritten
<1>2. Level(s, n) + low >= 0
  BY <1>1
<1>3. /\ Continues(t, s) /\ Len(t) = n + Len(b)
      /\ \A k \in 0 .. Len(b) : Level(t, n + k) >= Level(s, n) + low
  BY <1>1, <1>2, Joined
<1>. HIDE DEF t
<1>4. Prefix(s)
  <2>1. s # <<>>
    BY <1>1
  <2>. QED BY <2>1 DEF Written
<1>5. PICK x \in 2 .. n : PathTo(s, x) /\ open[1] = "defined" /\
         \E o \in x + 2 .. n : /\ CteHead(s, x, o) /\ Depth(s, o) = 0
                               /\ \A k \in o .. n : Level(s, k) >= 1
  BY <1>4 DEF Prefix
<1>6. PICK o \in x + 2 .. n : /\ CteHead(s, x, o) /\ Depth(s, o) = 0
                              /\ \A k \in o .. n : Level(s, k) >= 1
  BY <1>5
<1>7. PathTo(t, x)
  BY <1>1, <1>3, <1>5, PathContinues
<1>8. CteHead(t, x, o)
  BY <1>1, <1>3, <1>6, CteHeadContinues
<1>9. t[1] = "WITH" /\ Depth(t, o) = 0
  <2>1. s[1] = "WITH" /\ 1 \in 1 .. n /\ o \in 1 .. n
    BY <1>1, <1>4 DEF Prefix
  <2>. QED BY <1>3, <1>6, <2>1 DEF Continues
<1>10. ASSUME NEW k \in o .. Len(t) PROVE Level(t, k) >= 1
  <2>1. CASE k <= n
    BY <1>1, <1>3, <1>6, <2>1, SMTT(30) DEF Continues
  <2>2. CASE k > n
    <3>. DEFINE j == k - n
    <3>1. j \in 0 .. Len(b) /\ k = n + j
      BY <1>1, <1>3, <2>2
    <3>. HIDE DEF j
    <3>2. Level(t, n + j) >= Level(s, n) + low
      BY <1>3, <3>1
    <3>3. Level(t, k) \in Int /\ Level(s, n) \in Int
      BY <1>1, <1>3, <3>1, LevelIs
    <3>. QED BY <1>1, <3>1, <3>2, <3>3
  <2>. QED BY <1>1, <2>1, <2>2
<1>11. x \in 2 .. Len(t) /\ o \in x + 2 .. Len(t)
  BY <1>1, <1>3
<1>12. Prefix(t)'
  BY <1>5, <1>7, <1>8, <1>9, <1>10, <1>11 DEF Prefix
<1>. QED BY <1>12 DEF t

(* The last parenthesis of an expression is closed.                        *)
LEMMA PrefixClosed ==
  ASSUME NEW s, Written(s), Len(s) >= 1, statements = <<>>, open # <<>>, Len(open) = 1,
         open' = <<>>,
         at' = open[1]
  PROVE  Prefix(s \o <<")">>)'
<1>. DEFINE b == <<")">>
            t == s \o b
            n == Len(s)
<1>0. b \in Seq(Words) /\ Len(b) = 1 /\ b[1] = ")"
  BY DEF Words
<1>1. /\ s \in Seq(Words) /\ n \in Nat /\ Level(s, n) = Len(open)
      /\ \A k \in 0 .. n : Level(s, k) >= 0
  BY TypedWritten
<1>2. Level(s, n) = 1 /\ Shape(b, -1, -1)
  BY <1>1, CloseShape
<1>. HIDE DEF b
<1>3. /\ Continues(t, s) /\ Len(t) = n + 1 /\ t[n + 1] = ")" /\ Level(t, Len(t)) = 0
           /\ t \in Seq(Words)
  BY <1>0, <1>1, <1>2, Joined
<1>. HIDE DEF t
<1>4. Prefix(s)
  <2>1. s # <<>>
    BY <1>1
  <2>. QED BY <2>1 DEF Written
<1>5. PICK x \in 2 .. n : PathTo(s, x) /\ open[1] = "defined" /\
         \E o \in x + 2 .. n : /\ CteHead(s, x, o) /\ Depth(s, o) = 0
                               /\ \A k \in o .. n : Level(s, k) >= 1
  BY <1>4 DEF Prefix
<1>6. PICK o \in x + 2 .. n : /\ CteHead(s, x, o) /\ Depth(s, o) = 0
                              /\ \A k \in o .. n : Level(s, k) >= 1
  BY <1>5
<1>7. PathTo(t, x)
  BY <1>1, <1>3, <1>5, PathContinues
<1>8. CteHead(t, x, o)
  BY <1>1, <1>3, <1>6, CteHeadContinues
<1>9. t[1] = "WITH" /\ Depth(t, o) = 0
  <2>1. s[1] = "WITH" /\ 1 \in 1 .. n /\ o \in 1 .. n
    BY <1>1, <1>4 DEF Prefix
  <2>. QED BY <1>3, <1>6, <2>1 DEF Continues
<1>10. Depth(t, n + 1) = 0
  BY <1>1, <1>3, DepthIs
<1>11. ASSUME NEW k \in o + 1 .. n, t[k] = ")" PROVE Depth(t, k) # 0
  <2>. DEFINE j == k - 1
  <2>1. j \in Nat /\ k = j + 1 /\ k \in o .. n /\ k \in 0 .. n
    BY <1>1
  <2>. HIDE DEF j
  <2>2. Depth(t, j + 1) = Level(t, j + 1)
    BY <1>11, <2>1, DepthIs
  <2>3. Level(t, k) = Level(s, k) /\ Level(s, k) \in Int
    BY <1>3, <2>1 DEF Continues
  <2>. QED BY <1>6, <2>1, <2>2, <2>3
<1>12. Matches(t, o, n + 1)
  <2>1. (n + 1) - 1 = n /\ o < n + 1
    BY <1>1
  <2>. QED BY <1>3, <1>9, <1>10, <1>11, <2>1 DEF Matches
<1>13. CteAt(t, x, Len(t) + 1)
  <2>1. (Len(t) + 1) - 1 = n + 1 /\ o \in x + 2 .. (Len(t) + 1) - 2
    BY <1>1, <1>3
  <2>. QED BY <1>8, <1>12, <2>1 DEF CteAt
<1>14. x \in 2 .. Len(t)
  BY <1>1, <1>3
<1>15. Prefix(t)'
  BY <1>5, <1>7, <1>9, <1>13, <1>14 DEF Prefix
<1>. QED BY <1>15 DEF t, b

-----------------------------------------------------------------------------
(***************************************************************************)
(* The clauses of SqlTexts, spelled out.                                   *)
(***************************************************************************)

(* Each clause of SqlTexts: its tokens, its shape, and the level of each   *)
(* token. First the clauses of queries.                                    *)
LEMMA SelectBlock ==
  ASSUME NEW b, b = <<"SELECT", String, "AS", Quoted>>
  PROVE  /\ b \in Seq(Words) /\ Len(b) = 4 /\ DOMAIN b = 1 .. 4
         /\ b[1] = "SELECT" /\ b[2] = String /\ b[3] = "AS" /\ b[4] = Quoted
         /\ Shape(b, 0, 0)
         /\ \A k \in 1 .. Len(b) : Depth(b, k) = 0
<1>1. b \in Seq(Words)
  BY DEF Words
<1>2. Len(b) = 4 /\ DOMAIN b = 1 .. 4 /\ b[1] = "SELECT" /\ b[2] = String /\ b[3] = "AS"
        /\ b[4] = Quoted
  OBVIOUS
<1>3. \A k \in 1 .. Len(b) : b[k] # "(" /\ b[k] # ")"
  BY <1>2, Marks DEF String, Quoted
<1>4. Shape(b, 0, 0) /\ \A k \in 1 .. Len(b) : Depth(b, k) = 0
  BY <1>2, <1>3, PlainShape
<1>. QED BY <1>1, <1>2, <1>4

LEMMA SelectNextBlock ==
  ASSUME NEW b, b = <<"SELECT", "a">>
  PROVE  /\ b \in Seq(Words) /\ Len(b) = 2 /\ DOMAIN b = 1 .. 2
         /\ b[1] = "SELECT" /\ b[2] = "a"
         /\ Shape(b, 0, 0)
         /\ \A k \in 1 .. Len(b) : Depth(b, k) = 0
<1>1. b \in Seq(Words)
  BY DEF Words
<1>2. Len(b) = 2 /\ DOMAIN b = 1 .. 2 /\ b[1] = "SELECT" /\ b[2] = "a"
  OBVIOUS
<1>3. \A k \in 1 .. Len(b) : b[k] # "(" /\ b[k] # ")"
  BY <1>2, Marks DEF String, Quoted
<1>4. Shape(b, 0, 0) /\ \A k \in 1 .. Len(b) : Depth(b, k) = 0
  BY <1>2, <1>3, PlainShape
<1>. QED BY <1>1, <1>2, <1>4

LEMMA IntoBlock ==
  ASSUME NEW b, b = <<"INTO", "t">>
  PROVE  /\ b \in Seq(Words) /\ Len(b) = 2 /\ DOMAIN b = 1 .. 2
         /\ b[1] = "INTO" /\ b[2] = "t"
         /\ Shape(b, 0, 0)
         /\ \A k \in 1 .. Len(b) : Depth(b, k) = 0
<1>1. b \in Seq(Words)
  BY DEF Words
<1>2. Len(b) = 2 /\ DOMAIN b = 1 .. 2 /\ b[1] = "INTO" /\ b[2] = "t"
  OBVIOUS
<1>3. \A k \in 1 .. Len(b) : b[k] # "(" /\ b[k] # ")"
  BY <1>2, Marks DEF String, Quoted
<1>4. Shape(b, 0, 0) /\ \A k \in 1 .. Len(b) : Depth(b, k) = 0
  BY <1>2, <1>3, PlainShape
<1>. QED BY <1>1, <1>2, <1>4

LEMMA FromBlock ==
  ASSUME NEW b, b = <<"FROM", "t">>
  PROVE  /\ b \in Seq(Words) /\ Len(b) = 2 /\ DOMAIN b = 1 .. 2
         /\ b[1] = "FROM" /\ b[2] = "t"
         /\ Shape(b, 0, 0)
         /\ \A k \in 1 .. Len(b) : Depth(b, k) = 0
<1>1. b \in Seq(Words)
  BY DEF Words
<1>2. Len(b) = 2 /\ DOMAIN b = 1 .. 2 /\ b[1] = "FROM" /\ b[2] = "t"
  OBVIOUS
<1>3. \A k \in 1 .. Len(b) : b[k] # "(" /\ b[k] # ")"
  BY <1>2, Marks DEF String, Quoted
<1>4. Shape(b, 0, 0) /\ \A k \in 1 .. Len(b) : Depth(b, k) = 0
  BY <1>2, <1>3, PlainShape
<1>. QED BY <1>1, <1>2, <1>4

LEMMA FromQueryBlock ==
  ASSUME NEW b, b = <<"FROM", "(">>
  PROVE  /\ b \in Seq(Words) /\ Len(b) = 2 /\ DOMAIN b = 1 .. 2
         /\ b[1] = "FROM" /\ b[2] = "("
         /\ Shape(b, 0, 1)
         /\ Depth(b, 2) = 0
<1>1. b \in Seq(Words)
  BY DEF Words
<1>2. Len(b) = 2 /\ DOMAIN b = 1 .. 2 /\ b[1] = "FROM" /\ b[2] = "("
  OBVIOUS
<1>3. \A k \in 1 .. Len(b) - 1 : b[k] # "(" /\ b[k] # ")"
  BY <1>2, Marks DEF String, Quoted
<1>4. Len(b) \in Nat /\ Len(b) > 0 /\ b[Len(b)] = "("
  BY <1>2
<1>5. Shape(b, 0, 1) /\ Depth(b, Len(b)) = 0
  BY <1>3, <1>4, NestShape
<1>. QED BY <1>1, <1>2, <1>5

LEMMA WhereBlock ==
  ASSUME NEW b, b = <<"WHERE", "a", "IN", "(">>
  PROVE  /\ b \in Seq(Words) /\ Len(b) = 4 /\ DOMAIN b = 1 .. 4
         /\ b[1] = "WHERE" /\ b[2] = "a" /\ b[3] = "IN" /\ b[4] = "("
         /\ Shape(b, 0, 1)
         /\ Depth(b, 4) = 0
<1>1. b \in Seq(Words)
  BY DEF Words
<1>2. Len(b) = 4 /\ DOMAIN b = 1 .. 4 /\ b[1] = "WHERE" /\ b[2] = "a" /\ b[3] = "IN" /\ b[4] = "("
  OBVIOUS
<1>3. \A k \in 1 .. Len(b) - 1 : b[k] # "(" /\ b[k] # ")"
  BY <1>2, Marks DEF String, Quoted
<1>4. Len(b) \in Nat /\ Len(b) > 0 /\ b[Len(b)] = "("
  BY <1>2
<1>5. Shape(b, 0, 1) /\ Depth(b, Len(b)) = 0
  BY <1>3, <1>4, NestShape
<1>. QED BY <1>1, <1>2, <1>5

LEMMA UnionBlock ==
  ASSUME NEW b, b = <<"UNION">>
  PROVE  /\ b \in Seq(Words) /\ Len(b) = 1 /\ DOMAIN b = 1 .. 1
         /\ b[1] = "UNION"
         /\ Shape(b, 0, 0)
         /\ \A k \in 1 .. Len(b) : Depth(b, k) = 0
<1>1. b \in Seq(Words)
  BY DEF Words
<1>2. Len(b) = 1 /\ DOMAIN b = 1 .. 1 /\ b[1] = "UNION"
  OBVIOUS
<1>3. \A k \in 1 .. Len(b) : b[k] # "(" /\ b[k] # ")"
  BY <1>2, Marks DEF String, Quoted
<1>4. Shape(b, 0, 0) /\ \A k \in 1 .. Len(b) : Depth(b, k) = 0
  BY <1>2, <1>3, PlainShape
<1>. QED BY <1>1, <1>2, <1>4

LEMMA UnionAllBlock ==
  ASSUME NEW b, b = <<"UNION", "ALL">>
  PROVE  /\ b \in Seq(Words) /\ Len(b) = 2 /\ DOMAIN b = 1 .. 2
         /\ b[1] = "UNION" /\ b[2] = "ALL"
         /\ Shape(b, 0, 0)
         /\ \A k \in 1 .. Len(b) : Depth(b, k) = 0
<1>1. b \in Seq(Words)
  BY DEF Words
<1>2. Len(b) = 2 /\ DOMAIN b = 1 .. 2 /\ b[1] = "UNION" /\ b[2] = "ALL"
  OBVIOUS
<1>3. \A k \in 1 .. Len(b) : b[k] # "(" /\ b[k] # ")"
  BY <1>2, Marks DEF String, Quoted
<1>4. Shape(b, 0, 0) /\ \A k \in 1 .. Len(b) : Depth(b, k) = 0
  BY <1>2, <1>3, PlainShape
<1>. QED BY <1>1, <1>2, <1>4

LEMMA ParenthesisBlock ==
  ASSUME NEW b, b = <<"(">>
  PROVE  /\ b \in Seq(Words) /\ Len(b) = 1 /\ DOMAIN b = 1 .. 1
         /\ b[1] = "("
         /\ Shape(b, 0, 1)
         /\ Depth(b, 1) = 0
<1>1. b \in Seq(Words)
  BY DEF Words
<1>2. Len(b) = 1 /\ DOMAIN b = 1 .. 1 /\ b[1] = "("
  OBVIOUS
<1>3. \A k \in 1 .. Len(b) - 1 : b[k] # "(" /\ b[k] # ")"
  BY <1>2, Marks DEF String, Quoted
<1>4. Len(b) \in Nat /\ Len(b) > 0 /\ b[Len(b)] = "("
  BY <1>2
<1>5. Shape(b, 0, 1) /\ Depth(b, Len(b)) = 0
  BY <1>3, <1>4, NestShape
<1>. QED BY <1>1, <1>2, <1>5

LEMMA WithBlock ==
  ASSUME NEW b, b = <<"WITH", "a", "AS", "(">>
  PROVE  /\ b \in Seq(Words) /\ Len(b) = 4 /\ DOMAIN b = 1 .. 4
         /\ b[1] = "WITH" /\ b[2] = "a" /\ b[3] = "AS" /\ b[4] = "("
         /\ Shape(b, 0, 1)
         /\ Depth(b, 4) = 0
<1>1. b \in Seq(Words)
  BY DEF Words
<1>2. Len(b) = 4 /\ DOMAIN b = 1 .. 4 /\ b[1] = "WITH" /\ b[2] = "a" /\ b[3] = "AS" /\ b[4] = "("
  OBVIOUS
<1>3. \A k \in 1 .. Len(b) - 1 : b[k] # "(" /\ b[k] # ")"
  BY <1>2, Marks DEF String, Quoted
<1>4. Len(b) \in Nat /\ Len(b) > 0 /\ b[Len(b)] = "("
  BY <1>2
<1>5. Shape(b, 0, 1) /\ Depth(b, Len(b)) = 0
  BY <1>3, <1>4, NestShape
<1>. QED BY <1>1, <1>2, <1>5

LEMMA AndWithBlock ==
  ASSUME NEW b, b = <<Comma, "a", "AS", "(">>
  PROVE  /\ b \in Seq(Words) /\ Len(b) = 4 /\ DOMAIN b = 1 .. 4
         /\ b[1] = Comma /\ b[2] = "a" /\ b[3] = "AS" /\ b[4] = "("
         /\ Shape(b, 0, 1)
         /\ Depth(b, 4) = 0
<1>1. b \in Seq(Words)
  BY DEF Words
<1>2. Len(b) = 4 /\ DOMAIN b = 1 .. 4 /\ b[1] = Comma /\ b[2] = "a" /\ b[3] = "AS" /\ b[4] = "("
  OBVIOUS
<1>3. \A k \in 1 .. Len(b) - 1 : b[k] # "(" /\ b[k] # ")"
  BY <1>2, Marks DEF String, Quoted
<1>4. Len(b) \in Nat /\ Len(b) > 0 /\ b[Len(b)] = "("
  BY <1>2
<1>5. Shape(b, 0, 1) /\ Depth(b, Len(b)) = 0
  BY <1>3, <1>4, NestShape
<1>. QED BY <1>1, <1>2, <1>5

LEMMA InsertBlock ==
  ASSUME NEW b, b = <<"INSERT", "INTO", "t", "(", "a", ")">>
  PROVE  /\ b \in Seq(Words) /\ Len(b) = 6 /\ DOMAIN b = 1 .. 6
         /\ b[1] = "INSERT" /\ b[2] = "INTO" /\ b[3] = "t" /\ b[4] = "(" /\ b[5] = "a" /\ b[6] = ")"
         /\ Shape(b, 0, 0)
         /\ Level(b, 0) = 0 /\ Level(b, 1) = 0 /\ Level(b, 2) = 0 /\ Level(b, 3) = 0
              /\ Level(b, 4) = 1 /\ Level(b, 5) = 1 /\ Level(b, 6) = 0
<1>1. b \in Seq(Words)
  BY DEF Words
<1>2. Len(b) = 6 /\ DOMAIN b = 1 .. 6 /\ b[1] = "INSERT" /\ b[2] = "INTO" /\ b[3] = "t"
        /\ b[4] = "(" /\ b[5] = "a" /\ b[6] = ")"
  OBVIOUS
<1>3. Level(b, 0) = 0
  BY LevelZero
<1>4. Level(b, 0) = 0 /\ Level(b, 1) = 0 /\ Level(b, 2) = 0 /\ Level(b, 3) = 0 /\ Level(b, 4) = 1
        /\ Level(b, 5) = 1 /\ Level(b, 6) = 0
  BY <1>2, <1>3, LevelAt, Marks DEF String, Quoted
<1>5. Shape(b, 0, 0)
  BY <1>2, <1>4 DEF Shape
<1>. QED BY <1>1, <1>2, <1>4, <1>5

LEMMA ValuesBlock ==
  ASSUME NEW b, b = <<"VALUES", "(", "a", ")">>
  PROVE  /\ b \in Seq(Words) /\ Len(b) = 4 /\ DOMAIN b = 1 .. 4
         /\ b[1] = "VALUES" /\ b[2] = "(" /\ b[3] = "a" /\ b[4] = ")"
         /\ Shape(b, 0, 0)
         /\ Level(b, 0) = 0 /\ Level(b, 1) = 0 /\ Level(b, 2) = 1 /\ Level(b, 3) = 1
              /\ Level(b, 4) = 0
<1>1. b \in Seq(Words)
  BY DEF Words
<1>2. Len(b) = 4 /\ DOMAIN b = 1 .. 4 /\ b[1] = "VALUES" /\ b[2] = "(" /\ b[3] = "a" /\ b[4] = ")"
  OBVIOUS
<1>3. Level(b, 0) = 0
  BY LevelZero
<1>4. Level(b, 0) = 0 /\ Level(b, 1) = 0 /\ Level(b, 2) = 1 /\ Level(b, 3) = 1 /\ Level(b, 4) = 0
  BY <1>2, <1>3, LevelAt, Marks DEF String, Quoted
<1>5. Shape(b, 0, 0)
  BY <1>2, <1>4 DEF Shape
<1>. QED BY <1>1, <1>2, <1>4, <1>5

LEMMA UpdateBlock ==
  ASSUME NEW b, b = <<"UPDATE", "t", "SET", "a", "a">>
  PROVE  /\ b \in Seq(Words) /\ Len(b) = 5 /\ DOMAIN b = 1 .. 5
         /\ b[1] = "UPDATE" /\ b[2] = "t" /\ b[3] = "SET" /\ b[4] = "a" /\ b[5] = "a"
         /\ Shape(b, 0, 0)
         /\ \A k \in 1 .. Len(b) : Depth(b, k) = 0
<1>1. b \in Seq(Words)
  BY DEF Words
<1>2. Len(b) = 5 /\ DOMAIN b = 1 .. 5 /\ b[1] = "UPDATE" /\ b[2] = "t" /\ b[3] = "SET"
        /\ b[4] = "a" /\ b[5] = "a"
  OBVIOUS
<1>3. \A k \in 1 .. Len(b) : b[k] # "(" /\ b[k] # ")"
  BY <1>2, Marks DEF String, Quoted
<1>4. Shape(b, 0, 0) /\ \A k \in 1 .. Len(b) : Depth(b, k) = 0
  BY <1>2, <1>3, PlainShape
<1>. QED BY <1>1, <1>2, <1>4

LEMMA DeleteBlock ==
  ASSUME NEW b, b = <<"DELETE", "FROM", "t">>
  PROVE  /\ b \in Seq(Words) /\ Len(b) = 3 /\ DOMAIN b = 1 .. 3
         /\ b[1] = "DELETE" /\ b[2] = "FROM" /\ b[3] = "t"
         /\ Shape(b, 0, 0)
         /\ \A k \in 1 .. Len(b) : Depth(b, k) = 0
<1>1. b \in Seq(Words)
  BY DEF Words
<1>2. Len(b) = 3 /\ DOMAIN b = 1 .. 3 /\ b[1] = "DELETE" /\ b[2] = "FROM" /\ b[3] = "t"
  OBVIOUS
<1>3. \A k \in 1 .. Len(b) : b[k] # "(" /\ b[k] # ")"
  BY <1>2, Marks DEF String, Quoted
<1>4. Shape(b, 0, 0) /\ \A k \in 1 .. Len(b) : Depth(b, k) = 0
  BY <1>2, <1>3, PlainShape
<1>. QED BY <1>1, <1>2, <1>4

LEMMA MergeIntoBlock ==
  ASSUME NEW b, b = <<"MERGE", "INTO", "t", "USING", "t", "ON", "a">>
  PROVE  /\ b \in Seq(Words) /\ Len(b) = 7 /\ DOMAIN b = 1 .. 7
         /\ b[1] = "MERGE" /\ b[2] = "INTO" /\ b[3] = "t" /\ b[4] = "USING" /\ b[5] = "t"
              /\ b[6] = "ON" /\ b[7] = "a"
         /\ Shape(b, 0, 0)
         /\ \A k \in 1 .. Len(b) : Depth(b, k) = 0
<1>1. b \in Seq(Words)
  BY DEF Words
<1>2. Len(b) = 7 /\ DOMAIN b = 1 .. 7 /\ b[1] = "MERGE" /\ b[2] = "INTO" /\ b[3] = "t"
        /\ b[4] = "USING" /\ b[5] = "t" /\ b[6] = "ON" /\ b[7] = "a"
  OBVIOUS
<1>3. \A k \in 1 .. Len(b) : b[k] # "(" /\ b[k] # ")"
  BY <1>2, Marks DEF String, Quoted
<1>4. Shape(b, 0, 0) /\ \A k \in 1 .. Len(b) : Depth(b, k) = 0
  BY <1>2, <1>3, PlainShape
<1>. QED BY <1>1, <1>2, <1>4

LEMMA MergeBlock ==
  ASSUME NEW b, b = <<"MERGE", "t", "USING", "t", "ON", "a">>
  PROVE  /\ b \in Seq(Words) /\ Len(b) = 6 /\ DOMAIN b = 1 .. 6
         /\ b[1] = "MERGE" /\ b[2] = "t" /\ b[3] = "USING" /\ b[4] = "t" /\ b[5] = "ON"
              /\ b[6] = "a"
         /\ Shape(b, 0, 0)
         /\ \A k \in 1 .. Len(b) : Depth(b, k) = 0
<1>1. b \in Seq(Words)
  BY DEF Words
<1>2. Len(b) = 6 /\ DOMAIN b = 1 .. 6 /\ b[1] = "MERGE" /\ b[2] = "t" /\ b[3] = "USING"
        /\ b[4] = "t" /\ b[5] = "ON" /\ b[6] = "a"
  OBVIOUS
<1>3. \A k \in 1 .. Len(b) : b[k] # "(" /\ b[k] # ")"
  BY <1>2, Marks DEF String, Quoted
<1>4. Shape(b, 0, 0) /\ \A k \in 1 .. Len(b) : Depth(b, k) = 0
  BY <1>2, <1>3, PlainShape
<1>. QED BY <1>1, <1>2, <1>4

LEMMA WhenUpdateBlock ==
  ASSUME NEW b, b = <<"WHEN", "MATCHED", "THEN", "UPDATE", "SET", "a", "a">>
  PROVE  /\ b \in Seq(Words) /\ Len(b) = 7 /\ DOMAIN b = 1 .. 7
         /\ b[1] = "WHEN" /\ b[2] = "MATCHED" /\ b[3] = "THEN" /\ b[4] = "UPDATE" /\ b[5] = "SET"
              /\ b[6] = "a" /\ b[7] = "a"
         /\ Shape(b, 0, 0)
         /\ \A k \in 1 .. Len(b) : Depth(b, k) = 0
<1>1. b \in Seq(Words)
  BY DEF Words
<1>2. Len(b) = 7 /\ DOMAIN b = 1 .. 7 /\ b[1] = "WHEN" /\ b[2] = "MATCHED" /\ b[3] = "THEN"
        /\ b[4] = "UPDATE" /\ b[5] = "SET" /\ b[6] = "a" /\ b[7] = "a"
  OBVIOUS
<1>3. \A k \in 1 .. Len(b) : b[k] # "(" /\ b[k] # ")"
  BY <1>2, Marks DEF String, Quoted
<1>4. Shape(b, 0, 0) /\ \A k \in 1 .. Len(b) : Depth(b, k) = 0
  BY <1>2, <1>3, PlainShape
<1>. QED BY <1>1, <1>2, <1>4

LEMMA WhenDeleteBlock ==
  ASSUME NEW b, b = <<"WHEN", "MATCHED", "THEN", "DELETE">>
  PROVE  /\ b \in Seq(Words) /\ Len(b) = 4 /\ DOMAIN b = 1 .. 4
         /\ b[1] = "WHEN" /\ b[2] = "MATCHED" /\ b[3] = "THEN" /\ b[4] = "DELETE"
         /\ Shape(b, 0, 0)
         /\ \A k \in 1 .. Len(b) : Depth(b, k) = 0
<1>1. b \in Seq(Words)
  BY DEF Words
<1>2. Len(b) = 4 /\ DOMAIN b = 1 .. 4 /\ b[1] = "WHEN" /\ b[2] = "MATCHED" /\ b[3] = "THEN"
        /\ b[4] = "DELETE"
  OBVIOUS
<1>3. \A k \in 1 .. Len(b) : b[k] # "(" /\ b[k] # ")"
  BY <1>2, Marks DEF String, Quoted
<1>4. Shape(b, 0, 0) /\ \A k \in 1 .. Len(b) : Depth(b, k) = 0
  BY <1>2, <1>3, PlainShape
<1>. QED BY <1>1, <1>2, <1>4

LEMMA WhenInsertBlock ==
  ASSUME NEW b, b = <<"WHEN", "MATCHED", "THEN", "INSERT", "(", "a", ")", "VALUES", "(", "a", ")">>
  PROVE  /\ b \in Seq(Words) /\ Len(b) = 11 /\ DOMAIN b = 1 .. 11
         /\ b[1] = "WHEN" /\ b[2] = "MATCHED" /\ b[3] = "THEN" /\ b[4] = "INSERT" /\ b[5] = "("
              /\ b[6] = "a" /\ b[7] = ")" /\ b[8] = "VALUES" /\ b[9] = "(" /\ b[10] = "a"
                   /\ b[11] = ")"
         /\ Shape(b, 0, 0)
         /\ Level(b, 0) = 0 /\ Level(b, 1) = 0 /\ Level(b, 2) = 0 /\ Level(b, 3) = 0
              /\ Level(b, 4) = 0 /\ Level(b, 5) = 1 /\ Level(b, 6) = 1 /\ Level(b, 7) = 0
                   /\ Level(b, 8) = 0 /\ Level(b, 9) = 1 /\ Level(b, 10) = 1 /\ Level(b, 11) = 0
<1>1. b \in Seq(Words)
  BY DEF Words
<1>2. Len(b) = 11 /\ DOMAIN b = 1 .. 11 /\ b[1] = "WHEN" /\ b[2] = "MATCHED" /\ b[3] = "THEN"
        /\ b[4] = "INSERT" /\ b[5] = "(" /\ b[6] = "a" /\ b[7] = ")" /\ b[8] = "VALUES"
             /\ b[9] = "(" /\ b[10] = "a" /\ b[11] = ")"
  OBVIOUS
<1>3. Level(b, 0) = 0
  BY LevelZero
<1>4. Level(b, 0) = 0 /\ Level(b, 1) = 0 /\ Level(b, 2) = 0 /\ Level(b, 3) = 0 /\ Level(b, 4) = 0
        /\ Level(b, 5) = 1 /\ Level(b, 6) = 1 /\ Level(b, 7) = 0 /\ Level(b, 8) = 0
             /\ Level(b, 9) = 1 /\ Level(b, 10) = 1 /\ Level(b, 11) = 0
  BY <1>2, <1>3, LevelAt, Marks DEF String, Quoted
<1>5. Shape(b, 0, 0)
  BY <1>2, <1>4 DEF Shape
<1>. QED BY <1>1, <1>2, <1>4, <1>5

LEMMA OutputBlock ==
  ASSUME NEW b, b = <<"OUTPUT", "a">>
  PROVE  /\ b \in Seq(Words) /\ Len(b) = 2 /\ DOMAIN b = 1 .. 2
         /\ b[1] = "OUTPUT" /\ b[2] = "a"
         /\ Shape(b, 0, 0)
         /\ \A k \in 1 .. Len(b) : Depth(b, k) = 0
<1>1. b \in Seq(Words)
  BY DEF Words
<1>2. Len(b) = 2 /\ DOMAIN b = 1 .. 2 /\ b[1] = "OUTPUT" /\ b[2] = "a"
  OBVIOUS
<1>3. \A k \in 1 .. Len(b) : b[k] # "(" /\ b[k] # ")"
  BY <1>2, Marks DEF String, Quoted
<1>4. Shape(b, 0, 0) /\ \A k \in 1 .. Len(b) : Depth(b, k) = 0
  BY <1>2, <1>3, PlainShape
<1>. QED BY <1>1, <1>2, <1>4

LEMMA OutputIntoBlock ==
  ASSUME NEW b, b = <<"OUTPUT", "a", "INTO", "t">>
  PROVE  /\ b \in Seq(Words) /\ Len(b) = 4 /\ DOMAIN b = 1 .. 4
         /\ b[1] = "OUTPUT" /\ b[2] = "a" /\ b[3] = "INTO" /\ b[4] = "t"
         /\ Shape(b, 0, 0)
         /\ \A k \in 1 .. Len(b) : Depth(b, k) = 0
<1>1. b \in Seq(Words)
  BY DEF Words
<1>2. Len(b) = 4 /\ DOMAIN b = 1 .. 4 /\ b[1] = "OUTPUT" /\ b[2] = "a" /\ b[3] = "INTO"
        /\ b[4] = "t"
  OBVIOUS
<1>3. \A k \in 1 .. Len(b) : b[k] # "(" /\ b[k] # ")"
  BY <1>2, Marks DEF String, Quoted
<1>4. Shape(b, 0, 0) /\ \A k \in 1 .. Len(b) : Depth(b, k) = 0
  BY <1>2, <1>3, PlainShape
<1>. QED BY <1>1, <1>2, <1>4

LEMMA ExecBlock ==
  ASSUME NEW b, b = <<"EXEC", "a">>
  PROVE  /\ b \in Seq(Words) /\ Len(b) = 2 /\ DOMAIN b = 1 .. 2
         /\ b[1] = "EXEC" /\ b[2] = "a"
         /\ Shape(b, 0, 0)
         /\ \A k \in 1 .. Len(b) : Depth(b, k) = 0
<1>1. b \in Seq(Words)
  BY DEF Words
<1>2. Len(b) = 2 /\ DOMAIN b = 1 .. 2 /\ b[1] = "EXEC" /\ b[2] = "a"
  OBVIOUS
<1>3. \A k \in 1 .. Len(b) : b[k] # "(" /\ b[k] # ")"
  BY <1>2, Marks DEF String, Quoted
<1>4. Shape(b, 0, 0) /\ \A k \in 1 .. Len(b) : Depth(b, k) = 0
  BY <1>2, <1>3, PlainShape
<1>. QED BY <1>1, <1>2, <1>4

LEMMA UseBlock ==
  ASSUME NEW b, b = <<"USE", "a">>
  PROVE  /\ b \in Seq(Words) /\ Len(b) = 2 /\ DOMAIN b = 1 .. 2
         /\ b[1] = "USE" /\ b[2] = "a"
         /\ Shape(b, 0, 0)
         /\ \A k \in 1 .. Len(b) : Depth(b, k) = 0
<1>1. b \in Seq(Words)
  BY DEF Words
<1>2. Len(b) = 2 /\ DOMAIN b = 1 .. 2 /\ b[1] = "USE" /\ b[2] = "a"
  OBVIOUS
<1>3. \A k \in 1 .. Len(b) : b[k] # "(" /\ b[k] # ")"
  BY <1>2, Marks DEF String, Quoted
<1>4. Shape(b, 0, 0) /\ \A k \in 1 .. Len(b) : Depth(b, k) = 0
  BY <1>2, <1>3, PlainShape
<1>. QED BY <1>1, <1>2, <1>4

LEMMA SetBlock ==
  ASSUME NEW b, b = <<"SET", "a", "a">>
  PROVE  /\ b \in Seq(Words) /\ Len(b) = 3 /\ DOMAIN b = 1 .. 3
         /\ b[1] = "SET" /\ b[2] = "a" /\ b[3] = "a"
         /\ Shape(b, 0, 0)
         /\ \A k \in 1 .. Len(b) : Depth(b, k) = 0
<1>1. b \in Seq(Words)
  BY DEF Words
<1>2. Len(b) = 3 /\ DOMAIN b = 1 .. 3 /\ b[1] = "SET" /\ b[2] = "a" /\ b[3] = "a"
  OBVIOUS
<1>3. \A k \in 1 .. Len(b) : b[k] # "(" /\ b[k] # ")"
  BY <1>2, Marks DEF String, Quoted
<1>4. Shape(b, 0, 0) /\ \A k \in 1 .. Len(b) : Depth(b, k) = 0
  BY <1>2, <1>3, PlainShape
<1>. QED BY <1>1, <1>2, <1>4

LEMMA ColumnsBlock ==
  ASSUME NEW b, b = <<"WITH", Quoted, "(", "a", Comma, "a", ")", "AS", "(">>
  PROVE  /\ b \in Seq(Words) /\ Len(b) = 9 /\ DOMAIN b = 1 .. 9
         /\ b[1] = "WITH" /\ b[2] = Quoted /\ b[3] = "(" /\ b[4] = "a" /\ b[5] = Comma
              /\ b[6] = "a" /\ b[7] = ")" /\ b[8] = "AS" /\ b[9] = "("
         /\ Shape(b, 0, 1)
         /\ Level(b, 0) = 0 /\ Level(b, 1) = 0 /\ Level(b, 2) = 0 /\ Level(b, 3) = 1
              /\ Level(b, 4) = 1 /\ Level(b, 5) = 1 /\ Level(b, 6) = 1 /\ Level(b, 7) = 0
                   /\ Level(b, 8) = 0 /\ Level(b, 9) = 1
<1>1. b \in Seq(Words)
  BY DEF Words
<1>2. Len(b) = 9 /\ DOMAIN b = 1 .. 9 /\ b[1] = "WITH" /\ b[2] = Quoted /\ b[3] = "(" /\ b[4] = "a"
        /\ b[5] = Comma /\ b[6] = "a" /\ b[7] = ")" /\ b[8] = "AS" /\ b[9] = "("
  OBVIOUS
<1>3. Level(b, 0) = 0
  BY LevelZero
<1>4. Level(b, 0) = 0 /\ Level(b, 1) = 0 /\ Level(b, 2) = 0 /\ Level(b, 3) = 1 /\ Level(b, 4) = 1
        /\ Level(b, 5) = 1 /\ Level(b, 6) = 1 /\ Level(b, 7) = 0 /\ Level(b, 8) = 0
             /\ Level(b, 9) = 1
  BY <1>2, <1>3, LevelAt, Marks DEF String, Quoted
<1>5. Shape(b, 0, 1)
  BY <1>2, <1>4 DEF Shape
<1>. QED BY <1>1, <1>2, <1>4, <1>5

LEMMA NamespacesBlock ==
  ASSUME NEW b, b = <<"WITH", "XMLNAMESPACES", "(", String, "AS", "a", ")">>
  PROVE  /\ b \in Seq(Words) /\ Len(b) = 7 /\ DOMAIN b = 1 .. 7
         /\ b[1] = "WITH" /\ b[2] = "XMLNAMESPACES" /\ b[3] = "(" /\ b[4] = String /\ b[5] = "AS"
              /\ b[6] = "a" /\ b[7] = ")"
         /\ Shape(b, 0, 0)
         /\ Level(b, 0) = 0 /\ Level(b, 1) = 0 /\ Level(b, 2) = 0 /\ Level(b, 3) = 1
              /\ Level(b, 4) = 1 /\ Level(b, 5) = 1 /\ Level(b, 6) = 1 /\ Level(b, 7) = 0
<1>1. b \in Seq(Words)
  BY DEF Words
<1>2. Len(b) = 7 /\ DOMAIN b = 1 .. 7 /\ b[1] = "WITH" /\ b[2] = "XMLNAMESPACES" /\ b[3] = "("
        /\ b[4] = String /\ b[5] = "AS" /\ b[6] = "a" /\ b[7] = ")"
  OBVIOUS
<1>3. Level(b, 0) = 0
  BY LevelZero
<1>4. Level(b, 0) = 0 /\ Level(b, 1) = 0 /\ Level(b, 2) = 0 /\ Level(b, 3) = 1 /\ Level(b, 4) = 1
        /\ Level(b, 5) = 1 /\ Level(b, 6) = 1 /\ Level(b, 7) = 0
  BY <1>2, <1>3, LevelAt, Marks DEF String, Quoted
<1>5. Shape(b, 0, 0)
  BY <1>2, <1>4 DEF Shape
<1>. QED BY <1>1, <1>2, <1>4, <1>5

LEMMA OptionBlock ==
  ASSUME NEW b, b = <<"OPTION", "(", "MAXDOP", "a", Comma, "USE", "HINT", "(", String, ")", ")">>
  PROVE  /\ b \in Seq(Words) /\ Len(b) = 11 /\ DOMAIN b = 1 .. 11
         /\ b[1] = "OPTION" /\ b[2] = "(" /\ b[3] = "MAXDOP" /\ b[4] = "a" /\ b[5] = Comma
              /\ b[6] = "USE" /\ b[7] = "HINT" /\ b[8] = "(" /\ b[9] = String /\ b[10] = ")"
                   /\ b[11] = ")"
         /\ Shape(b, 0, 0)
         /\ Level(b, 0) = 0 /\ Level(b, 1) = 0 /\ Level(b, 2) = 1 /\ Level(b, 3) = 1
              /\ Level(b, 4) = 1 /\ Level(b, 5) = 1 /\ Level(b, 6) = 1 /\ Level(b, 7) = 1
                   /\ Level(b, 8) = 2 /\ Level(b, 9) = 2 /\ Level(b, 10) = 1 /\ Level(b, 11) = 0
<1>1. b \in Seq(Words)
  BY DEF Words
<1>2. Len(b) = 11 /\ DOMAIN b = 1 .. 11 /\ b[1] = "OPTION" /\ b[2] = "(" /\ b[3] = "MAXDOP"
        /\ b[4] = "a" /\ b[5] = Comma /\ b[6] = "USE" /\ b[7] = "HINT" /\ b[8] = "("
             /\ b[9] = String /\ b[10] = ")" /\ b[11] = ")"
  OBVIOUS
<1>3. Level(b, 0) = 0
  BY LevelZero
<1>4. Level(b, 0) = 0 /\ Level(b, 1) = 0 /\ Level(b, 2) = 1 /\ Level(b, 3) = 1 /\ Level(b, 4) = 1
        /\ Level(b, 5) = 1 /\ Level(b, 6) = 1 /\ Level(b, 7) = 1 /\ Level(b, 8) = 2
             /\ Level(b, 9) = 2 /\ Level(b, 10) = 1 /\ Level(b, 11) = 0
  BY <1>2, <1>3, LevelAt, Marks DEF String, Quoted
<1>5. Shape(b, 0, 0)
  BY <1>2, <1>4 DEF Shape
<1>. QED BY <1>1, <1>2, <1>4, <1>5

LEMMA FromChangeBlock ==
  ASSUME NEW b, b = <<"FROM", "(", "DELETE", "FROM", "t", "OUTPUT", "a", ")", "AS", "a">>
  PROVE  /\ b \in Seq(Words) /\ Len(b) = 10 /\ DOMAIN b = 1 .. 10
         /\ b[1] = "FROM" /\ b[2] = "(" /\ b[3] = "DELETE" /\ b[4] = "FROM" /\ b[5] = "t"
              /\ b[6] = "OUTPUT" /\ b[7] = "a" /\ b[8] = ")" /\ b[9] = "AS" /\ b[10] = "a"
         /\ Shape(b, 0, 0)
         /\ Depth(b, 3) = 1
<1>1. b \in Seq(Words)
  BY DEF Words
<1>2. Len(b) = 10 /\ DOMAIN b = 1 .. 10 /\ b[1] = "FROM" /\ b[2] = "(" /\ b[3] = "DELETE"
        /\ b[4] = "FROM" /\ b[5] = "t" /\ b[6] = "OUTPUT" /\ b[7] = "a" /\ b[8] = ")"
             /\ b[9] = "AS" /\ b[10] = "a"
  OBVIOUS
<1>3. Level(b, 0) = 0
  BY LevelZero
<1>4. Level(b, 0) = 0 /\ Level(b, 1) = 0 /\ Level(b, 2) = 1 /\ Level(b, 3) = 1 /\ Level(b, 4) = 1
        /\ Level(b, 5) = 1 /\ Level(b, 6) = 1 /\ Level(b, 7) = 1 /\ Level(b, 8) = 0
             /\ Level(b, 9) = 0 /\ Level(b, 10) = 0
  BY <1>2, <1>3, LevelAt
<1>5. Shape(b, 0, 0)
  BY <1>2, <1>4 DEF Shape
<1>6. Depth(b, 3) = 1
  <2>1. 2 \in Nat /\ 2 + 1 = 3
    OBVIOUS
  <2>2. b[2 + 1] # ")" => Depth(b, 2 + 1) = Level(b, 2)
    BY <2>1, DepthIs
  <2>. QED BY <1>2, <1>4, <2>1, <2>2
<1>. QED BY <1>1, <1>2, <1>5, <1>6

LEMMA GroupedBlock ==
  ASSUME NEW b, b = <<"(", "SELECT", "a", ")">>
  PROVE  /\ b \in Seq(Words) /\ Len(b) = 4 /\ DOMAIN b = 1 .. 4
         /\ b[1] = "(" /\ b[2] = "SELECT" /\ b[3] = "a" /\ b[4] = ")"
         /\ Shape(b, 0, 0)
         /\ Depth(b, 2) = 1
<1>1. b \in Seq(Words)
  BY DEF Words
<1>2. Len(b) = 4 /\ DOMAIN b = 1 .. 4 /\ b[1] = "(" /\ b[2] = "SELECT" /\ b[3] = "a" /\ b[4] = ")"
  OBVIOUS
<1>3. Level(b, 0) = 0
  BY LevelZero
<1>4. Level(b, 0) = 0 /\ Level(b, 1) = 1 /\ Level(b, 2) = 1 /\ Level(b, 3) = 1 /\ Level(b, 4) = 0
  BY <1>2, <1>3, LevelAt
<1>5. Shape(b, 0, 0)
  BY <1>2, <1>4 DEF Shape
<1>6. Depth(b, 2) = 1
  <2>1. 1 \in Nat /\ 1 + 1 = 2
    OBVIOUS
  <2>2. b[1 + 1] # ")" => Depth(b, 1 + 1) = Level(b, 1)
    BY <2>1, DepthIs
  <2>. QED BY <1>2, <1>4, <2>1, <2>2
<1>. QED BY <1>1, <1>2, <1>5, <1>6

(* A concatenation is the text it spells.                                  *)
LEMMA Concatenated ==
  ASSUME NEW a \in Seq(Words), NEW b \in Seq(Words), NEW c \in Seq(Words), Len(c) = Len(a) + Len(b),
         \A i \in 1 .. Len(a) : c[i] = a[i], \A i \in 1 .. Len(b) : c[Len(a) + i] = b[i]
  PROVE  a \o b = c
<1>1. a \o b \in Seq(Words) /\ Len(a \o b) = Len(c)
  OBVIOUS
<1>2. ASSUME NEW i \in 1 .. Len(c) PROVE (a \o b)[i] = c[i]
  <2>1. CASE i <= Len(a)
    BY <2>1
  <2>2. CASE i > Len(a)
    <3>. DEFINE k == i - Len(a)
    <3>1. k \in 1 .. Len(b) /\ i = Len(a) + k
      BY <2>2
    <3>. HIDE DEF k
    <3>. QED BY <3>1
  <2>. QED BY <2>1, <2>2
<1>. QED BY <1>1, <1>2, SeqEqual

(* The clauses that SqlTexts puts together from parts, as one text each.   *)
LEMMA WithHead ==
  <<"WITH">> \o <<"a">> \o <<"AS", "(">>
    = <<"WITH", "a", "AS", "(">>
<1>. DEFINE a == <<"WITH">>
            b == <<"a">>
            c == <<"WITH", "a">>
            d == <<"AS", "(">>
            e == <<"WITH", "a", "AS", "(">>
<1>1. a \in Seq(Words) /\ b \in Seq(Words) /\ c \in Seq(Words) /\ d \in Seq(Words)
        /\ e \in Seq(Words)
  BY DEF Words
<1>2. /\ Len(a) = 1 /\ a[1] = "WITH"
      /\ Len(b) = 1 /\ b[1] = "a"
      /\ Len(c) = 2 /\ c[1] = "WITH" /\ c[2] = "a"
      /\ Len(d) = 2 /\ d[1] = "AS" /\ d[2] = "("
      /\ Len(e) = 4 /\ e[1] = "WITH" /\ e[2] = "a" /\ e[3] = "AS" /\ e[4] = "("
  OBVIOUS
<1>. HIDE DEF a, b, c, d, e
<1>3. a \o b = c
  <2>1. \A i \in 1 .. Len(a) : c[i] = a[i]
    BY <1>2
  <2>2. \A i \in 1 .. Len(b) : c[Len(a) + i] = b[i]
    BY <1>2
  <2>3. Len(c) = Len(a) + Len(b)
    BY <1>2
  <2>. QED BY <1>1, <2>1, <2>2, <2>3, Concatenated
<1>4. c \o d = e
  <2>1. \A i \in 1 .. Len(c) : e[i] = c[i]
    BY <1>2
  <2>2. \A i \in 1 .. Len(d) : e[Len(c) + i] = d[i]
    BY <1>2
  <2>3. Len(e) = Len(c) + Len(d)
    BY <1>2
  <2>. QED BY <1>1, <2>1, <2>2, <2>3, Concatenated
<1>5. (a \o b) \o d = e
  BY <1>3, <1>4
<1>. QED BY <1>5 DEF a, b, d, e

LEMMA ColumnsHead ==
  <<"WITH">> \o <<Quoted, "(", "a", Comma, "a", ")">> \o <<"AS", "(">>
    = <<"WITH", Quoted, "(", "a", Comma, "a", ")", "AS", "(">>
<1>. DEFINE a == <<"WITH">>
            b == <<Quoted, "(", "a", Comma, "a", ")">>
            c == <<"WITH", Quoted, "(", "a", Comma, "a", ")">>
            d == <<"AS", "(">>
            e == <<"WITH", Quoted, "(", "a", Comma, "a", ")", "AS", "(">>
<1>1. a \in Seq(Words) /\ b \in Seq(Words) /\ c \in Seq(Words) /\ d \in Seq(Words)
        /\ e \in Seq(Words)
  BY DEF Words
<1>2. /\ Len(a) = 1 /\ a[1] = "WITH"
      /\ Len(b) = 6 /\ b[1] = Quoted /\ b[2] = "(" /\ b[3] = "a" /\ b[4] = Comma /\ b[5] = "a"
           /\ b[6] = ")"
      /\ Len(c) = 7 /\ c[1] = "WITH" /\ c[2] = Quoted /\ c[3] = "(" /\ c[4] = "a" /\ c[5] = Comma
           /\ c[6] = "a" /\ c[7] = ")"
      /\ Len(d) = 2 /\ d[1] = "AS" /\ d[2] = "("
      /\ Len(e) = 9 /\ e[1] = "WITH" /\ e[2] = Quoted /\ e[3] = "(" /\ e[4] = "a" /\ e[5] = Comma
           /\ e[6] = "a" /\ e[7] = ")" /\ e[8] = "AS" /\ e[9] = "("
  OBVIOUS
<1>. HIDE DEF a, b, c, d, e
<1>3. a \o b = c
  <2>1. \A i \in 1 .. Len(a) : c[i] = a[i]
    BY <1>2
  <2>2. \A i \in 1 .. Len(b) : c[Len(a) + i] = b[i]
    BY <1>2
  <2>3. Len(c) = Len(a) + Len(b)
    BY <1>2
  <2>. QED BY <1>1, <2>1, <2>2, <2>3, Concatenated
<1>4. c \o d = e
  <2>1. \A i \in 1 .. Len(c) : e[i] = c[i]
    BY <1>2
  <2>2. \A i \in 1 .. Len(d) : e[Len(c) + i] = d[i]
    BY <1>2
  <2>3. Len(e) = Len(c) + Len(d)
    BY <1>2
  <2>. QED BY <1>1, <2>1, <2>2, <2>3, Concatenated
<1>5. (a \o b) \o d = e
  BY <1>3, <1>4
<1>. QED BY <1>5 DEF a, b, d, e

LEMMA MergeIntoHead ==
  <<"MERGE">> \o <<"INTO">> \o <<"t", "USING", "t", "ON", "a">>
    = <<"MERGE", "INTO", "t", "USING", "t", "ON", "a">>
<1>. DEFINE a == <<"MERGE">>
            b == <<"INTO">>
            c == <<"MERGE", "INTO">>
            d == <<"t", "USING", "t", "ON", "a">>
            e == <<"MERGE", "INTO", "t", "USING", "t", "ON", "a">>
<1>1. a \in Seq(Words) /\ b \in Seq(Words) /\ c \in Seq(Words) /\ d \in Seq(Words)
        /\ e \in Seq(Words)
  BY DEF Words
<1>2. /\ Len(a) = 1 /\ a[1] = "MERGE"
      /\ Len(b) = 1 /\ b[1] = "INTO"
      /\ Len(c) = 2 /\ c[1] = "MERGE" /\ c[2] = "INTO"
      /\ Len(d) = 5 /\ d[1] = "t" /\ d[2] = "USING" /\ d[3] = "t" /\ d[4] = "ON" /\ d[5] = "a"
      /\ Len(e) = 7 /\ e[1] = "MERGE" /\ e[2] = "INTO" /\ e[3] = "t" /\ e[4] = "USING"
           /\ e[5] = "t" /\ e[6] = "ON" /\ e[7] = "a"
  OBVIOUS
<1>. HIDE DEF a, b, c, d, e
<1>3. a \o b = c
  <2>1. \A i \in 1 .. Len(a) : c[i] = a[i]
    BY <1>2
  <2>2. \A i \in 1 .. Len(b) : c[Len(a) + i] = b[i]
    BY <1>2
  <2>3. Len(c) = Len(a) + Len(b)
    BY <1>2
  <2>. QED BY <1>1, <2>1, <2>2, <2>3, Concatenated
<1>4. c \o d = e
  <2>1. \A i \in 1 .. Len(c) : e[i] = c[i]
    BY <1>2
  <2>2. \A i \in 1 .. Len(d) : e[Len(c) + i] = d[i]
    BY <1>2
  <2>3. Len(e) = Len(c) + Len(d)
    BY <1>2
  <2>. QED BY <1>1, <2>1, <2>2, <2>3, Concatenated
<1>5. (a \o b) \o d = e
  BY <1>3, <1>4
<1>. QED BY <1>5 DEF a, b, d, e

LEMMA MergeHead ==
  <<"MERGE">> \o <<>> \o <<"t", "USING", "t", "ON", "a">>
    = <<"MERGE", "t", "USING", "t", "ON", "a">>
<1>. DEFINE a == <<"MERGE">>
            b == <<>>
            c == <<"MERGE">>
            d == <<"t", "USING", "t", "ON", "a">>
            e == <<"MERGE", "t", "USING", "t", "ON", "a">>
<1>1. a \in Seq(Words) /\ b \in Seq(Words) /\ c \in Seq(Words) /\ d \in Seq(Words)
        /\ e \in Seq(Words)
  BY DEF Words
<1>2. /\ Len(a) = 1 /\ a[1] = "MERGE"
      /\ Len(b) = 0
      /\ Len(c) = 1 /\ c[1] = "MERGE"
      /\ Len(d) = 5 /\ d[1] = "t" /\ d[2] = "USING" /\ d[3] = "t" /\ d[4] = "ON" /\ d[5] = "a"
      /\ Len(e) = 6 /\ e[1] = "MERGE" /\ e[2] = "t" /\ e[3] = "USING" /\ e[4] = "t" /\ e[5] = "ON"
           /\ e[6] = "a"
  OBVIOUS
<1>. HIDE DEF a, b, c, d, e
<1>3. a \o b = c
  <2>1. \A i \in 1 .. Len(a) : c[i] = a[i]
    BY <1>2
  <2>2. \A i \in 1 .. Len(b) : c[Len(a) + i] = b[i]
    BY <1>2
  <2>3. Len(c) = Len(a) + Len(b)
    BY <1>2
  <2>. QED BY <1>1, <2>1, <2>2, <2>3, Concatenated
<1>4. c \o d = e
  <2>1. \A i \in 1 .. Len(c) : e[i] = c[i]
    BY <1>2
  <2>2. \A i \in 1 .. Len(d) : e[Len(c) + i] = d[i]
    BY <1>2
  <2>3. Len(e) = Len(c) + Len(d)
    BY <1>2
  <2>. QED BY <1>1, <2>1, <2>2, <2>3, Concatenated
<1>5. (a \o b) \o d = e
  BY <1>3, <1>4
<1>. QED BY <1>5 DEF a, b, d, e

LEMMA WhenUpdateHead ==
  <<"WHEN", "MATCHED", "THEN">> \o <<"UPDATE", "SET", "a", "a">>
    = <<"WHEN", "MATCHED", "THEN", "UPDATE", "SET", "a", "a">>
<1>. DEFINE a == <<"WHEN", "MATCHED", "THEN">>
            b == <<"UPDATE", "SET", "a", "a">>
            c == <<"WHEN", "MATCHED", "THEN", "UPDATE", "SET", "a", "a">>
<1>1. a \in Seq(Words) /\ b \in Seq(Words) /\ c \in Seq(Words)
  BY DEF Words
<1>2. /\ Len(a) = 3 /\ a[1] = "WHEN" /\ a[2] = "MATCHED" /\ a[3] = "THEN"
      /\ Len(b) = 4 /\ b[1] = "UPDATE" /\ b[2] = "SET" /\ b[3] = "a" /\ b[4] = "a"
      /\ Len(c) = 7 /\ c[1] = "WHEN" /\ c[2] = "MATCHED" /\ c[3] = "THEN" /\ c[4] = "UPDATE"
           /\ c[5] = "SET" /\ c[6] = "a" /\ c[7] = "a"
  OBVIOUS
<1>. HIDE DEF a, b, c
<1>3. a \o b = c
  <2>1. \A i \in 1 .. Len(a) : c[i] = a[i]
    BY <1>2
  <2>2. \A i \in 1 .. Len(b) : c[Len(a) + i] = b[i]
    BY <1>2
  <2>3. Len(c) = Len(a) + Len(b)
    BY <1>2
  <2>. QED BY <1>1, <2>1, <2>2, <2>3, Concatenated
<1>. QED BY <1>3 DEF a, b, c

LEMMA WhenDeleteHead ==
  <<"WHEN", "MATCHED", "THEN">> \o <<"DELETE">>
    = <<"WHEN", "MATCHED", "THEN", "DELETE">>
<1>. DEFINE a == <<"WHEN", "MATCHED", "THEN">>
            b == <<"DELETE">>
            c == <<"WHEN", "MATCHED", "THEN", "DELETE">>
<1>1. a \in Seq(Words) /\ b \in Seq(Words) /\ c \in Seq(Words)
  BY DEF Words
<1>2. /\ Len(a) = 3 /\ a[1] = "WHEN" /\ a[2] = "MATCHED" /\ a[3] = "THEN"
      /\ Len(b) = 1 /\ b[1] = "DELETE"
      /\ Len(c) = 4 /\ c[1] = "WHEN" /\ c[2] = "MATCHED" /\ c[3] = "THEN" /\ c[4] = "DELETE"
  OBVIOUS
<1>. HIDE DEF a, b, c
<1>3. a \o b = c
  <2>1. \A i \in 1 .. Len(a) : c[i] = a[i]
    BY <1>2
  <2>2. \A i \in 1 .. Len(b) : c[Len(a) + i] = b[i]
    BY <1>2
  <2>3. Len(c) = Len(a) + Len(b)
    BY <1>2
  <2>. QED BY <1>1, <2>1, <2>2, <2>3, Concatenated
<1>. QED BY <1>3 DEF a, b, c

LEMMA WhenInsertHead ==
  <<"WHEN", "MATCHED", "THEN">> \o <<"INSERT", "(", "a", ")", "VALUES", "(", "a", ")">>
    = <<"WHEN", "MATCHED", "THEN", "INSERT", "(", "a", ")", "VALUES", "(", "a", ")">>
<1>. DEFINE a == <<"WHEN", "MATCHED", "THEN">>
            b == <<"INSERT", "(", "a", ")", "VALUES", "(", "a", ")">>
            c == <<"WHEN", "MATCHED", "THEN", "INSERT", "(", "a", ")", "VALUES", "(", "a", ")">>
<1>1. a \in Seq(Words) /\ b \in Seq(Words) /\ c \in Seq(Words)
  BY DEF Words
<1>2. /\ Len(a) = 3 /\ a[1] = "WHEN" /\ a[2] = "MATCHED" /\ a[3] = "THEN"
      /\ Len(b) = 8 /\ b[1] = "INSERT" /\ b[2] = "(" /\ b[3] = "a" /\ b[4] = ")" /\ b[5] = "VALUES"
           /\ b[6] = "(" /\ b[7] = "a" /\ b[8] = ")"
      /\ Len(c) = 11 /\ c[1] = "WHEN" /\ c[2] = "MATCHED" /\ c[3] = "THEN" /\ c[4] = "INSERT"
           /\ c[5] = "(" /\ c[6] = "a" /\ c[7] = ")" /\ c[8] = "VALUES" /\ c[9] = "("
                /\ c[10] = "a" /\ c[11] = ")"
  OBVIOUS
<1>. HIDE DEF a, b, c
<1>3. a \o b = c
  <2>1. \A i \in 1 .. Len(a) : c[i] = a[i]
    BY <1>2
  <2>2. \A i \in 1 .. Len(b) : c[Len(a) + i] = b[i]
    BY <1>2
  <2>3. Len(c) = Len(a) + Len(b)
    BY <1>2
  <2>. QED BY <1>1, <2>1, <2>2, <2>3, Concatenated
<1>. QED BY <1>3 DEF a, b, c

-----------------------------------------------------------------------------
(***************************************************************************)
(* What every step keeps: types, how statements are counted, what is open, *)
(* and what breaks a text.                                                 *)
(***************************************************************************)

(* Every step writes tokens after the text.                                *)
Grows == \E b \in Seq(Tokens) : text' = text \o b

(* Writing a clause.                                                       *)
LEMMA WriteTyped ==
  ASSUME Typed, NEW b \in Seq(Words), NEW clause \in Clauses, Write(b, clause)
  PROVE  text' \in Seq(Tokens) /\ at' \in Clauses /\ Grows
<1>1. text' = text \o b /\ at' = clause /\ text \in Seq(Tokens)
  BY DEF Write, Typed
<1>2. b \in Seq(Tokens)
  BY DEF Tokens
<1>. QED BY <1>1, <1>2 DEF Grows

(* A clause keeps the types.                                               *)
LEMMA ClauseTyped ==
  ASSUME Typed, NEW b \in Seq(Words), NEW clause \in Clauses, Clause(b, clause)
  PROVE  Typed' /\ Grows
BY WriteTyped DEF Clause, Typed

(* So does a statement,                                                    *)
LEMMA BeginTyped ==
  ASSUME Typed, NEW statement \in Kinds, NEW b \in Seq(Words),
         NEW clause \in Clauses, Begin(statement, b, clause)
  PROVE  Typed' /\ Grows
<1>1. text' \in Seq(Tokens) /\ at' \in Clauses /\ Grows
  BY WriteTyped DEF Begin
<1>2. statements' \in Seq(Kinds)
  <2>1. statements \in Seq(Kinds) /\ statements' = Append(statements, statement)
    BY DEF Begin, Typed
  <2>. QED BY <2>1
<1>3. changes' \in Nat /\ open' \in Seq(Afters)
        /\ nested' \in Nat /\ enclosed' \in BOOLEAN /\ grouped' \in Nat
  BY DEF Begin, Typed
<1>. QED BY <1>1, <1>2, <1>3 DEF Typed

(* and so does a parenthesis.                                              *)
LEMMA NestTyped ==
  ASSUME Typed, NEW b \in Seq(Words), NEW then \in Afters, Nest(b, then)
  PROVE  Typed' /\ Grows
<1>1. "query" \in Clauses
  BY DEF Clauses
<1>2. text' \in Seq(Tokens) /\ at' \in Clauses /\ Grows
  BY <1>1, WriteTyped DEF Nest
<1>3. open' \in Seq(Afters)
  BY DEF Nest, Typed
<1>. QED BY <1>2, <1>3 DEF Nest, Typed

(* A closing parenthesis is a word.                                        *)
LEMMA CloseTyped == <<")">> \in Seq(Words)
BY DEF Words

(* The separators are tokens.                                              *)
LEMMA SeparatorTyped == <<Semicolon>> \in Seq(Tokens) /\ <<"GO">> \in Seq(Tokens)
BY DEF Tokens

(* The names of what follows a parenthesis,                                *)
LEMMA AfterNames ==
  "sourced" \in Afters /\ "filtered" \in Afters /\ "finished" \in Afters /\ "defined" \in Afters
BY DEF Afters

(* of the clauses,                                                         *)
LEMMA ClauseNames ==
  /\ "start" \in Clauses /\ "selected" \in Clauses /\ "sourced" \in Clauses
       /\ "filtered" \in Clauses
  /\ "changed" \in Clauses /\ "returned" \in Clauses /\ "merged" \in Clauses
       /\ "finished" \in Clauses
  /\ "inserting" \in Clauses /\ "output" \in Clauses /\ "merging" \in Clauses
  /\ "query" \in Clauses /\ "defined" \in Clauses
BY DEF Clauses, QueryEnds, StatementEnds, ChangeClauses, Inserting, Merging

(* and of the statements.                                                  *)
LEMMA StatementNames ==
  /\ Reading \in Kinds /\ Other \in Kinds
  /\ "INSERT" \in Kinds /\ "UPDATE" \in Kinds
  /\ "DELETE" \in Kinds /\ "MERGE" \in Kinds
BY DEF Kinds, Writing, WriteKeywords

(* The parenthesis that is closed first.                                   *)
LEMMA LastOpen ==
  ASSUME Typed, open # <<>>
  PROVE  /\ Last(open) \in Afters /\ Front(open) \in Seq(Afters) /\ Len(Front(open)) = Len(open) - 1
         /\ \A k \in 1 .. Len(open) - 1 : Front(open)[k] = open[k]
         /\ Len(open) \in Nat /\ Len(open) >= 1
<1>1. open \in Seq(Afters)
  BY DEF Typed
<1>2. Len(open) \in Nat /\ Len(open) >= 1
  BY <1>1
<1>3. Last(open) \in Afters
  BY <1>1, <1>2 DEF Last
<1>4. /\ Front(open) \in Seq(Afters) /\ Len(Front(open)) = Len(open) - 1
      /\ \A k \in 1 .. Len(open) - 1 : Front(open)[k] = open[k]
  <2>. DEFINE n == Len(open)
              m == n - 1
              f == SubSeq(open, 1, m)
  <2>1. n \in Nat /\ n >= 1 /\ m \in Int /\ 0 <= m /\ m <= n
    BY <1>2
  <2>2. \A k \in 1 .. m : open[k] \in Afters
    BY <1>1, <2>1
  <2>. HIDE DEF m, n
  <2>3. /\ f \in Seq(Afters) /\ Len(f) = IF 1 <= m THEN m - 1 + 1 ELSE 0
        /\ \A k \in 1 .. m - 1 + 1 : f[k] = open[1 + k - 1]
    BY <2>1, <2>2, SubSeqProperties
  <2>4. Len(f) = m /\ \A k \in 1 .. m : f[k] = open[k]
    <3>. HIDE DEF f
    <3>. QED BY <2>1, <2>3
  <2>5. Front(open) = f
    BY DEF Front, n, m
  <2>. HIDE DEF f
  <2>. QED BY <2>3, <2>4, <2>5 DEF n, m
<1>. QED BY <1>2, <1>3, <1>4

(* Every action keeps the types and adds to the text.                      *)
LEMMA TypedNext ==
  ASSUME Typed, Nesting, Next
  PROVE  Typed' /\ Grows
<1>. USE ClauseNames, StatementNames, AfterNames
<1>1. CASE Select
  <2>1. <<"SELECT", String, "AS", Quoted>> \in Seq(Words)
    BY SelectBlock
  <2>2. <<"SELECT", "a">> \in Seq(Words)
    BY SelectNextBlock
  <2>. QED BY <1>1, <2>1, <2>2, BeginTyped, ClauseTyped DEF Select
<1>2. CASE SelectInto
  <2>1. <<"INTO", "t">> \in Seq(Words)
    BY IntoBlock
  <2>2. Write(<<"INTO", "t">>, "selected")
    BY <1>2 DEF SelectInto
  <2>3. text' \in Seq(Tokens) /\ at' \in Clauses /\ Grows
    BY <2>1, <2>2, WriteTyped
  <2>4. open' = open /\ statements' = statements /\ changes' = changes + 1
    BY <1>2 DEF SelectInto
  <2>5. open' \in Seq(Afters) /\ statements' \in Seq(Kinds)
    BY <2>4 DEF Typed
  <2>6. changes' \in Nat /\ nested' \in Nat /\ enclosed' \in BOOLEAN /\ grouped' \in Nat
    BY <1>2 DEF SelectInto, Typed
  <2>. QED BY <2>3, <2>5, <2>6 DEF Typed
<1>3. CASE From
  <2>1. <<"FROM", "t">> \in Seq(Words)
    BY FromBlock
  <2>. QED BY <1>3, <2>1, ClauseTyped DEF From
<1>4. CASE FromQuery
  <2>1. <<"FROM", "(">> \in Seq(Words)
    BY FromQueryBlock
  <2>. QED BY <1>4, <2>1, NestTyped DEF FromQuery
<1>5. CASE WhereQuery
  <2>1. <<"WHERE", "a", "IN", "(">> \in Seq(Words)
    BY WhereBlock
  <2>. QED BY <1>5, <2>1, NestTyped DEF WhereQuery
<1>6. CASE SetOperation
  <2>1. <<"UNION">> \in Seq(Words)
    BY UnionBlock
  <2>2. <<"UNION", "ALL">> \in Seq(Words)
    BY UnionAllBlock
  <2>. QED BY <1>6, <2>1, <2>2, ClauseTyped DEF SetOperation
<1>7. CASE QueryInParentheses
  <2>1. <<"(">> \in Seq(Words)
    BY ParenthesisBlock
  <2>. QED BY <1>7, <2>1, NestTyped DEF QueryInParentheses
<1>8. CASE Close
  <2>1. <<")">> \in Seq(Words)
    BY CloseTyped
  <2>2. open # <<>> /\ Write(<<")">>, Last(open)) /\ open' = Front(open)
          /\ UNCHANGED <<statements, changes, nested, enclosed, grouped>>
    BY <1>8 DEF Close
  <2>3. Last(open) \in Clauses /\ Front(open) \in Seq(Afters)
    BY <2>2, LastOpen DEF Afters
  <2>4. text' \in Seq(Tokens) /\ at' \in Clauses /\ Grows
    BY <2>1, <2>2, <2>3, WriteTyped
  <2>. QED BY <2>2, <2>3, <2>4 DEF Typed
<1>9. CASE Option
  <2>1. <<"OPTION", "(", "MAXDOP", "a", Comma, "USE", "HINT", "(", String, ")", ")">> \in Seq(Words)
    BY OptionBlock
  <2>. QED BY <1>9, <2>1, ClauseTyped DEF Option
<1>10. CASE With
  <2>1. <<"WITH", "a", "AS", "(">> \in Seq(Words)
    BY WithBlock
  <2>2. <<"WITH", Quoted, "(", "a", Comma, "a", ")", "AS", "(">> \in Seq(Words)
    BY ColumnsBlock
  <2>3. <<"WITH", "XMLNAMESPACES", "(", String, "AS", "a", ")">> \in Seq(Words)
    BY NamespacesBlock
  <2>4. CASE \E head \in {<<"a">>, <<Quoted, "(", "a", Comma, "a", ")">>} :
               Nest(<<"WITH">> \o head \o <<"AS", "(">>, "defined")
    <3>1. PICK head \in {<<"a">>, <<Quoted, "(", "a", Comma, "a", ")">>} :
               Nest(<<"WITH">> \o head \o <<"AS", "(">>, "defined")
      BY <2>4
    <3>2. <<"WITH">> \o head \o <<"AS", "(">> \in Seq(Words)
      BY <2>1, <2>2, WithHead, ColumnsHead
    <3>. HIDE DEF Words
    <3>. QED BY <3>1, <3>2, NestTyped
  <2>5. CASE Clause(<<"WITH", "XMLNAMESPACES", "(", String, "AS", "a", ")">>, "defined")
    BY <2>3, <2>5, ClauseTyped
  <2>. QED BY <1>10, <2>4, <2>5 DEF With
<1>11. CASE AndWith
  <2>1. <<Comma, "a", "AS", "(">> \in Seq(Words)
    BY AndWithBlock
  <2>. QED BY <1>11, <2>1, NestTyped DEF AndWith
<1>12. CASE Insert
  <2>1. <<"INSERT", "INTO", "t", "(", "a", ")">> \in Seq(Words)
    BY InsertBlock
  <2>. QED BY <1>12, <2>1, BeginTyped DEF Insert
<1>13. CASE InsertValues
  <2>1. <<"VALUES", "(", "a", ")">> \in Seq(Words)
    BY ValuesBlock
  <2>. QED BY <1>13, <2>1, ClauseTyped DEF InsertValues
<1>14. CASE InsertQuery
  <2>1. <<"SELECT", "a">> \in Seq(Words)
    BY SelectNextBlock
  <2>. QED BY <1>14, <2>1, ClauseTyped DEF InsertQuery
<1>15. CASE Update
  <2>1. <<"UPDATE", "t", "SET", "a", "a">> \in Seq(Words)
    BY UpdateBlock
  <2>. QED BY <1>15, <2>1, BeginTyped DEF Update
<1>16. CASE Delete
  <2>1. <<"DELETE", "FROM", "t">> \in Seq(Words)
    BY DeleteBlock
  <2>. QED BY <1>16, <2>1, BeginTyped DEF Delete
<1>17. CASE Merge
  <2>1. <<"MERGE", "INTO", "t", "USING", "t", "ON", "a">> \in Seq(Words)
    BY MergeIntoBlock
  <2>2. <<"MERGE", "t", "USING", "t", "ON", "a">> \in Seq(Words)
    BY MergeBlock
  <2>. QED BY <1>17, <2>1, <2>2, BeginTyped, MergeIntoHead, MergeHead DEF Merge
<1>18. CASE MergeWhen
  <2>1. <<"WHEN", "MATCHED", "THEN", "UPDATE", "SET", "a", "a">> \in Seq(Words)
    BY WhenUpdateBlock
  <2>2. <<"WHEN", "MATCHED", "THEN", "DELETE">> \in Seq(Words)
    BY WhenDeleteBlock
  <2>3. <<"WHEN", "MATCHED", "THEN", "INSERT", "(", "a", ")", "VALUES", "(", "a",
          ")">> \in Seq(Words)
    BY WhenInsertBlock
  <2>. QED BY <1>18, <2>1, <2>2, <2>3, ClauseTyped, WhenUpdateHead, WhenDeleteHead, WhenInsertHead
              DEF MergeWhen
<1>19. CASE Output
  <2>1. <<"OUTPUT", "a">> \in Seq(Words)
    BY OutputBlock
  <2>2. <<"OUTPUT", "a", "INTO", "t">> \in Seq(Words)
    BY OutputIntoBlock
  <2>. QED BY <1>19, <2>1, <2>2, ClauseTyped DEF Output
<1>20. CASE OtherStatement
  <2>1. <<"EXEC", "a">> \in Seq(Words)
    BY ExecBlock
  <2>2. <<"USE", "a">> \in Seq(Words)
    BY UseBlock
  <2>3. <<"SET", "a", "a">> \in Seq(Words)
    BY SetBlock
  <2>. QED BY <1>20, <2>1, <2>2, <2>3, BeginTyped DEF OtherStatement
<1>21. CASE InsertExec
  <2>1. <<"EXEC", "a">> \in Seq(Words)
    BY ExecBlock
  <2>2. Write(<<"EXEC", "a">>, "finished")
    BY <1>21 DEF InsertExec
  <2>3. text' \in Seq(Tokens) /\ at' \in Clauses /\ Grows
    BY <2>1, <2>2, WriteTyped
  <2>4. open' = open /\ statements' = statements /\ changes' = changes + 1
    BY <1>21 DEF InsertExec
  <2>5. open' \in Seq(Afters) /\ statements' \in Seq(Kinds)
    BY <2>4 DEF Typed
  <2>6. changes' \in Nat /\ nested' \in Nat /\ enclosed' \in BOOLEAN /\ grouped' \in Nat
    BY <1>21 DEF InsertExec, Typed
  <2>. QED BY <2>3, <2>5, <2>6 DEF Typed
<1>22. CASE Separate
  <2>1. PICK separator \in {Semicolon, "GO"} : Clause(<<separator>>, "start")
    BY <1>22 DEF Separate
  <2>2. <<separator>> \in Seq(Tokens) /\ text \in Seq(Tokens)
    BY SeparatorTyped DEF Typed
  <2>3. text' = text \o <<separator>> /\ at' = "start"
    BY <2>1 DEF Clause, Write
  <2>4. text' \in Seq(Tokens)
    <3>. DEFINE b == <<separator>>
    <3>1. b \in Seq(Tokens) /\ text' = text \o b
      BY <2>2, <2>3
    <3>. HIDE DEF b
    <3>. QED BY <2>2, <3>1
  <2>. QED BY <2>1, <2>3, <2>4, <2>2 DEF Clause, Typed, Grows
<1>23. CASE FromChange
  <2>1. <<"FROM", "(", "DELETE", "FROM", "t", "OUTPUT", "a", ")", "AS", "a">> \in Seq(Words)
    BY FromChangeBlock
  <2>2. text' \in Seq(Tokens) /\ at' \in Clauses /\ Grows
    BY <1>23, <2>1, WriteTyped DEF FromChange
  <2>. QED BY <1>23, <2>2 DEF FromChange, Typed
<1>24. CASE InsertQueryInParentheses
  <2>1. <<"(">> \in Seq(Words)
    BY ParenthesisBlock
  <2>2. text' \in Seq(Tokens) /\ at' \in Clauses /\ Grows
    BY <1>24, <2>1, WriteTyped DEF InsertQueryInParentheses
  <2>3. open' \in Seq(Afters)
    BY <1>24 DEF InsertQueryInParentheses, Typed
  <2>. QED BY <1>24, <2>2, <2>3 DEF InsertQueryInParentheses, Typed
<1>25. CASE GroupedQuery
  <2>1. <<"(", "SELECT", "a", ")">> \in Seq(Words)
    BY GroupedBlock
  <2>2. text' \in Seq(Tokens) /\ at' \in Clauses /\ Grows
    BY <1>25, <2>1, WriteTyped DEF GroupedQuery
  <2>. QED BY <1>25, <2>2 DEF GroupedQuery, Typed
<1>. QED BY <1>1, <1>2, <1>3, <1>4, <1>5, <1>6, <1>7, <1>8, <1>9, <1>10, <1>11, <1>12, <1>13,
            <1>14, <1>15, <1>16, <1>17, <1>18, <1>19, <1>20, <1>21, <1>22, <1>23, <1>24,
            <1>25 DEF Next

(* Statements are only added, one at a time.                               *)
Adds == \E statement \in Kinds : statements' = Append(statements, statement)

(* Every action adds one statement or none.                                *)
LEMMA StatementsNext ==
  ASSUME Next
  PROVE  statements' = statements \/ Adds
<1>. USE StatementNames
<1>1. CASE Select
  BY <1>1 DEF Select, Begin, Clause, Adds
<1>2. CASE SelectInto
  BY <1>2 DEF SelectInto
<1>3. CASE From
  BY <1>3 DEF From, Clause
<1>4. CASE FromQuery
  BY <1>4 DEF FromQuery, Nest
<1>5. CASE WhereQuery
  BY <1>5 DEF WhereQuery, Nest
<1>6. CASE SetOperation
  BY <1>6 DEF SetOperation, Clause
<1>7. CASE QueryInParentheses
  BY <1>7 DEF QueryInParentheses, Nest
<1>8. CASE Close
  BY <1>8 DEF Close
<1>9. CASE Option
  BY <1>9 DEF Option, Clause
<1>10. CASE With
  BY <1>10 DEF With, Nest, Clause
<1>11. CASE AndWith
  BY <1>11 DEF AndWith, Nest
<1>12. CASE Insert
  BY <1>12 DEF Insert, Begin, Adds
<1>13. CASE InsertValues
  BY <1>13 DEF InsertValues, Clause
<1>14. CASE InsertQuery
  BY <1>14 DEF InsertQuery, Clause
<1>15. CASE Update
  BY <1>15 DEF Update, Begin, Adds
<1>16. CASE Delete
  BY <1>16 DEF Delete, Begin, Adds
<1>17. CASE Merge
  BY <1>17 DEF Merge, Begin, Adds
<1>18. CASE MergeWhen
  BY <1>18 DEF MergeWhen, Clause
<1>19. CASE Output
  BY <1>19 DEF Output, Clause
<1>20. CASE OtherStatement
  BY <1>20 DEF OtherStatement, Begin, Adds
<1>21. CASE InsertExec
  BY <1>21 DEF InsertExec
<1>22. CASE Separate
  BY <1>22 DEF Separate, Clause
<1>23. CASE FromChange
  BY <1>23 DEF FromChange
<1>24. CASE InsertQueryInParentheses
  BY <1>24 DEF InsertQueryInParentheses
<1>25. CASE GroupedQuery
  BY <1>25 DEF GroupedQuery
<1>. QED BY <1>1, <1>2, <1>3, <1>4, <1>5, <1>6, <1>7, <1>8, <1>9, <1>10, <1>11, <1>12, <1>13,
            <1>14, <1>15, <1>16, <1>17, <1>18, <1>19, <1>20, <1>21, <1>22, <1>23, <1>24,
            <1>25 DEF Next

(* The first statement stays the first.                                    *)
LEMMA OneMore ==
  ASSUME Typed, Typed', Next
  PROVE  /\ Len(statements) \in Nat /\ Len(statements') \in Nat
         /\ statements' # statements => Len(statements') = Len(statements) + 1
         /\ Len(statements) >= 1 => First' = First
<1>1. statements \in Seq(Kinds) /\ statements' \in Seq(Kinds)
  BY DEF Typed
<1>2. CASE statements' = statements
  BY <1>1, <1>2 DEF First
<1>3. CASE Adds
  <2>1. PICK statement \in Kinds : statements' = Append(statements, statement)
    BY <1>3 DEF Adds
  <2>2. Len(statements') = Len(statements) + 1
    BY <1>1, <2>1
  <2>3. Len(statements) >= 1 => statements'[1] = statements[1]
    BY <1>1, <2>1
  <2>. QED BY <1>1, <2>2, <2>3 DEF First
<1>. QED BY <1>2, <1>3, StatementsNext

(* A clause keeps Nesting,                                                 *)
LEMMA ClauseNests ==
  ASSUME Typed, Nesting, NEW b, NEW clause, Clause(b, clause),
         open # <<>> => clause \in QueryEnds \cup {"query"}
  PROVE  Nesting'
BY DEF Clause, Write, Nesting

(* so does a parenthesis,                                                  *)
LEMMA NestNests ==
  ASSUME Typed, Nesting, NEW then, at' = "query", open' = Append(open, then),
         open # <<>> => then \in {"sourced", "filtered"}
  PROVE  Nesting'
<1>1. open \in Seq(Afters)
  BY DEF Typed
<1>2. Len(open') = Len(open) + 1 /\ Len(open) \in Nat
  BY <1>1
<1>3. ASSUME NEW k \in 2 .. Len(open') PROVE open'[k] \in {"sourced", "filtered"}
  <2>1. open # <<>>
    BY <1>2
  <2>2. CASE k = Len(open) + 1
    <3>1. open'[k] = then
      BY <1>1, <2>2
    <3>. QED BY <2>1, <3>1
  <2>3. CASE k # Len(open) + 1
    <3>1. k \in 2 .. Len(open) /\ k \in 1 .. Len(open)
      BY <1>2, <2>3
    <3>2. open'[k] = open[k]
      BY <1>1, <3>1
    <3>. QED BY <2>1, <3>1, <3>2 DEF Nesting
  <2>. QED BY <2>2, <2>3
<1>. QED BY <1>3 DEF Nesting

(* and so does a statement.                                                *)
LEMMA BeginNests ==
  ASSUME NEW statement, NEW b, NEW clause, Begin(statement, b, clause)
  PROVE  Nesting'
BY DEF Begin, Nesting

(* Every action keeps Nesting.                                             *)
LEMMA NestingNext ==
  ASSUME Typed, Nesting, Next
  PROVE  Nesting'
<1>1. CASE Select
  <2>1. CASE Begin(Reading, <<"SELECT", String, "AS", Quoted>>, "selected")
    BY <2>1, BeginNests
  <2>2. CASE at = "query" /\ Clause(<<"SELECT", "a">>, "selected")
    <3>1. "selected" \in QueryEnds
      BY DEF QueryEnds
    <3>. QED BY <2>2, <3>1, ClauseNests
  <2>. QED BY <1>1, <2>1, <2>2 DEF Select
<1>2. CASE SelectInto
  BY <1>2 DEF SelectInto, Nesting
<1>3. CASE From
  BY <1>3, ClauseNests DEF From, QueryEnds
<1>4. CASE FromQuery
  BY <1>4, NestNests DEF FromQuery, Nest, Write
<1>5. CASE WhereQuery
  <2>1. CASE at = "sourced" /\ Nest(<<"WHERE", "a", "IN", "(">>, "filtered")
    BY <2>1, NestNests DEF Nest, Write
  <2>2. CASE at \in {"changed", "returned"} /\ Nest(<<"WHERE", "a", "IN", "(">>, "finished")
    <3>1. open = <<>>
      BY <2>2 DEF Nesting, QueryEnds
    <3>. QED BY <2>2, <3>1, NestNests DEF Nest, Write
  <2>. QED BY <1>5, <2>1, <2>2 DEF WhereQuery
<1>6. CASE SetOperation
  BY <1>6, ClauseNests DEF SetOperation
<1>7. CASE QueryInParentheses
  BY <1>7, NestNests DEF QueryInParentheses, Nest, Write
<1>8. CASE Close
  <2>1. open # <<>> /\ at' = Last(open) /\ open' = Front(open)
    BY <1>8 DEF Close, Write
  <2>2. /\ Len(open') = Len(open) - 1 /\ Len(open) \in Nat /\ Len(open) >= 1
        /\ \A k \in 1 .. Len(open) - 1 : open'[k] = open[k]
    BY <2>1, LastOpen
  <2>3. \A k \in 2 .. Len(open') : open'[k] \in {"sourced", "filtered"}
    <3>1. \A k \in 2 .. Len(open') : k \in 2 .. Len(open) /\ k \in 1 .. Len(open) - 1
      BY <2>2
    <3>. QED BY <2>1, <2>2, <3>1 DEF Nesting
  <2>4. open' # <<>> => at' \in {"sourced", "filtered"}
    <3>. SUFFICES ASSUME open' # <<>> PROVE at' \in {"sourced", "filtered"}
      OBVIOUS
    <3>1. open' \in Seq(Afters)
      BY <2>1, LastOpen
    <3>2. Len(open') # 0
      BY <3>1
    <3>3. Len(open) \in 2 .. Len(open)
      BY <2>2, <3>2
    <3>. QED BY <2>1, <3>3 DEF Nesting, Last
  <2>. QED BY <2>3, <2>4 DEF Nesting, QueryEnds
<1>9. CASE Option
  <2>1. open = <<>>
    BY <1>9 DEF Option
  <2>. QED BY <1>9, <2>1, ClauseNests DEF Option
<1>10. CASE With
  <2>1. open = <<>>
    BY <1>10 DEF With
  <2>. QED BY <1>10, <2>1, NestNests, ClauseNests DEF With, Nest, Write
<1>11. CASE AndWith
  <2>1. open = <<>>
    BY <1>11 DEF AndWith, Nesting, QueryEnds
  <2>. QED BY <1>11, <2>1, NestNests DEF AndWith, Nest, Write
<1>12. CASE Insert
  BY <1>12, BeginNests DEF Insert
<1>13. CASE InsertValues
  <2>1. open = <<>>
    BY <1>13 DEF InsertValues, Nesting, QueryEnds
  <2>. QED BY <1>13, <2>1, ClauseNests DEF InsertValues
<1>14. CASE InsertQuery
  <2>1. open = <<>>
    BY <1>14 DEF InsertQuery, Nesting, QueryEnds
  <2>. QED BY <1>14, <2>1, ClauseNests DEF InsertQuery
<1>15. CASE Update
  BY <1>15, BeginNests DEF Update
<1>16. CASE Delete
  BY <1>16, BeginNests DEF Delete
<1>17. CASE Merge
  BY <1>17, BeginNests DEF Merge
<1>18. CASE MergeWhen
  <2>1. open = <<>>
    BY <1>18 DEF MergeWhen, Nesting, QueryEnds
  <2>. QED BY <1>18, <2>1, ClauseNests DEF MergeWhen
<1>19. CASE Output
  <2>1. open = <<>>
    BY <1>19 DEF Output, Nesting, QueryEnds
  <2>. QED BY <1>19, <2>1, ClauseNests DEF Output
<1>20. CASE OtherStatement
  BY <1>20, BeginNests DEF OtherStatement
<1>21. CASE InsertExec
  <2>1. open = <<>> /\ open' = open
    BY <1>21 DEF InsertExec, Nesting, QueryEnds
  <2>. QED BY <2>1 DEF Nesting
<1>22. CASE Separate
  <2>1. open = <<>>
    BY <1>22 DEF Separate
  <2>. QED BY <1>22, <2>1, ClauseNests DEF Separate
<1>23. CASE FromChange
  BY <1>23 DEF FromChange, Write, Nesting, QueryEnds
<1>24. CASE InsertQueryInParentheses
  BY <1>24, NestNests DEF InsertQueryInParentheses, Write
<1>25. CASE GroupedQuery
  BY <1>25 DEF GroupedQuery, Write, Nesting
<1>. QED BY <1>1, <1>2, <1>3, <1>4, <1>5, <1>6, <1>7, <1>8, <1>9, <1>10, <1>11, <1>12, <1>13,
            <1>14, <1>15, <1>16, <1>17, <1>18, <1>19, <1>20, <1>21, <1>22, <1>23, <1>24,
            <1>25 DEF Next

(* A clause keeps Counted,                                                 *)
LEMMA ClauseCounts ==
  ASSUME Typed, Counted, NEW b, NEW clause, Clause(b, clause),
         clause \in ChangeClauses => at \in ChangeClauses
  PROVE  Counted'
<1>1. at' = clause /\ statements' = statements /\ changes' = changes /\ nested' = nested /\ enclosed' = enclosed
  BY DEF Clause, Write
<1>2. First' = First
  BY <1>1 DEF First
<1>. QED BY <1>1, <1>2 DEF Counted

(* so does a parenthesis,                                                  *)
LEMMA NestCounts ==
  ASSUME Typed, Counted, NEW b, NEW then, Nest(b, then)
  PROVE  Counted'
<1>1. at' = "query" /\ statements' = statements /\ changes' = changes /\ nested' = nested /\ enclosed' = enclosed
  BY DEF Nest, Write
<1>2. First' = First /\ "query" \notin ChangeClauses
  BY <1>1 DEF First, ChangeClauses, Inserting, Merging
<1>. QED BY <1>1, <1>2 DEF Counted

(* and so does a statement.                                                *)
LEMMA BeginCounts ==
  ASSUME Typed, Counted, NEW statement \in Kinds, NEW b, NEW clause, Begin(statement, b, clause),
         clause \in ChangeClauses => statement # Reading
  PROVE  Counted'
<1>1. /\ at' = clause /\ statements' = Append(statements, statement)
      /\ changes' = IF statement = Reading THEN changes ELSE changes + 1
  BY DEF Begin, Write
<1>2. statements \in Seq(Kinds) /\ changes \in Nat
  BY DEF Typed
<1>3. statements' # <<>>
  BY <1>1, <1>2
<1>4. CASE statement # Reading
  <2>1. changes' >= 1
    BY <1>1, <1>2, <1>4
  <2>. QED BY <1>3, <2>1 DEF Counted
<1>5. CASE statement = Reading
  <2>1. First' # Reading => statements # <<>> /\ First # Reading
    <3>1. CASE statements = <<>>
      <4>1. First' = Reading
        BY <1>1, <1>2, <1>5, <3>1 DEF First
      <4>. QED BY <4>1
    <3>2. CASE statements # <<>>
      <4>1. First' = First
        BY <1>1, <1>2, <3>2 DEF First
      <4>. QED BY <3>2, <4>1
    <3>. QED BY <3>1, <3>2
  <2>2. changes' = changes /\ at' \notin ChangeClauses
    BY <1>1, <1>5
  <2>. QED BY <1>3, <2>1, <2>2 DEF Counted
<1>. QED BY <1>4, <1>5

(* Every action keeps Counted.                                             *)
LEMMA CountedNext ==
  ASSUME Typed, Nesting, Counted, Next
  PROVE  Counted'
<1>. USE StatementNames
<1>1. CASE Select
  BY <1>1, BeginCounts, ClauseCounts DEF Select, ChangeClauses, Inserting, Merging
<1>2. CASE SelectInto
  <2>1. changes' = changes + 1 /\ changes \in Nat /\ at' = "selected" /\ statements' = statements
    BY <1>2 DEF SelectInto, Write, Typed
  <2>2. changes' >= 1
    BY <2>1
  <2>. QED BY <2>1, <2>2 DEF Counted, ChangeClauses, Inserting, Merging
<1>3. CASE From
  BY <1>3, ClauseCounts DEF From, ChangeClauses, Inserting, Merging
<1>4. CASE FromQuery
  BY <1>4, NestCounts DEF FromQuery
<1>5. CASE WhereQuery
  BY <1>5, NestCounts DEF WhereQuery
<1>6. CASE SetOperation
  BY <1>6, ClauseCounts DEF SetOperation, ChangeClauses, Inserting, Merging
<1>7. CASE QueryInParentheses
  BY <1>7, NestCounts DEF QueryInParentheses
<1>8. CASE Close
  <2>1. statements' = statements /\ changes' = changes /\ nested' = nested /\ enclosed' = enclosed /\ at' \in Afters
    <3>1. open # <<>> /\ at' = Last(open)
      BY <1>8 DEF Close, Write
    <3>2. Last(open) \in Afters
      BY <3>1, LastOpen
    <3>. QED BY <1>8, <3>1, <3>2 DEF Close
  <2>2. First' = First /\ at' \notin ChangeClauses
    BY <2>1 DEF First, Afters, ChangeClauses, Inserting, Merging
  <2>. QED BY <2>1, <2>2 DEF Counted
<1>9. CASE Option
  BY <1>9, ClauseCounts DEF Option, ChangeClauses, Inserting, Merging
<1>10. CASE With
  BY <1>10, NestCounts, ClauseCounts DEF With, ChangeClauses, Inserting, Merging
<1>11. CASE AndWith
  BY <1>11, NestCounts DEF AndWith
<1>12. CASE Insert
  BY <1>12, BeginCounts DEF Insert, Reading
<1>13. CASE InsertValues
  BY <1>13, ClauseCounts DEF InsertValues, ChangeClauses, Inserting, Merging
<1>14. CASE InsertQuery
  BY <1>14, ClauseCounts DEF InsertQuery, ChangeClauses, Inserting, Merging
<1>15. CASE Update
  BY <1>15, BeginCounts DEF Update, Reading
<1>16. CASE Delete
  BY <1>16, BeginCounts DEF Delete, Reading
<1>17. CASE Merge
  BY <1>17, BeginCounts DEF Merge, Reading
<1>18. CASE MergeWhen
  BY <1>18, ClauseCounts DEF MergeWhen, ChangeClauses, Inserting, Merging
<1>19. CASE Output
  BY <1>19, ClauseCounts DEF Output, ChangeClauses, Inserting, Merging
<1>20. CASE OtherStatement
  BY <1>20, BeginCounts DEF OtherStatement, ChangeClauses, Inserting, Merging
<1>21. CASE InsertExec
  <2>1. changes' = changes + 1 /\ changes \in Nat /\ at' = "finished" /\ statements' = statements
    BY <1>21 DEF InsertExec, Write, Typed
  <2>2. changes' >= 1
    BY <2>1
  <2>. QED BY <2>1, <2>2 DEF Counted, ChangeClauses, Inserting, Merging
<1>22. CASE Separate
  BY <1>22, ClauseCounts DEF Separate, ChangeClauses, Inserting, Merging
<1>23. CASE FromChange
  BY <1>23 DEF FromChange, Write, Counted, First, ChangeClauses, Inserting, Merging
<1>24. CASE InsertQueryInParentheses
  BY <1>24 DEF InsertQueryInParentheses, Write, Counted, First, ChangeClauses, Inserting, Merging
<1>25. CASE GroupedQuery
  BY <1>25 DEF GroupedQuery, Write, Counted, First, ChangeClauses, Inserting, Merging
<1>. QED BY <1>1, <1>2, <1>3, <1>4, <1>5, <1>6, <1>7, <1>8, <1>9, <1>10, <1>11, <1>12, <1>13,
            <1>14, <1>15, <1>16, <1>17, <1>18, <1>19, <1>20, <1>21, <1>22, <1>23, <1>24,
            <1>25 DEF Next

(* While the first parenthesis is that of a common table expression, or    *)
(* one was just closed, only a new statement ends this.                    *)
LEMMA ClauseDefines ==
  ASSUME Defining, NEW b, NEW clause, Clause(b, clause), open # <<>>
  PROVE  Defining'
BY DEF Clause, Defining

(* A parenthesis before the first statement.                               *)
LEMMA NestDefines ==
  ASSUME Typed, Defining, NEW b, NEW then, Nest(b, then), open = <<>> => then = "defined"
  PROVE  Defining'
<1>1. open' = Append(open, then) /\ open \in Seq(Afters)
  BY DEF Nest, Typed
<1>2. open' # <<>> /\ (open # <<>> => open'[1] = open[1]) /\ (open = <<>> => open'[1] = then)
  BY <1>1
<1>. QED BY <1>2 DEF Defining

(* Every action goes on with the expressions or begins a statement.        *)
LEMMA DefiningNext ==
  ASSUME Typed, Nesting, Defining, text # <<>>, Next
  PROVE  Defining' \/ Adds
<1>1. CASE Select
  <2>1. CASE Begin(Reading, <<"SELECT", String, "AS", Quoted>>, "selected")
    BY <2>1, StatementNames DEF Begin, Adds
  <2>2. CASE at = "query" /\ Clause(<<"SELECT", "a">>, "selected")
    <3>1. open # <<>>
      BY <2>2 DEF Defining
    <3>. QED BY <2>2, <3>1, ClauseDefines
  <2>. QED BY <1>1, <2>1, <2>2 DEF Select
<1>2. CASE SelectInto
  <2>1. FALSE
    BY <1>2 DEF SelectInto, Defining, QueryEnds, StatementEnds, Nesting
  <2>. QED BY <2>1
<1>3. CASE From
  <2>1. open # <<>>
    BY <1>3 DEF From, Defining, QueryEnds, StatementEnds
  <2>. QED BY <1>3, <2>1, ClauseDefines DEF From
<1>4. CASE FromQuery
  <2>1. open # <<>>
    BY <1>4 DEF FromQuery, Defining, QueryEnds, StatementEnds
  <2>. QED BY <1>4, <2>1, NestDefines DEF FromQuery
<1>5. CASE WhereQuery
  <2>1. open # <<>>
    BY <1>5 DEF WhereQuery, Defining, QueryEnds, StatementEnds
  <2>. QED BY <1>5, <2>1, NestDefines DEF WhereQuery
<1>6. CASE SetOperation
  <2>1. open # <<>>
    BY <1>6 DEF SetOperation, Defining, QueryEnds, StatementEnds
  <2>. QED BY <1>6, <2>1, ClauseDefines DEF SetOperation
<1>7. CASE QueryInParentheses
  <2>1. open # <<>>
    BY <1>7 DEF QueryInParentheses, Defining, QueryEnds, StatementEnds
  <2>. QED BY <1>7, <2>1, NestDefines DEF QueryInParentheses
<1>8. CASE Close
  <2>1. open # <<>> /\ at' = Last(open) /\ open' = Front(open) /\ open[1] = "defined"
    BY <1>8 DEF Close, Write, Defining
  <2>2. /\ Len(open') = Len(open) - 1 /\ Len(open) \in Nat /\ Len(open) >= 1
             /\ open' \in Seq(Afters)
        /\ \A k \in 1 .. Len(open) - 1 : open'[k] = open[k]
    BY <2>1, LastOpen
  <2>3. CASE Len(open) = 1
    <3>1. open' = <<>>
      BY <2>2, <2>3
    <3>. QED BY <2>1, <2>3, <3>1 DEF Last, Defining
  <2>4. CASE Len(open) # 1
    <3>. DEFINE n == Len(open)
    <3>1. n - 1 >= 1 /\ 1 \in 1 .. n - 1
      <4>1. n \in Nat /\ n >= 1 /\ n # 1
        BY <2>2, <2>4
      <4>. HIDE DEF n
      <4>. QED BY <4>1
    <3>2. open'[1] = open[1] /\ Len(open') # 0
      BY <2>2, <3>1
    <3>3. open' # <<>>
      BY <3>2
    <3>. QED BY <2>1, <3>2, <3>3 DEF Defining
  <2>. QED BY <2>3, <2>4
<1>9. CASE Option
  <2>1. FALSE
    BY <1>9 DEF Option, Defining, QueryEnds, StatementEnds, Nesting
  <2>. QED BY <2>1
<1>10. CASE With
  <2>1. FALSE
    BY <1>10 DEF With, Defining, QueryEnds, StatementEnds, Nesting
  <2>. QED BY <2>1
<1>11. CASE AndWith
  BY <1>11, NestDefines DEF AndWith
<1>12. CASE Insert
  BY <1>12, StatementNames DEF Insert, Begin, Adds
<1>13. CASE InsertValues
  <2>1. FALSE
    BY <1>13 DEF InsertValues, Defining, QueryEnds, StatementEnds, Nesting
  <2>. QED BY <2>1
<1>14. CASE InsertQuery
  <2>1. FALSE
    BY <1>14 DEF InsertQuery, Defining, QueryEnds, StatementEnds, Nesting
  <2>. QED BY <2>1
<1>15. CASE Update
  BY <1>15, StatementNames DEF Update, Begin, Adds
<1>16. CASE Delete
  BY <1>16, StatementNames DEF Delete, Begin, Adds
<1>17. CASE Merge
  BY <1>17, StatementNames DEF Merge, Begin, Adds
<1>18. CASE MergeWhen
  <2>1. FALSE
    BY <1>18 DEF MergeWhen, Defining, QueryEnds, StatementEnds, Nesting
  <2>. QED BY <2>1
<1>19. CASE Output
  <2>1. FALSE
    BY <1>19 DEF Output, Defining, QueryEnds, StatementEnds, Nesting
  <2>. QED BY <2>1
<1>20. CASE OtherStatement
  BY <1>20, StatementNames DEF OtherStatement, Begin, Adds
<1>21. CASE InsertExec
  <2>1. FALSE
    BY <1>21 DEF InsertExec, Defining, QueryEnds, StatementEnds, Nesting
  <2>. QED BY <2>1
<1>22. CASE Separate
  <2>1. FALSE
    BY <1>22 DEF Separate, Defining, QueryEnds, StatementEnds
  <2>. QED BY <2>1
<1>23. CASE FromChange
  BY <1>23 DEF FromChange, Write, Defining
<1>24. CASE InsertQueryInParentheses
  <2>1. FALSE
    BY <1>24 DEF InsertQueryInParentheses, Defining, QueryEnds, StatementEnds, Nesting
  <2>. QED BY <2>1
<1>25. CASE GroupedQuery
  <2>1. FALSE
    BY <1>25 DEF GroupedQuery, Defining
  <2>. QED BY <2>1
<1>. QED BY <1>1, <1>2, <1>3, <1>4, <1>5, <1>6, <1>7, <1>8, <1>9, <1>10, <1>11, <1>12, <1>13,
            <1>14, <1>15, <1>16, <1>17, <1>18, <1>19, <1>20, <1>21, <1>22, <1>23, <1>24,
            <1>25 DEF Next

(* A semicolon between other tokens stays between them.                    *)
LEMMA InteriorKept ==
  ASSUME Typed, Typed', Grows, Interior
  PROVE  Interior'
<1>1. PICK b \in Seq(Tokens) : text' = text \o b
  BY DEF Grows
<1>2. text \in Seq(Tokens)
  BY DEF Typed
<1>3. /\ DOMAIN text = 1 .. Len(text) /\ DOMAIN text' = 1 .. Len(text') /\ Len(text) \in Nat
      /\ Len(text') \in Nat /\ Len(text) <= Len(text')
      /\ \A i \in 1 .. Len(text) : text'[i] = text[i]
  BY <1>1, <1>2
<1>4. PICK i \in 1 .. Len(text) :
        /\ text[i] = Semicolon
        /\ \E j \in 1 .. i - 1 : text[j] # Semicolon
        /\ \E k \in i + 1 .. Len(text) : text[k] # Semicolon
  BY <1>3 DEF Interior
<1>5. PICK j \in 1 .. i - 1 : text[j] # Semicolon
  BY <1>4
<1>6. PICK k \in i + 1 .. Len(text) : text[k] # Semicolon
  BY <1>4
<1>7. i \in DOMAIN text' /\ text'[i] = Semicolon
  BY <1>3, <1>4
<1>8. j \in 1 .. i - 1 /\ text'[j] # Semicolon
  BY <1>3, <1>5
<1>9. k \in i + 1 .. Len(text') /\ text'[k] # Semicolon
  BY <1>3, <1>6
<1>. QED BY <1>7, <1>8, <1>9 DEF Interior

(* What keeps a text from being accepted stays in it.                      *)
LEMMA BrokenNext ==
  ASSUME Typed, Typed', Nesting, Grows, Next, Broken
  PROVE  Broken'
<1>1. CASE \E i \in DOMAIN text : text[i] = "GO"
  <2>1. PICK i \in DOMAIN text : text[i] = "GO"
    BY <1>1
  <2>2. PICK b \in Seq(Tokens) : text' = text \o b
    BY DEF Grows
  <2>3. i \in DOMAIN text' /\ text'[i] = text[i]
    BY <2>2 DEF Typed
  <2>. QED BY <2>1, <2>3 DEF Broken
<1>2. CASE Interior /\ (Len(statements) >= 2 \/ (Len(statements) = 1 /\ Defining))
  <2>. DEFINE n == Len(statements)
              m == Len(statements')
  <2>1. Interior'
    BY <1>2, InteriorKept
  <2>2. /\ n \in Nat /\ m \in Nat
        /\ statements' # statements => m = n + 1
        /\ statements' = statements => m = n
    BY OneMore
  <2>3. CASE n >= 2
    <3>1. m >= 2
      <4>. HIDE DEF m, n
      <4>. QED BY <2>2, <2>3
    <3>. QED BY <2>1, <3>1 DEF Broken
  <2>4. CASE n = 1 /\ Defining
    <3>1. text # <<>>
      BY <1>2 DEF Interior
    <3>2. CASE statements' = statements
      <4>1. ~Adds
        <5>1. ASSUME NEW statement \in Kinds PROVE Append(statements, statement) # statements
          BY DEF Typed
        <5>. QED BY <3>2, <5>1 DEF Adds
      <4>2. Defining'
        BY <2>4, <3>1, <4>1, DefiningNext
      <4>3. m = 1
        BY <2>2, <2>4, <3>2
      <4>. QED BY <2>1, <4>2, <4>3 DEF Broken
    <3>3. CASE statements' # statements
      <4>1. m >= 2
        <5>. HIDE DEF m, n
        <5>. QED BY <2>2, <2>4, <3>3
      <4>. QED BY <2>1, <4>1 DEF Broken
    <3>. QED BY <3>2, <3>3
  <2>. QED BY <1>2, <2>3, <2>4
<1>. QED BY <1>1, <1>2 DEF Broken

-----------------------------------------------------------------------------
(***************************************************************************)
(* The actions that write clauses, one by one.                             *)
(***************************************************************************)

(* Where a text that is not broken stands after a clause.                  *)
LEMMA Here ==
  ASSUME Typed, NEW s, NEW lead, Bodied(s, lead, <<>>), at # "start"
  PROVE  /\ s # <<>> /\ s \in Seq(Words) /\ Len(s) \in Nat /\ Len(s) >= 1
         /\ Written(s) /\ Ends(s) /\ Last(s) = s[Len(s)]
         /\ Len(open) \in Nat /\ Level(s, Len(s)) = Len(open)
              /\ \A k \in 0 .. Len(s) : Level(s, k) >= 0
         /\ statements = <<>> => Prefix(s) /\ Defining
<1>1. Written(s)
  BY DEF Bodied
<1>2. s # <<>>
  BY <1>1 DEF Written
<1>3. s \in Seq(Words) /\ Len(s) \in Nat /\ Level(s, Len(s)) = Len(open)
        /\ \A k \in 0 .. Len(s) : Level(s, k) >= 0
  BY <1>1, TypedWritten
<1>4. Len(s) >= 1
  BY <1>2, <1>3
<1>5. Ends(s)
  BY <1>2 DEF Bodied
<1>6. Last(s) = s[Len(s)]
  BY DEF Last
<1>7. Len(open) \in Nat
  BY DEF Typed
<1>8. statements = <<>> => Prefix(s) /\ Defining
  <2>1. statements = <<>> => Prefix(s)
    BY <1>1, <1>2 DEF Written
  <2>. QED BY <2>1 DEF Prefix, Defining
<1>. QED BY <1>1, <1>2, <1>3, <1>4, <1>5, <1>6, <1>7, <1>8

(* A clause of the statement that is being written, or of the expressions  *)
(* before the first.                                                       *)
LEMMA ClauseKeeps ==
  ASSUME Typed, Typed', Counted, NEW s, NEW lead, Bodied(s, lead, <<>>), at # "start",
         NEW b \in Seq(Words), Len(b) >= 1, NEW low \in Int, NEW d \in Int, Shape(b, low, d),
         Len(open) + low >= 0, Len(open') = Len(open) + d,
         text' = text \o b, statements' = statements, changes' = changes, nested' = nested,
         enclosed => enclosed', at' # "start",
         IF at' = "query" THEN b[Len(b)] \in SetOperators \/ (open' # <<>> /\ b[Len(b)] = "(")
                          ELSE b[Len(b)] \in EndTokens,
         statements = <<>> => Prefix(s \o b)',
         statements = <<>> => \A k \in 1 .. Len(b) : b[k] \in Ruled =>
           NotForbidden(s \o b, Len(s) + k, "read"),
         \A f \in 1 .. Len(s) : Judged(s, f) /\ statements # <<>> =>
           /\ Single /\ changes = 0 /\ nested = 0 => \A k \in 1 .. Len(b) : b[k] \in Ruled =>
                ReadOk(s \o b, f, Len(s) + k)
           /\ First \in Writing /\ Single /\ changes = 1 =>
                \A k \in 1 .. Len(b) : b[k] \in Ruled => WriteOk(s \o b, f, Len(s) + k)
           /\ Sole => Stage(s \o b, f)'
  PROVE  Bodied(s \o b, lead, <<>>)'
<1>. DEFINE t == s \o b
            n == Len(s)
<1>1. /\ s \in Seq(Words) /\ n \in Nat /\ n >= 1 /\ Level(s, n) = Len(open)
      /\ \A k \in 0 .. n : Level(s, k) >= 0
  BY Here
<1>2. Written(s)
  BY Here
<1>3. Len(b) \in Nat
  OBVIOUS
<1>4. Len(t) = n + Len(b) /\ \A k \in 1 .. Len(b) : t[n + k] = b[k]
  BY <1>1
<1>. HIDE DEF t
<1>5. \A i \in n + 1 .. Len(t) : \E k \in 1 .. Len(b) : i = n + k
  <2>. SUFFICES ASSUME NEW i \in n + 1 .. Len(t) PROVE \E k \in 1 .. Len(b) : i = n + k
    OBVIOUS
  <2>1. i - n \in 1 .. Len(b) /\ i = n + (i - n)
    BY <1>1, <1>3, <1>4
  <2>. QED BY <2>1
<1>. HIDE DEF n
<1>6. \A f : \A k \in 1 .. Len(b) : b[k] \notin Ruled =>
        ReadOk(t, f, n + k) /\ WriteOk(t, f, n + k) /\ NotForbidden(t, n + k, "read")
  BY <1>4, OthersPass
<1>7. statements = <<>> => \A i \in n + 1 .. Len(t) : NotForbidden(t, i, "read")
  BY <1>5, <1>6 DEF t, n
<1>8. ASSUME NEW f \in 1 .. Len(s), Judged(s, f), statements # <<>>
      PROVE  /\ Single /\ changes = 0 /\ nested = 0 => \A i \in n + 1 .. Len(t) : ReadOk(t, f, i)
             /\ First \in Writing /\ Single /\ changes = 1 =>
                  \A i \in n + 1 .. Len(t) : WriteOk(t, f, i)
             /\ Sole => Stage(t, f)'
  <2>1. /\ Single /\ changes = 0 /\ nested = 0 => \A k \in 1 .. Len(b) : b[k] \in Ruled => ReadOk(t, f, n + k)
        /\ First \in Writing /\ Single /\ changes = 1 =>
             \A k \in 1 .. Len(b) : b[k] \in Ruled => WriteOk(t, f, n + k)
        /\ Sole => Stage(t, f)'
    BY <1>8 DEF t, n
  <2>2. Single /\ changes = 0 /\ nested = 0 => \A i \in n + 1 .. Len(t) : ReadOk(t, f, i)
    BY <1>5, <1>6, <2>1
  <2>3. First \in Writing /\ Single /\ changes = 1 => \A i \in n + 1 .. Len(t) : WriteOk(t, f, i)
    BY <1>5, <1>6, <2>1, SMTT(30)
  <2>. QED BY <2>1, <2>2, <2>3
<1>9. Written(t)'
  <2>1. Len(s) >= 1
    BY <1>1 DEF n
  <2>2. statements = <<>> => Prefix(t)'
    BY DEF t
  <2>3. Written(s \o b)'
    BY <1>2, <1>7, <1>8, <2>1, <2>2, ClauseWritten DEF t, n
  <2>. QED BY <2>3 DEF t
<1>. QED BY <1>9, Extend DEF t

(* A clause after the first statement has begun.                           *)
LEMMA StatementKeeps ==
  ASSUME Typed, Typed', Counted, NEW s, NEW lead, Bodied(s, lead, <<>>), at # "start",
         statements # <<>>,
         NEW b \in Seq(Words), Len(b) >= 1, NEW low \in Int, NEW d \in Int, Shape(b, low, d),
         Len(open) + low >= 0, Len(open') = Len(open) + d,
         text' = text \o b, Len(statements) <= Len(statements'), First' = First,
         changes <= changes', nested <= nested',
         at' # "start", at' # "query", b[Len(b)] \in EndTokens,
         \A f \in 1 .. Len(s) : Judged(s, f) =>
           /\ Single /\ changes = 0 /\ nested = 0 =>
                (Single' /\ changes' = 0 /\ nested' = 0 <=>
                   \A i \in Len(s) + 1 .. Len(s \o b) : ReadOk(s \o b, f, i))
           /\ First \in Writing /\ Single' /\ changes' = 1 =>
                \A i \in Len(s) + 1 .. Len(s \o b) : WriteOk(s \o b, f, i)
           /\ First \in Writing /\ Passing =>
                Passing' \/ \E i \in Len(s) + 1 .. Len(s \o b) : ~WriteOk(s \o b, f, i)
           /\ Sole' => Stage(s \o b, f)'
  PROVE  Bodied(s \o b, lead, <<>>)'
<1>. DEFINE t == s \o b
            n == Len(s)
<1>1. /\ s \in Seq(Words) /\ n \in Nat /\ n >= 1 /\ Level(s, n) = Len(open)
      /\ \A k \in 0 .. n : Level(s, k) >= 0
  BY Here
<1>2. Written(s)
  BY Here
<1>3. Len(b) \in Nat /\ Len(statements) >= 1 /\ Len(statements') >= 1 /\ statements' # <<>>
  <2>. DEFINE p == Len(statements)
              q == Len(statements')
  <2>1. statements \in Seq(Kinds) /\ statements' \in Seq(Kinds)
    BY DEF Typed
  <2>2. p \in Nat /\ q \in Nat /\ p # 0
    BY <2>1
  <2>3. p <= q
    OBVIOUS
  <2>4. p >= 1 /\ q >= 1
    <3>. HIDE DEF p, q
    <3>. QED BY <2>2, <2>3
  <2>5. statements' # <<>>
    BY <2>1, <2>4
  <2>. QED BY <2>4, <2>5
<1>4. /\ t \in Seq(Words) /\ t \in Seq(Tokens) /\ s \in Seq(Tokens) /\ Continues(t, s)
      /\ Len(t) = n + Len(b)
      /\ \A k \in 0 .. Len(t) : Level(t, k) >= 0
      /\ Level(t, Len(t)) = Len(open')
  <2>1. Level(s, Len(s)) + low >= 0 /\ s \in Seq(Words) /\ \A k \in 0 .. Len(s) : Level(s, k) >= 0
    BY <1>1
  <2>2. /\ s \o b \in Seq(Words) /\ s \o b \in Seq(Tokens) /\ s \in Seq(Tokens)
             /\ Continues(s \o b, s)
        /\ Len(s \o b) = Len(s) + Len(b)
    BY <2>1, Joined
  <2>3. /\ \A k \in 0 .. Len(s \o b) : Level(s \o b, k) >= 0
        /\ Level(s \o b, Len(s \o b)) = Level(s, Len(s)) + d
    BY <2>1, Joined
  <2>. QED BY <1>1, <2>2, <2>3
<1>5. n + 1 \in n + 1 .. Len(t) /\ Len(t) # 0
  BY <1>1, <1>3, <1>4
<1>. HIDE DEF t
<1>6. PICK f \in 1 .. Len(s) : Judged(s, f)
  BY <1>2 DEF Written
<1>. HIDE DEF n
<1>7. f \in 1 .. Len(t) /\ Judged(t, f)'
  BY <1>3, <1>4, <1>6, JudgedOn DEF t, n
<1>8. t # <<>>
  BY <1>5
<1>9. Written(t)'
  BY <1>3, <1>4, <1>7, <1>8 DEF Written
<1>. QED BY <1>9, Extend DEF t

(* A clause that ends what the text was so far: another statement, or a    *)
(* change that is not that of the statement.                               *)
LEMMA ChangeKeeps ==
  ASSUME Typed, Typed', Counted, NEW s, NEW lead, Bodied(s, lead, <<>>), at # "start",
         statements # <<>>,
         NEW b \in Seq(Words), Len(b) >= 1, NEW low \in Int, NEW d \in Int, Shape(b, low, d),
         Len(open) + low >= 0, Len(open') = Len(open) + d,
         text' = text \o b, Len(statements) <= Len(statements'), First' = First,
         changes <= changes', nested' = nested,
         at' # "start", at' # "query", b[Len(b)] \in EndTokens,
         Single' => Single /\ changes' > changes,
         \A f \in 1 .. Len(s) : Judged(s, f) =>
           /\ Single /\ changes = 0 /\ nested = 0 => ~ReadOk(s \o b, f, Len(s) + 1)
           /\ First \in Writing /\ Passing => Passing' \/ ~WriteOk(s \o b, f, Len(s) + 1)
           /\ Sole' => Stage(s \o b, f)'
  PROVE  Bodied(s \o b, lead, <<>>)'
<1>. DEFINE t == s \o b
            n == Len(s)
<1>1. n \in Nat /\ Len(b) \in Nat /\ Len(t) = n + Len(b)
  BY Here
<1>2. n + 1 \in n + 1 .. Len(t)
  BY <1>1
<1>3. First \in Writing => changes >= 1
  BY DEF Counted, Writing, WriteKeywords, Reading
<1>4. changes \in Nat /\ changes' \in Nat /\ nested \in Nat
  BY DEF Typed
<1>5. ~(Single' /\ changes' = 0) /\ ~(First \in Writing /\ Single' /\ changes' = 1)
  BY <1>3, <1>4
<1>. HIDE DEF t, n
<1>6. \A f \in 1 .. Len(s) : Judged(s, f) =>
           /\ Single /\ changes = 0 /\ nested = 0 =>
                (Single' /\ changes' = 0 /\ nested' = 0 <=>
                   \A i \in n + 1 .. Len(t) : ReadOk(t, f, i))
           /\ First \in Writing /\ Single' /\ changes' = 1 =>
                \A i \in n + 1 .. Len(t) : WriteOk(t, f, i)
           /\ First \in Writing /\ Passing =>
                Passing' \/ \E i \in n + 1 .. Len(t) : ~WriteOk(t, f, i)
           /\ Sole' => Stage(t, f)'
  BY <1>2, <1>5 DEF t, n
<1>7. nested <= nested'
  BY <1>4
<1>. QED BY <1>6, <1>7, StatementKeeps DEF t, n

(* Clauses without a word that is in a rule.                               *)
LEMMA HarmlessClause ==
  ASSUME Typed, Typed', Counted, NEW s, NEW lead, Bodied(s, lead, <<>>), at # "start",
         at \notin Inserting,
         NEW b \in Seq(Words), Len(b) >= 1, Shape(b, 0, 0), NEW clause, Clause(b, clause),
         clause \notin Inserting \cup Merging \cup {"selected", "start"},
         \A k \in 1 .. Len(b) : b[k] \notin Ruled,
         IF clause = "query" THEN b[Len(b)] \in SetOperators ELSE b[Len(b)] \in EndTokens,
         statements = <<>> => open # <<>>
  PROVE  Bodied(s \o b, lead, <<>>)'
<1>1. text' = text \o b /\ at' = clause /\ open' = open /\ statements' = statements
        /\ changes' = changes /\ nested' = nested /\ enclosed' = enclosed
  BY DEF Clause, Write
<1>2. Len(s) >= 1 /\ Written(s) /\ Len(open) \in Nat /\ (statements = <<>> => Defining)
  BY Here
<1>3. Len(open) + 0 >= 0 /\ Len(open') = Len(open) + 0 /\ 0 \in Int
        /\ (open # <<>> => Len(open) + 0 >= 1)
  <2>1. open # <<>> => Len(open) # 0
    BY DEF Typed
  <2>. QED BY <1>1, <1>2, <2>1
<1>4. statements = <<>> => Prefix(s \o b)'
  <2>1. statements = <<>> => open # <<>> /\ open' # <<>> /\ open'[1] = open[1]
    BY <1>1
  <2>. QED BY <1>2, <1>3, <2>1, PrefixInside
<1>. QED BY <1>1, <1>2, <1>3, <1>4, HarmlessKeeps

(* The same for a clause that opens a parenthesis.                         *)
LEMMA HarmlessNest ==
  ASSUME Typed, Typed', Counted, NEW s, NEW lead, Bodied(s, lead, <<>>), at # "start",
         at \notin Inserting,
         NEW b \in Seq(Words), Len(b) >= 1, Shape(b, 0, 1), NEW then, Nest(b, then),
         \A k \in 1 .. Len(b) : b[k] \notin Ruled, b[Len(b)] = "(",
         statements = <<>> => open # <<>> \/ Prefix(s \o b)'
  PROVE  Bodied(s \o b, lead, <<>>)'
<1>1. text' = text \o b /\ at' = "query" /\ open' = Append(open, then) /\ statements' = statements
        /\ changes' = changes /\ nested' = nested /\ enclosed' = enclosed
  BY DEF Nest, Write
<1>2. Len(s) >= 1 /\ Written(s) /\ Len(open) \in Nat /\ (statements = <<>> => Defining)
  BY Here
<1>3. Len(open) + 0 >= 0 /\ Len(open') = Len(open) + 1 /\ 0 \in Int /\ 1 \in Int
        /\ (open # <<>> => Len(open) + 0 >= 1)
      /\ open' # <<>> /\ (open # <<>> => open'[1] = open[1])
  <2>1. open \in Seq(Afters)
    BY DEF Typed
  <2>2. open # <<>> => Len(open) # 0
    BY <2>1
  <2>. QED BY <1>1, <1>2, <2>1, <2>2
<1>4. statements = <<>> => Prefix(s \o b)'
  <2>1. statements = <<>> /\ open # <<>> => Prefix(s \o b)'
    BY <1>2, <1>3, PrefixInside
  <2>. QED BY <2>1
<1>5. "query" \notin Inserting \cup Merging \cup {"selected", "start"}
  BY DEF Inserting, Merging
<1>6. IF at' = "query" THEN b[Len(b)] \in SetOperators \/ (open' # <<>> /\ b[Len(b)] = "(")
                          ELSE b[Len(b)] \in EndTokens
  BY <1>1, <1>3
<1>. QED BY <1>1, <1>2, <1>3, <1>4, <1>5, <1>6, HarmlessKeeps

(* The clauses after which nothing but a query is open.                    *)
LEMMA Querying ==
  ASSUME Typed, NEW s, NEW lead, Bodied(s, lead, <<>>), at \in QueryEnds \cup {"query"}
  PROVE  at # "start" /\ at \notin Inserting /\ (statements = <<>> => open # <<>>)
<1>1. at # "start" /\ at \notin Inserting /\ at # "defined"
  BY DEF QueryEnds, Inserting
<1>. QED BY <1>1, Here DEF Defining

(* The actions that write clauses of queries.                              *)
LEMMA FromKeeps ==
  ASSUME Typed, Typed', Counted, NEW s, NEW lead, Bodied(s, lead, <<>>), From
  PROVE  \E b : Bodied(s \o b, lead, <<>>)'
<1>. DEFINE b == <<"FROM", "t">>
<1>1. b \in Seq(Words) /\ Len(b) = 2 /\ b[1] = "FROM" /\ b[2] = "t" /\ Shape(b, 0, 0)
  BY FromBlock
<1>2. Clause(b, "sourced") /\ at \in QueryEnds \cup {"query"}
  BY DEF From, QueryEnds
<1>. HIDE DEF b
<1>3. at # "start" /\ at \notin Inserting /\ (statements = <<>> => open # <<>>)
  BY <1>2, Querying
<1>4. /\ \A k \in 1 .. Len(b) : b[k] \notin Ruled
      /\ Len(b) >= 1 /\ b[Len(b)] \in EndTokens
      /\ "sourced" \notin Inserting \cup Merging \cup {"selected", "start"}
  BY <1>1 DEF Ruled, EndTokens, Inserting, Merging
<1>5. Bodied(s \o b, lead, <<>>)'
  BY <1>1, <1>2, <1>3, <1>4, HarmlessClause
<1>. QED BY <1>5

LEMMA SetOperationKeeps ==
  ASSUME Typed, Typed', Counted, NEW s, NEW lead, Bodied(s, lead, <<>>), SetOperation
  PROVE  \E b : Bodied(s \o b, lead, <<>>)'
<1>1. PICK b \in {<<"UNION">>, <<"UNION", "ALL">>} : Clause(b, "query")
  BY DEF SetOperation
<1>2. b \in Seq(Words) /\ Len(b) >= 1 /\ Shape(b, 0, 0) /\ b[Len(b)] \in {"UNION", "ALL"}
      /\ \A k \in 1 .. Len(b) : b[k] \in {"UNION", "ALL"}
  <2>1. CASE b = <<"UNION">>
    <3>1. b \in Seq(Words) /\ Len(b) = 1 /\ b[1] = "UNION" /\ Shape(b, 0, 0)
      BY <2>1, UnionBlock
    <3>. QED BY <3>1
  <2>2. CASE b = <<"UNION", "ALL">>
    <3>1. b \in Seq(Words) /\ Len(b) = 2 /\ b[1] = "UNION" /\ b[2] = "ALL" /\ Shape(b, 0, 0)
      BY <2>2, UnionAllBlock
    <3>. QED BY <3>1
  <2>. QED BY <2>1, <2>2
<1>3. at \in QueryEnds \cup {"query"}
  BY DEF SetOperation
<1>4. at # "start" /\ at \notin Inserting /\ (statements = <<>> => open # <<>>)
  BY <1>3, Querying
<1>5. /\ \A k \in 1 .. Len(b) : b[k] \notin Ruled
      /\ b[Len(b)] \in SetOperators
      /\ "query" \notin Inserting \cup Merging \cup {"selected", "start"}
  BY <1>2 DEF Ruled, SetOperators, Inserting, Merging
<1>6. Bodied(s \o b, lead, <<>>)'
  BY <1>1, <1>2, <1>4, <1>5, HarmlessClause
<1>. QED BY <1>6

LEMMA FromQueryKeeps ==
  ASSUME Typed, Typed', Counted, NEW s, NEW lead, Bodied(s, lead, <<>>), FromQuery
  PROVE  \E b : Bodied(s \o b, lead, <<>>)'
<1>. DEFINE b == <<"FROM", "(">>
<1>1. b \in Seq(Words) /\ Len(b) = 2 /\ b[1] = "FROM" /\ b[2] = "(" /\ Shape(b, 0, 1)
  BY FromQueryBlock
<1>2. Nest(b, "sourced") /\ at \in QueryEnds \cup {"query"}
  BY DEF FromQuery, QueryEnds
<1>. HIDE DEF b
<1>3. at # "start" /\ at \notin Inserting /\ (statements = <<>> => open # <<>>)
  BY <1>2, Querying
<1>4. (\A k \in 1 .. Len(b) : b[k] \notin Ruled) /\ Len(b) >= 1 /\ b[Len(b)] = "("
  BY <1>1 DEF Ruled
<1>5. Bodied(s \o b, lead, <<>>)'
  BY <1>1, <1>2, <1>3, <1>4, HarmlessNest
<1>. QED BY <1>5

LEMMA QueryInParenthesesKeeps ==
  ASSUME Typed, Typed', Counted, NEW s, NEW lead, Bodied(s, lead, <<>>), QueryInParentheses
  PROVE  \E b : Bodied(s \o b, lead, <<>>)'
<1>. DEFINE b == <<"(">>
<1>1. b \in Seq(Words) /\ Len(b) = 1 /\ b[1] = "(" /\ Shape(b, 0, 1)
  BY ParenthesisBlock
<1>2. Nest(b, "filtered") /\ at \in QueryEnds \cup {"query"}
  BY DEF QueryInParentheses
<1>. HIDE DEF b
<1>3. at # "start" /\ at \notin Inserting /\ (statements = <<>> => open # <<>>)
  BY <1>2, Querying
<1>4. (\A k \in 1 .. Len(b) : b[k] \notin Ruled) /\ Len(b) >= 1 /\ b[Len(b)] = "("
  BY <1>1 DEF Ruled
<1>5. Bodied(s \o b, lead, <<>>)'
  BY <1>1, <1>2, <1>3, <1>4, HarmlessNest
<1>. QED BY <1>5

LEMMA WhereQueryKeeps ==
  ASSUME Typed, Typed', Counted, NEW s, NEW lead, Bodied(s, lead, <<>>), WhereQuery
  PROVE  \E b : Bodied(s \o b, lead, <<>>)'
<1>. DEFINE b == <<"WHERE", "a", "IN", "(">>
<1>1. b \in Seq(Words) /\ Len(b) = 4 /\ b[1] = "WHERE" /\ b[2] = "a" /\ b[3] = "IN" /\ b[4] = "("
        /\ Shape(b, 0, 1)
  BY WhereBlock
<1>2. PICK then : Nest(b, then)
  BY DEF WhereQuery
<1>3. at # "start" /\ at \notin Inserting /\ (statements = <<>> => open # <<>>)
  <2>1. CASE at = "sourced"
    BY <2>1, Querying DEF QueryEnds
  <2>2. CASE at \in {"changed", "returned"}
    <3>1. at \in ChangeClauses /\ at # "start" /\ at \notin Inserting
      BY <2>2 DEF ChangeClauses, Inserting
    <3>. QED BY <3>1 DEF Counted
  <2>. QED BY <2>1, <2>2 DEF WhereQuery
<1>. HIDE DEF b
<1>4. (\A k \in 1 .. Len(b) : b[k] \notin Ruled) /\ Len(b) >= 1 /\ b[Len(b)] = "("
  BY <1>1 DEF Ruled
<1>5. Bodied(s \o b, lead, <<>>)'
  BY <1>1, <1>2, <1>3, <1>4, HarmlessNest
<1>. QED BY <1>5

(* A parenthesis is closed.                                                *)
LEMMA CloseKeeps ==
  ASSUME Typed, Typed', Counted, NEW s, NEW lead, Bodied(s, lead, <<>>), Close
  PROVE  \E b : Bodied(s \o b, lead, <<>>)'
<1>. DEFINE b == <<")">>
            m == Len(open)
<1>1. b \in Seq(Words) /\ Len(b) = 1 /\ b[1] = ")" /\ Shape(b, -1, -1)
  BY CloseTyped, CloseShape
<1>2. /\ open # <<>> /\ at \in QueryEnds \cup {"query"}
      /\ text' = text \o b /\ at' = Last(open) /\ open' = Front(open)
      /\ statements' = statements /\ changes' = changes /\ nested' = nested /\ enclosed' = enclosed
  BY DEF Close, Write
<1>3. at # "start" /\ at \notin Inserting
  BY <1>2, Querying
<1>4. /\ at' \in Afters /\ m \in Nat /\ m >= 1 /\ Len(open') = m - 1 /\ open' \in Seq(Afters)
      /\ \A k \in 1 .. m - 1 : open'[k] = open[k]
  BY <1>2, LastOpen
<1>5. Len(s) >= 1 /\ Written(s)
  BY <1>3, Here
<1>6. statements = <<>> => Prefix(s \o b)'
  <2>. SUFFICES ASSUME statements = <<>> PROVE Prefix(s \o b)'
    OBVIOUS
  <2>1. CASE m = 1
    <3>1. open' = <<>> /\ at' = open[1]
      BY <1>2, <1>4, <2>1 DEF Last
    <3>. QED BY <1>2, <1>5, <2>1, <3>1, PrefixClosed
  <2>2. CASE m # 1
    <3>1. 1 \in 1 .. m - 1 /\ m + -1 >= 1
      <4>. HIDE DEF m
      <4>. QED BY <1>4, <2>2
    <3>2. open'[1] = open[1] /\ open' # <<>>
      BY <1>4, <3>1
    <3>. HIDE DEF b
    <3>3. -1 \in Int
      OBVIOUS
    <3>. QED BY <1>1, <1>2, <1>5, <3>1, <3>2, <3>3, PrefixInside
  <2>. QED BY <2>1, <2>2
<1>. HIDE DEF b
<1>7. /\ \A k \in 1 .. Len(b) : b[k] \notin Ruled
      /\ Len(b) >= 1 /\ b[Len(b)] \in EndTokens
      /\ at' \notin Inserting \cup Merging \cup {"selected", "start"} /\ at' # "query"
  BY <1>1, <1>4 DEF Ruled, EndTokens, Inserting, Merging, Afters
<1>8. Len(open) + -1 >= 0 /\ Len(open') = Len(open) + -1 /\ -1 \in Int
  <2>. HIDE DEF m
  <2>1. m + -1 >= 0 /\ m - 1 = m + -1 /\ -1 \in Int
    BY <1>4
  <2>. QED BY <1>4, <2>1 DEF m
<1>9. Bodied(s \o b, lead, <<>>)'
  BY <1>1, <1>2, <1>3, <1>5, <1>6, <1>7, <1>8, HarmlessKeeps
<1>. QED BY <1>9

(* One more common table expression begins.                                *)
LEMMA PrefixAnd ==
  ASSUME NEW s, Written(s), Len(s) >= 1, statements = <<>>, open = <<>>, open' # <<>>,
         open'[1] = "defined",
         NEW b \in Seq(Words), Len(b) = 4, b[1] = Comma, b[2] = "a", b[3] = "AS", b[4] = "(",
         Shape(b, 0, 1), Depth(b, 4) = 0
  PROVE  Prefix(s \o b)'
<1>. DEFINE t == s \o b
            n == Len(s)
<1>1. /\ b \in Seq(Words) /\ Len(b) = 4 /\ b[1] = Comma /\ b[2] = "a" /\ b[3] = "AS" /\ b[4] = "("
      /\ Shape(b, 0, 1) /\ Depth(b, 4) = 0
  OBVIOUS
<1>2. /\ s \in Seq(Words) /\ n \in Nat /\ Level(s, n) = 0
      /\ \A k \in 0 .. n : Level(s, k) >= 0
  BY TypedWritten
<1>3. Level(s, Len(s)) + 0 >= 0 /\ 0 \in Int /\ 1 \in Int
  BY <1>2
<1>4. /\ t \in Seq(Words) /\ Continues(t, s) /\ Len(t) = n + 4
      /\ t[n + 1] = Comma /\ t[n + 2] = "a" /\ t[n + 3] = "AS" /\ t[n + 4] = "("
      /\ Depth(t, n + 4) = 0 /\ Level(t, Len(t)) = 1
  <2>1. t \in Seq(Words)
    BY <1>2, <1>3, Joined
  <2>2. Continues(t, s) /\ Len(t) = n + 4
    <3>1. Continues(t, s) /\ Len(t) = n + Len(b)
      BY <1>2, <1>3, Joined
    <3>. QED BY <3>1
  <2>3. \A k \in 1 .. Len(b) : t[n + k] = b[k]
    BY <1>2, <1>3, Joined
  <2>4. \A k \in 1 .. Len(b) : Depth(t, n + k) = Level(s, n) + Depth(b, k)
    BY <1>2, <1>3, Joined
  <2>5. Level(t, Len(t)) = Level(s, n) + 1
    BY <1>2, <1>3, Joined
  <2>. HIDE DEF t
  <2>6. t[n + 1] = Comma /\ t[n + 2] = "a" /\ t[n + 3] = "AS" /\ t[n + 4] = "("
    BY <2>3
  <2>7. Depth(t, n + 4) = 0
    <3>1. 4 \in 1 .. Len(b)
      OBVIOUS
    <3>2. Depth(t, n + 4) = Level(s, n) + Depth(b, 4)
      BY <2>4, <3>1
    <3>. QED BY <1>2, <3>2
  <2>. QED BY <1>2, <2>1, <2>2, <2>5, <2>6, <2>7
<1>. HIDE DEF t
<1>5. Prefix(s)
  <2>1. s # <<>>
    BY <1>2
  <2>. QED BY <2>1 DEF Written
<1>6. PICK x \in 2 .. n : PathTo(s, x) /\ CteAt(s, x, n + 1)
  BY <1>5 DEF Prefix
<1>7. PathTo(t, n + 2)
  <2>1. x \in Nat /\ x <= n + 1 /\ 1 <= x /\ 2 <= x /\ n + 1 \in Nat /\ n + 1 <= n + 1
          /\ (n + 1) + 1 = n + 2
    BY <1>2
  <2>2. PathTo(t, x)
    BY <1>4, <1>6, <2>1, PathContinues
  <2>3. CteAt(t, x, n + 1)
    BY <1>4, <1>6, <2>1, CteContinues
  <2>4. PathTo(t, (n + 1) + 1)
    BY <1>4, <2>1, <2>2, <2>3, PathGoesOn
  <2>. QED BY <2>1, <2>4
<1>8. CteHead(t, n + 2, n + 4)
  <2>1. IsWord("a") /\ "a" # "XMLNAMESPACES"
    BY Marks, Separators DEF IsWord, Punct, String, Quoted
  <2>2. (n + 2) + 1 = n + 3 /\ (n + 2) + 2 = n + 4
    BY <1>2
  <2>. QED BY <1>4, <2>1, <2>2 DEF CteHead
<1>9. t[1] = "WITH"
  <2>1. s[1] = "WITH" /\ 1 \in 1 .. n
    BY <1>2, <1>5 DEF Prefix
  <2>. QED BY <1>4, <2>1 DEF Continues
<1>10. \A k \in n + 4 .. Len(t) : Level(t, k) >= 1
  BY <1>2, <1>4
<1>11. n + 2 \in 2 .. Len(t) /\ n + 4 \in (n + 2) + 2 .. Len(t)
  BY <1>2, <1>4
<1>12. open' # <<>> /\ open'[1] = "defined"
  OBVIOUS
<1>. DEFINE y == n + 2
            o == n + 4
<1>13. /\ y \in 2 .. Len(t) /\ o \in y + 2 .. Len(t) /\ PathTo(t, y) /\ CteHead(t, y, o)
            /\ Depth(t, o) = 0
       /\ \A k \in o .. Len(t) : Level(t, k) >= 1
  BY <1>4, <1>7, <1>8, <1>10, <1>11
<1>. HIDE DEF y, o
<1>14. Prefix(t)'
  BY <1>9, <1>12, <1>13 DEF Prefix
<1>. QED BY <1>14 DEF t

(* One more expression.                                                    *)
LEMMA AndWithKeeps ==
  ASSUME Typed, Typed', Nesting, Counted, NEW s, NEW lead, Bodied(s, lead, <<>>), AndWith
  PROVE  \E b : Bodied(s \o b, lead, <<>>)'
<1>. DEFINE b == <<Comma, "a", "AS", "(">>
<1>1. b \in Seq(Words) /\ Len(b) = 4 /\ b[1] = Comma /\ b[2] = "a" /\ b[3] = "AS" /\ b[4] = "("
        /\ Shape(b, 0, 1)
      /\ Depth(b, 4) = 0
  BY AndWithBlock
<1>2. Nest(b, "defined") /\ at = "defined"
  BY DEF AndWith
<1>3. at # "start" /\ at \notin Inserting
  BY <1>2 DEF Inserting
<1>4. open = <<>> /\ open' = <<"defined">>
  <2>1. open = <<>>
    BY <1>2 DEF Nesting, QueryEnds
  <2>2. open' = Append(<<>>, "defined")
    BY <1>2, <2>1 DEF Nest
  <2>. QED BY <2>1, <2>2
<1>5. Len(s) >= 1 /\ Written(s)
  BY <1>3, Here
<1>. HIDE DEF b
<1>6. statements = <<>> => open # <<>> \/ Prefix(s \o b)'
  BY <1>1, <1>4, <1>5, PrefixAnd
<1>7. (\A k \in 1 .. Len(b) : b[k] \notin Ruled) /\ Len(b) >= 1 /\ b[Len(b)] = "("
  <2>1. Comma \notin Ruled
    BY Marks DEF Ruled
  <2>. QED BY <1>1, <2>1 DEF Ruled
<1>8. Bodied(s \o b, lead, <<>>)'
  BY <1>1, <1>2, <1>3, <1>6, <1>7, HarmlessNest
<1>. QED BY <1>8

(* Before the first clause.                                                *)
LEMMA Start ==
  ASSUME NEW s, NEW lead, Bodied(s, lead, <<>>), at = "start"
  PROVE  s = <<>> /\ statements = <<>> /\ changes = 0 /\ nested = 0 /\ open = <<>> /\ text = lead
<1>1. s = <<>> /\ text = lead \o s \o <<>> /\ lead \in {<<>>, <<Semicolon>>}
  BY DEF Bodied
<1>2. lead \in Seq(Tokens)
  <2>1. <<>> \in Seq(Tokens)
    OBVIOUS
  <2>. QED BY <1>1, <2>1, SeparatorTyped
<1>3. text = lead
  BY <1>1, <1>2, ConcatEmptySeq
<1>. QED BY <1>1, <1>3 DEF Bodied, Written

(* The first expression.                                                   *)
LEMMA PrefixBegins ==
  ASSUME NEW b \in Seq(Words), Len(b) >= 4, b[1] = "WITH", NEW o \in 4 .. Len(b), CteHead(b, 2, o),
         Depth(b, o) = 0, \A k \in o .. Len(b) : Level(b, k) >= 1, open' # <<>>,
         open'[1] = "defined"
  PROVE  Prefix(b)'
<1>1. PathTo(b, 2)
  <2>. DEFINE P == {2}
  <2>1. P \in SUBSET (2 .. 2) /\ 2 \in P /\ P \ {2} = {}
    OBVIOUS
  <2>. HIDE DEF P
  <2>. QED BY <2>1 DEF PathTo
<1>. DEFINE x == 2
<1>2. x \in 2 .. Len(b) /\ o \in x + 2 .. Len(b) /\ PathTo(b, x) /\ CteHead(b, x, o)
  BY <1>1
<1>. HIDE DEF x
<1>. QED BY <1>2 DEF Prefix

(* The three ways it begins.                                               *)
LEMMA WithPrefix ==
  ASSUME NEW b, b = <<"WITH", "a", "AS", "(">>, open' # <<>>, open'[1] = "defined"
  PROVE  Prefix(b)'
<1>1. /\ b \in Seq(Words) /\ Len(b) = 4 /\ b[1] = "WITH" /\ b[2] = "a" /\ b[3] = "AS" /\ b[4] = "("
      /\ Shape(b, 0, 1) /\ Depth(b, 4) = 0
  BY WithBlock
<1>2. CteHead(b, 2, 4)
  <2>1. IsWord("a") /\ "a" # "XMLNAMESPACES"
    BY Marks, Separators DEF IsWord, Punct, String, Quoted
  <2>2. 2 + 1 = 3 /\ 2 + 2 = 4
    OBVIOUS
  <2>. QED BY <1>1, <2>1, <2>2 DEF CteHead
<1>3. \A k \in 4 .. Len(b) : Level(b, k) >= 1
  BY <1>1 DEF Shape
<1>4. 4 \in 4 .. Len(b) /\ Len(b) >= 4
  BY <1>1
<1>. QED BY <1>1, <1>2, <1>3, <1>4, PrefixBegins

LEMMA ColumnsPrefix ==
  ASSUME NEW b, b = <<"WITH", Quoted, "(", "a", Comma, "a", ")", "AS", "(">>, open' # <<>>,
         open'[1] = "defined"
  PROVE  Prefix(b)'
<1>1. b \in Seq(Words) /\ Len(b) = 9
  BY ColumnsBlock
<1>2. b[1] = "WITH" /\ b[2] = Quoted /\ b[3] = "(" /\ b[4] = "a" /\ b[5] = Comma /\ b[6] = "a"
        /\ b[7] = ")"
      /\ b[8] = "AS" /\ b[9] = "("
  BY ColumnsBlock
<1>3. Level(b, 2) = 0 /\ Level(b, 7) = 0 /\ Level(b, 8) = 0 /\ Level(b, 9) = 1
  BY ColumnsBlock
<1>4. Depth(b, 3) = 0 /\ Depth(b, 7) = 0 /\ Depth(b, 9) = 0
  <2>1. 2 \in Nat /\ 6 \in Nat /\ 8 \in Nat /\ 2 + 1 = 3 /\ 6 + 1 = 7 /\ 8 + 1 = 9
    OBVIOUS
  <2>2. b[2 + 1] # ")" => Depth(b, 2 + 1) = Level(b, 2)
    BY <2>1, DepthIs
  <2>3. b[6 + 1] = ")" => Depth(b, 6 + 1) = Level(b, 6 + 1)
    BY <2>1, DepthIs
  <2>4. b[8 + 1] # ")" => Depth(b, 8 + 1) = Level(b, 8)
    BY <2>1, DepthIs
  <2>. QED BY <1>2, <1>3, <2>1, <2>2, <2>3, <2>4
<1>5. Matches(b, 3, 7)
  <2>1. \A k \in 3 + 1 .. 7 - 1 : b[k] # ")"
    BY <1>2, Marks
  <2>. QED BY <1>2, <1>4, <2>1 DEF Matches
<1>6. CteHead(b, 2, 9)
  <2>1. Quoted # "XMLNAMESPACES"
    BY DEF Quoted
  <2>2. 2 + 1 = 3 /\ 7 + 1 = 8 /\ 7 + 2 = 9 /\ 7 \in 2 + 2 .. Len(b) - 2
    BY <1>1
  <2>. DEFINE y == 7
  <2>3. y \in 2 + 2 .. Len(b) - 2 /\ Matches(b, 2 + 1, y) /\ b[y + 1] = "AS" /\ 9 = y + 2
    BY <1>2, <1>5, <2>2
  <2>. HIDE DEF y
  <2>. QED BY <1>2, <2>1, <2>2, <2>3 DEF CteHead
<1>7. \A k \in 9 .. Len(b) : Level(b, k) >= 1
  BY <1>1, <1>3
<1>8. 9 \in 4 .. Len(b) /\ Len(b) >= 4
  BY <1>1
<1>. QED BY <1>1, <1>2, <1>4, <1>6, <1>7, <1>8, PrefixBegins

LEMMA NamespacesPrefix ==
  ASSUME NEW b, b = <<"WITH", "XMLNAMESPACES", "(", String, "AS", "a", ")">>, open' = <<>>,
         at' = "defined"
  PROVE  Prefix(b)'
<1>1. b \in Seq(Words) /\ Len(b) = 7
  BY NamespacesBlock
<1>2. b[1] = "WITH" /\ b[2] = "XMLNAMESPACES" /\ b[3] = "(" /\ b[4] = String /\ b[5] = "AS"
        /\ b[6] = "a" /\ b[7] = ")"
  BY NamespacesBlock
<1>3. Level(b, 2) = 0 /\ Level(b, 7) = 0
  BY NamespacesBlock
<1>4. Depth(b, 3) = 0 /\ Depth(b, 7) = 0
  <2>1. 2 \in Nat /\ 6 \in Nat /\ 2 + 1 = 3 /\ 6 + 1 = 7
    OBVIOUS
  <2>2. b[2 + 1] # ")" => Depth(b, 2 + 1) = Level(b, 2)
    BY <2>1, DepthIs
  <2>3. b[6 + 1] = ")" => Depth(b, 6 + 1) = Level(b, 6 + 1)
    BY <2>1, DepthIs
  <2>. QED BY <1>2, <1>3, <2>1, <2>2, <2>3
<1>5. Matches(b, 3, 7)
  <2>1. \A k \in 3 + 1 .. 7 - 1 : b[k] # ")"
    BY <1>2 DEF String
  <2>. QED BY <1>2, <1>4, <2>1 DEF Matches
<1>6. CteAt(b, 2, Len(b) + 1)
  <2>1. 2 + 2 < Len(b) + 1 /\ 2 + 1 = 3 /\ Len(b) + 1 - 1 = 7
    BY <1>1
  <2>. QED BY <1>2, <1>5, <2>1 DEF CteAt
<1>7. PathTo(b, 2)
  <2>. DEFINE P == {2}
  <2>1. P \in SUBSET (2 .. 2) /\ 2 \in P /\ P \ {2} = {}
    OBVIOUS
  <2>. HIDE DEF P
  <2>. QED BY <2>1 DEF PathTo
<1>. DEFINE x == 2
<1>8. x \in 2 .. Len(b) /\ PathTo(b, x) /\ CteAt(b, x, Len(b) + 1)
  BY <1>1, <1>6, <1>7
<1>. HIDE DEF x
<1>. QED BY <1>2, <1>8 DEF Prefix

(* What is written first, when no statement begins with it.                *)
LEMMA FirstWritten ==
  ASSUME NEW b \in Seq(Words), Len(b) >= 1, NEW d \in Int, Shape(b, 0, d), Len(open') = d,
         statements' = <<>>, changes' = 0, nested' = 0, Prefix(b)',
         \A k \in 1 .. Len(b) : b[k] \notin Ruled
  PROVE  Written(b)'
<1>1. b # <<>>
  OBVIOUS
<1>2. Level(b, Len(b)) = Len(open') /\ \A i \in 0 .. Len(b) : Level(b, i) >= 0
  BY DEF Shape
<1>3. \A i \in 1 .. Len(b) : NotForbidden(b, i, "read")
  BY OthersPass
<1>. QED BY <1>1, <1>2, <1>3 DEF Written

(* The expressions before the first statement begin.                       *)
LEMMA FirstClause ==
  ASSUME NEW s, NEW lead, Bodied(s, lead, <<>>), at = "start",
         NEW b \in Seq(Words), Len(b) >= 1, NEW d \in Int, Shape(b, 0, d), Len(open') = d,
         text' = text \o b, statements' = statements, changes' = changes, nested' = nested, Prefix(b)',
         \A k \in 1 .. Len(b) : b[k] \notin Ruled,
         \/ at' = "query" /\ open' # <<>> /\ b[Len(b)] = "("
         \/ at' = "defined" /\ b[Len(b)] \in EndTokens
  PROVE  Bodied(s \o b, lead, <<>>)'
<1>1. s = <<>> /\ statements = <<>> /\ changes = 0 /\ nested = 0
  BY Start
<1>2. Written(b)'
  BY <1>1, FirstWritten
<1>3. s \o b = b
  BY <1>1, ConcatEmptySeq
<1>4. Written(s \o b)'
  BY <1>2, <1>3
<1>. QED BY <1>4, Extend

(* WITH begins a text that has no statement yet.                           *)
LEMMA WithKeeps ==
  ASSUME Typed, Typed', Nesting, Counted, NEW s, NEW lead, Bodied(s, lead, <<>>), With
  PROVE  \E b : Bodied(s \o b, lead, <<>>)'
<1>1. open = <<>> /\ at \in StatementEnds \cup {"start"}
  BY DEF With
<1>2. at # "start" => statements # <<>> /\ at \notin Inserting
  <2>1. at # "start" => ~Defining /\ at \notin Inserting
    BY <1>1 DEF Defining, StatementEnds, QueryEnds, Inserting
  <2>. QED BY <2>1, Here
<1>3. ASSUME NEW b \in Seq(Words), Len(b) >= 1, Shape(b, 0, 1), b[Len(b)] = "(",
             \A k \in 1 .. Len(b) : b[k] \notin Ruled, Nest(b, "defined"),
             open' # <<>> /\ open'[1] = "defined" => Prefix(b)'
      PROVE  Bodied(s \o b, lead, <<>>)'
  <2>1. CASE at # "start"
    BY <1>2, <1>3, <2>1, HarmlessNest
  <2>2. CASE at = "start"
    <3>1. /\ text' = text \o b /\ at' = "query" /\ open' = Append(open, "defined")
          /\ statements' = statements /\ changes' = changes /\ nested' = nested /\ enclosed' = enclosed
      BY <1>3 DEF Nest, Write
    <3>2. Len(open') = 1 /\ open' # <<>> /\ open'[1] = "defined" /\ 1 \in Int
      BY <1>1, <3>1
    <3>3. Prefix(b)'
      BY <1>3, <3>2
    <3>4. b \in Seq(Words) /\ Len(b) >= 1 /\ Shape(b, 0, 1) /\ b[Len(b)] = "("
            /\ \A k \in 1 .. Len(b) : b[k] \notin Ruled
      BY <1>3
    <3>. QED BY <2>2, <3>1, <3>2, <3>3, <3>4, FirstClause
  <2>. QED BY <2>1, <2>2
<1>4. CASE Nest(<<"WITH", "a", "AS", "(">>, "defined")
  <2>. DEFINE b == <<"WITH", "a", "AS", "(">>
  <2>1. b \in Seq(Words) /\ Len(b) = 4 /\ b[1] = "WITH" /\ b[2] = "a" /\ b[3] = "AS" /\ b[4] = "("
          /\ Shape(b, 0, 1)
    BY WithBlock
  <2>2. open' # <<>> /\ open'[1] = "defined" => Prefix(b)'
    BY WithPrefix
  <2>3. Nest(b, "defined")
    BY <1>4
  <2>. HIDE DEF b
  <2>4. (\A k \in 1 .. Len(b) : b[k] \notin Ruled) /\ Len(b) >= 1 /\ b[Len(b)] = "("
    BY <2>1 DEF Ruled
  <2>5. Bodied(s \o b, lead, <<>>)'
    BY <1>3, <2>1, <2>2, <2>3, <2>4
  <2>. QED BY <2>5
<1>5. CASE Nest(<<"WITH", Quoted, "(", "a", Comma, "a", ")", "AS", "(">>, "defined")
  <2>. DEFINE b == <<"WITH", Quoted, "(", "a", Comma, "a", ")", "AS", "(">>
  <2>1. b \in Seq(Words) /\ Len(b) = 9 /\ b[1] = "WITH" /\ b[2] = Quoted /\ b[3] = "("
          /\ b[4] = "a" /\ b[5] = Comma
        /\ b[6] = "a" /\ b[7] = ")" /\ b[8] = "AS" /\ b[9] = "(" /\ Shape(b, 0, 1)
    BY ColumnsBlock
  <2>2. open' # <<>> /\ open'[1] = "defined" => Prefix(b)'
    BY ColumnsPrefix
  <2>3. Nest(b, "defined")
    BY <1>5
  <2>. HIDE DEF b
  <2>4. (\A k \in 1 .. Len(b) : b[k] \notin Ruled) /\ Len(b) >= 1 /\ b[Len(b)] = "("
    <3>1. Comma \notin Ruled
      BY Marks DEF Ruled
    <3>. QED BY <2>1, <3>1 DEF Ruled, Quoted
  <2>5. Bodied(s \o b, lead, <<>>)'
    BY <1>3, <2>1, <2>2, <2>3, <2>4
  <2>. QED BY <2>5
<1>6. CASE Clause(<<"WITH", "XMLNAMESPACES", "(", String, "AS", "a", ")">>, "defined")
  <2>. DEFINE b == <<"WITH", "XMLNAMESPACES", "(", String, "AS", "a", ")">>
  <2>1. b \in Seq(Words) /\ Len(b) = 7 /\ b[1] = "WITH" /\ b[2] = "XMLNAMESPACES" /\ b[3] = "("
          /\ b[4] = String
        /\ b[5] = "AS" /\ b[6] = "a" /\ b[7] = ")" /\ Shape(b, 0, 0)
    BY NamespacesBlock
  <2>2. /\ text' = text \o b /\ at' = "defined" /\ open' = open
        /\ statements' = statements /\ changes' = changes /\ nested' = nested /\ enclosed' = enclosed
    BY <1>6 DEF Clause, Write
  <2>3. Prefix(b)'
    BY <1>1, <2>2, NamespacesPrefix
  <2>4. Clause(b, "defined")
    BY <1>6
  <2>. HIDE DEF b
  <2>5. (\A k \in 1 .. Len(b) : b[k] \notin Ruled) /\ Len(b) >= 1 /\ b[Len(b)] \in EndTokens
    BY <2>1 DEF Ruled, String, EndTokens
  <2>6. CASE at # "start"
    <3>1. "defined" \notin Inserting \cup Merging \cup {"selected", "start"}
      BY DEF Inserting, Merging
    <3>2. Bodied(s \o b, lead, <<>>)'
      BY <1>2, <2>1, <2>4, <2>5, <2>6, <3>1, HarmlessClause
    <3>. QED BY <3>2
  <2>7. CASE at = "start"
    <3>1. Len(open') = 0 /\ 0 \in Int
      BY <1>1, <2>2
    <3>2. Bodied(s \o b, lead, <<>>)'
      BY <2>1, <2>2, <2>3, <2>5, <2>7, <3>1, FirstClause
    <3>. QED BY <3>2
  <2>. QED BY <2>6, <2>7
<1>7. \/ Nest(<<"WITH", "a", "AS", "(">>, "defined")
      \/ Nest(<<"WITH", Quoted, "(", "a", Comma, "a", ")", "AS", "(">>, "defined")
      \/ Clause(<<"WITH", "XMLNAMESPACES", "(", String, "AS", "a", ")">>, "defined")
  BY WithHead, ColumnsHead DEF With
<1>. QED BY <1>4, <1>5, <1>6, <1>7

(* What a clause finds where it is written.                                *)
LEMMA Seen ==
  ASSUME NEW s \in Seq(Words), Len(s) >= 1, NEW b \in Seq(Words), Len(b) >= 1
  PROVE  /\ \A k \in 1 .. Len(b) : (s \o b)[Len(s) + k] = b[k]
         /\ (s \o b)[(Len(s) + 1) - 1] = s[Len(s)]
         /\ At(s \o b, (Len(s) + 1) - 1) = s[Len(s)]
         /\ \A k \in 1 .. Len(b) : At(s \o b, Len(s) + k) = b[k]
<1>1. \A k \in 1 .. Len(b) : (s \o b)[Len(s) + k] = b[k]
  OBVIOUS
<1>2. (Len(s) + 1) - 1 = Len(s) /\ Len(s) \in 1 .. Len(s) /\ Len(s) \in Nat /\ Len(b) \in Nat
  OBVIOUS
<1>3. (s \o b)[Len(s)] = s[Len(s)]
  BY <1>2
<1>4. DOMAIN (s \o b) = 1 .. Len(s) + Len(b)
  OBVIOUS
<1>5. Len(s) \in DOMAIN (s \o b) /\ \A k \in 1 .. Len(b) : Len(s) + k \in DOMAIN (s \o b)
  BY <1>2, <1>4
<1>. QED BY <1>1, <1>2, <1>3, <1>5 DEF At

(* The level of its first token.                                           *)
LEMMA SeenDepth ==
  ASSUME NEW s \in Seq(Words), NEW b \in Seq(Words), Len(b) >= 1
  PROVE  /\ \A k \in 1 .. Len(b) : Depth(s \o b, Len(s) + k) = Level(s, Len(s)) + Depth(b, k)
         /\ b[1] # ")" => Depth(s \o b, Len(s) + 1) = Level(s, Len(s))
<1>1. \A k \in 1 .. Len(b) : Depth(s \o b, Len(s) + k) = Level(s, Len(s)) + Depth(b, k)
  BY LevelAppended
<1>2. b[1] # ")" => Depth(s \o b, Len(s) + 1) = Level(s, Len(s))
  <2>1. 1 \in 1 .. Len(b) /\ Len(s) \in Nat
    OBVIOUS
  <2>2. Level(s, Len(s)) \in Int
    BY <2>1, LevelIs
  <2>3. b[1] # ")" => Depth(b, 1) = 0
    BY FirstDepth
  <2>4. Depth(s \o b, Len(s) + 1) = Level(s, Len(s)) + Depth(b, 1)
    BY <1>1, <2>1
  <2>. QED BY <2>2, <2>3, <2>4
<1>. QED BY <1>1, <1>2

(* Both, for a text the invariant describes.                               *)
LEMMA Setting ==
  ASSUME Typed, NEW s, NEW lead, Bodied(s, lead, <<>>), at # "start",
         NEW b \in Seq(Words), Len(b) >= 1, b[1] # ")"
  PROVE  /\ \A k \in 1 .. Len(b) : (s \o b)[Len(s) + k] = b[k]
         /\ (s \o b)[(Len(s) + 1) - 1] = s[Len(s)]
         /\ At(s \o b, (Len(s) + 1) - 1) = s[Len(s)]
         /\ \A k \in 1 .. Len(b) : At(s \o b, Len(s) + k) = b[k]
         /\ Len(s \o b) = Len(s) + Len(b)
         /\ Depth(s \o b, Len(s) + 1) = Len(open)
         /\ \A k \in 1 .. Len(b) : Depth(s \o b, Len(s) + k) = Len(open) + Depth(b, k)
         /\ Continues(s \o b, s)
<1>1. s \in Seq(Words) /\ Len(s) >= 1 /\ Level(s, Len(s)) = Len(open)
  BY Here
<1>2. \A k \in 1 .. Len(b) : (s \o b)[Len(s) + k] = b[k]
  BY <1>1, Seen
<1>3. (s \o b)[(Len(s) + 1) - 1] = s[Len(s)]
  BY <1>1, Seen
<1>4. At(s \o b, (Len(s) + 1) - 1) = s[Len(s)]
  BY <1>1, Seen
<1>5. \A k \in 1 .. Len(b) : At(s \o b, Len(s) + k) = b[k]
  BY <1>1, Seen
<1>6. Len(s \o b) = Len(s) + Len(b)
  BY <1>1
<1>7. Depth(s \o b, Len(s) + 1) = Len(open)
  <2>1. b[1] # ")" => Depth(s \o b, Len(s) + 1) = Level(s, Len(s))
    BY <1>1, SeenDepth
  <2>. QED BY <1>1, <2>1
<1>8. \A k \in 1 .. Len(b) : Depth(s \o b, Len(s) + k) = Len(open) + Depth(b, k)
  <2>1. \A k \in 1 .. Len(b) : Depth(s \o b, Len(s) + k) = Level(s, Len(s)) + Depth(b, k)
    BY <1>1, SeenDepth
  <2>. QED BY <1>1, <2>1
<1>9. Continues(s \o b, s)
  BY <1>1, AppendedContinues
<1>. QED BY <1>2, <1>3, <1>4, <1>5, <1>6, <1>7, <1>8, <1>9

(* A SELECT that continues a set operation, or stands in parentheses.      *)
LEMMA SelectOk ==
  ASSUME NEW t, NEW i, t[i] = "SELECT", Top(t, i) => AfterSetOperator(t, i)
  PROVE  NotForbidden(t, i, "read") /\ \A f : ReadOk(t, f, i) /\ WriteOk(t, f, i)
<1>1. "SELECT" \notin Forbidden("read") /\ "SELECT" \notin Forbidden("write")
        /\ "SELECT" \notin WriteKeywords
  BY DEF Forbidden, NonDmlKeywords, WriteKeywords
<1>. QED BY <1>1 DEF NotForbidden, ReadOk, WriteOk, SelectAllowed

(* The query after a set operator or a parenthesis.                        *)
LEMMA NextSelectKeeps ==
  ASSUME Typed, Typed', Counted, NEW s, NEW lead, Bodied(s, lead, <<>>),
         at = "query", Clause(<<"SELECT", "a">>, "selected")
  PROVE  \E b : Bodied(s \o b, lead, <<>>)'
<1>. DEFINE b == <<"SELECT", "a">>
            n == Len(s)
            t == s \o b
<1>1. b \in Seq(Words) /\ Len(b) = 2 /\ b[1] = "SELECT" /\ b[2] = "a" /\ Shape(b, 0, 0)
  BY SelectNextBlock
<1>2. text' = text \o b /\ at' = "selected" /\ open' = open /\ statements' = statements
        /\ changes' = changes /\ nested' = nested /\ enclosed' = enclosed
  BY DEF Clause, Write
<1>. HIDE DEF b
<1>3. at # "start" /\ at \notin Inserting /\ (statements = <<>> => open # <<>>)
  BY Querying
<1>4. /\ s \in Seq(Words) /\ n \in Nat /\ n >= 1 /\ Level(s, n) = Len(open) /\ Len(open) \in Nat
           /\ Written(s)
      /\ Ends(s) /\ Last(s) = s[n]
  BY <1>3, Here
<1>5. /\ \A k \in 1 .. Len(b) : t[n + k] = b[k]
      /\ t[(n + 1) - 1] = s[n] /\ Len(t) = n + Len(b) /\ Depth(t, n + 1) = Len(open)
           /\ Continues(t, s)
  <2>1. Len(b) >= 1 /\ b[1] # ")"
    BY <1>1
  <2>. QED BY <1>1, <1>3, <2>1, Setting
<1>. HIDE DEF t
<1>6. t[n + 1] = "SELECT" /\ t[n + 2] = "a" /\ Len(t) = n + 2
  BY <1>1, <1>5
<1>8. Top(t, n + 1) => AfterSetOperator(t, n + 1)
  <2>. SUFFICES ASSUME Top(t, n + 1) PROVE s[n] \in SetOperators
    BY <1>5 DEF AfterSetOperator
  <2>1. Len(open) = 0
    BY <1>5 DEF Top
  <2>2. open = <<>>
    BY <2>1 DEF Typed
  <2>. QED BY <1>4, <2>2 DEF Ends
<1>9. NotForbidden(t, n + 1, "read") /\ \A f : ReadOk(t, f, n + 1) /\ WriteOk(t, f, n + 1)
  BY <1>6, <1>8, SelectOk
<1>10. \A k \in 1 .. Len(b) : b[k] \in Ruled => k = 1
  BY <1>1 DEF Ruled
<1>11. ASSUME NEW f \in 1 .. Len(s), Judged(s, f), Sole PROVE Stage(t, f)'
  <2>1. Stage(s, f)
    BY <1>11 DEF Judged
  <2>2. at' \notin Inserting /\ at' \notin Merging
    BY <1>2 DEF Inserting, Merging
  <2>3. open' = <<>> =>
          \E i \in Len(s) + 1 .. Len(t) : t[i] = "SELECT" /\ Top(t, i)
            /\ \A j \in i + 1 .. Len(t) : t[j] # "OUTPUT"
    <3>1. open' = <<>> => Top(t, n + 1)
      BY <1>2, <1>5 DEF Top
    <3>2. n + 1 \in n + 1 .. Len(t) /\ \A j \in (n + 1) + 1 .. Len(t) : j = n + 2
      BY <1>4, <1>6
    <3>. QED BY <1>6, <3>1, <3>2
  <2>. QED BY <1>2, <1>3, <1>5, <2>1, <2>2, <2>3, StageOn
<1>12. statements = <<>> => Prefix(s \o b)'
  <2>1. Len(open) + 0 >= 0 /\ 0 \in Int /\ (open # <<>> => Len(open) + 0 >= 1)
    <3>1. open # <<>> => Len(open) # 0
      BY DEF Typed
    <3>. QED BY <1>4, <3>1
  <2>. QED BY <1>1, <1>2, <1>3, <1>4, <2>1, PrefixInside
<1>13. Len(b) >= 1 /\ 0 \in Int /\ Len(open) + 0 >= 0 /\ Len(open') = Len(open) + 0
         /\ at' # "start" /\ at' # "query"
       /\ b[Len(b)] \in EndTokens
  BY <1>1, <1>2, <1>4 DEF EndTokens
<1>14. \A k \in 1 .. Len(b) : b[k] \in Ruled =>
         NotForbidden(t, n + k, "read") /\ \A f : ReadOk(t, f, n + k) /\ WriteOk(t, f, n + k)
  BY <1>9, <1>10
<1>15. /\ statements = <<>> => \A k \in 1 .. Len(b) : b[k] \in Ruled =>
            NotForbidden(s \o b, Len(s) + k, "read")
       /\ \A f \in 1 .. Len(s) : Judged(s, f) /\ statements # <<>> =>
           /\ Single /\ changes = 0 /\ nested = 0 => \A k \in 1 .. Len(b) : b[k] \in Ruled =>
                ReadOk(s \o b, f, Len(s) + k)
           /\ First \in Writing /\ Single /\ changes = 1 =>
                \A k \in 1 .. Len(b) : b[k] \in Ruled => WriteOk(s \o b, f, Len(s) + k)
           /\ Sole => Stage(s \o b, f)'
  BY <1>11, <1>14 DEF t
<1>16. Bodied(s \o b, lead, <<>>)'
  BY <1>1, <1>2, <1>3, <1>12, <1>13, <1>15, ClauseKeeps
<1>. QED BY <1>16

(* USE after a comma is a hint.                                            *)
LEMMA HintOk ==
  ASSUME NEW t, NEW i, t[i] = "USE", At(t, i - 1) = Comma
  PROVE  \A f : ReadOk(t, f, i) /\ WriteOk(t, f, i)
BY DEF NotForbidden, IsQueryHintUse, ReadOk, WriteOk, WriteKeywords

(* The stages that say nothing of what follows.                            *)
LEMMA QuietStage ==
  ASSUME NEW s, NEW t, Continues(t, s), NEW f \in 1 .. Len(s), Stage(s, f),
         statements' = statements, changes' = changes, enclosed => enclosed', at \notin Inserting,
         at' \notin Inserting \cup Merging \cup {"selected"}
  PROVE  Stage(t, f)'
BY StageOn

(* The hints of a query: USE is no statement there.                        *)
LEMMA OptionKeeps ==
  ASSUME Typed, Typed', Counted, NEW s, NEW lead, Bodied(s, lead, <<>>), Option
  PROVE  \E b : Bodied(s \o b, lead, <<>>)'
<1>. DEFINE b == <<"OPTION", "(", "MAXDOP", "a", Comma, "USE", "HINT", "(", String, ")", ")">>
            n == Len(s)
            t == s \o b
<1>1. /\ b \in Seq(Words) /\ Len(b) = 11 /\ Shape(b, 0, 0)
      /\ b[1] = "OPTION" /\ b[2] = "(" /\ b[3] = "MAXDOP" /\ b[4] = "a" /\ b[5] = Comma
      /\ b[6] = "USE" /\ b[7] = "HINT" /\ b[8] = "(" /\ b[9] = String /\ b[10] = ")" /\ b[11] = ")"
  BY OptionBlock
<1>2. /\ text' = text \o b /\ at' = "finished" /\ open' = open /\ statements' = statements
           /\ changes' = changes /\ nested' = nested /\ enclosed' = enclosed
      /\ open = <<>> /\ at \in QueryEnds \cup {"changed", "merged"}
  BY DEF Option, Clause, Write
<1>. HIDE DEF b
<1>3. at # "start" /\ at \notin Inserting /\ ~Defining
  BY <1>2 DEF QueryEnds, Inserting, Defining
<1>4. statements # <<>> /\ n \in Nat /\ Len(open) \in Nat
  BY <1>3, Here
<1>5. /\ \A k \in 1 .. Len(b) : t[n + k] = b[k]
      /\ \A k \in 1 .. Len(b) : At(t, n + k) = b[k]
      /\ Continues(t, s)
  <2>1. Len(b) >= 1 /\ b[1] # ")"
    BY <1>1
  <2>. QED BY <1>1, <1>3, <2>1, Setting
<1>. HIDE DEF t
<1>6. \A f : ReadOk(t, f, n + 6) /\ WriteOk(t, f, n + 6)
  <2>1. t[n + 6] = "USE" /\ At(t, n + 5) = Comma /\ (n + 6) - 1 = n + 5
    BY <1>1, <1>4, <1>5
  <2>. QED BY <2>1, HintOk
<1>7. \A k \in 1 .. Len(b) : b[k] \in Ruled => k = 6
  <2>1. Comma \notin Ruled
    BY Marks DEF Ruled
  <2>. QED BY <1>1, <2>1 DEF Ruled, String
<1>8. \A f : \A k \in 1 .. Len(b) : b[k] \in Ruled => ReadOk(t, f, n + k) /\ WriteOk(t, f, n + k)
  BY <1>6, <1>7
<1>9. ASSUME NEW f \in 1 .. Len(s), Judged(s, f), Sole PROVE Stage(t, f)'
  <2>1. Stage(s, f)
    BY <1>9 DEF Judged
  <2>2. at' \notin Inserting \cup Merging \cup {"selected"}
    BY <1>2 DEF Inserting, Merging
  <2>. QED BY <1>2, <1>3, <1>5, <2>1, <2>2, QuietStage
<1>10. Len(b) >= 1 /\ 0 \in Int /\ Len(open) + 0 >= 0 /\ Len(open') = Len(open) + 0
         /\ at' # "start" /\ at' # "query"
       /\ b[Len(b)] \in EndTokens
  BY <1>1, <1>2, <1>4 DEF EndTokens
<1>11. /\ statements = <<>> => Prefix(s \o b)'
       /\ statements = <<>> => \A k \in 1 .. Len(b) : b[k] \in Ruled =>
            NotForbidden(s \o b, Len(s) + k, "read")
       /\ \A f \in 1 .. Len(s) : Judged(s, f) /\ statements # <<>> =>
           /\ Single /\ changes = 0 /\ nested = 0 => \A k \in 1 .. Len(b) : b[k] \in Ruled =>
                ReadOk(s \o b, f, Len(s) + k)
           /\ First \in Writing /\ Single /\ changes = 1 =>
                \A k \in 1 .. Len(b) : b[k] \in Ruled => WriteOk(s \o b, f, Len(s) + k)
           /\ Sole => Stage(s \o b, f)'
  BY <1>4, <1>8, <1>9 DEF t
<1>12. Bodied(s \o b, lead, <<>>)'
  BY <1>1, <1>2, <1>3, <1>10, <1>11, ClauseKeeps
<1>. QED BY <1>12

(* A clause of a statement that changes rows.                              *)
LEMMA Changing ==
  ASSUME Typed, Nesting, Counted, NEW s, NEW lead, Bodied(s, lead, <<>>), at \in ChangeClauses
  PROVE  at # "start" /\ open = <<>> /\ Len(open) = 0 /\ statements # <<>> /\ changes >= 1
           /\ changes \in Nat
<1>1. at # "start" /\ at \notin QueryEnds \cup {"query"}
  BY DEF ChangeClauses, Inserting, Merging, QueryEnds
<1>. QED BY <1>1 DEF Counted, Nesting, Typed

(* A clause of a change passes as a write when its words do, and never as  *)
(* a read.                                                                 *)
LEMMA ChangeClause ==
  ASSUME Typed, Typed', Nesting, Counted, NEW s, NEW lead, Bodied(s, lead, <<>>),
         at \in ChangeClauses,
         NEW b \in Seq(Words), Len(b) >= 1, Shape(b, 0, 0), NEW clause, Clause(b, clause),
         clause # "start", clause # "query", b[Len(b)] \in EndTokens,
         \A f \in 1 .. Len(s) : Judged(s, f) =>
           /\ Single => \A k \in 1 .. Len(b) : b[k] \in Ruled => WriteOk(s \o b, f, Len(s) + k)
           /\ Sole => Stage(s \o b, f)'
  PROVE  Bodied(s \o b, lead, <<>>)'
<1>1. text' = text \o b /\ at' = clause /\ open' = open /\ statements' = statements
        /\ changes' = changes /\ nested' = nested /\ enclosed' = enclosed
  BY DEF Clause, Write
<1>2. at # "start" /\ Len(open) = 0 /\ statements # <<>> /\ changes >= 1 /\ changes \in Nat
  BY Changing
<1>3. 0 \in Int /\ Len(open) + 0 >= 0 /\ Len(open') = Len(open) + 0 /\ at' # "start"
        /\ at' # "query" /\ changes # 0
  BY <1>1, <1>2
<1>4. \A f \in 1 .. Len(s) : Judged(s, f) /\ statements # <<>> =>
           /\ Single /\ changes = 0 /\ nested = 0 => \A k \in 1 .. Len(b) : b[k] \in Ruled =>
                ReadOk(s \o b, f, Len(s) + k)
           /\ First \in Writing /\ Single /\ changes = 1 =>
                \A k \in 1 .. Len(b) : b[k] \in Ruled => WriteOk(s \o b, f, Len(s) + k)
           /\ Sole => Stage(s \o b, f)'
  BY <1>3
<1>. QED BY <1>1, <1>2, <1>3, <1>4, ClauseKeeps

(* The rows of an INSERT,                                                  *)
LEMMA InsertValuesKeeps ==
  ASSUME Typed, Typed', Nesting, Counted, NEW s, NEW lead, Bodied(s, lead, <<>>), InsertValues
  PROVE  \E b : Bodied(s \o b, lead, <<>>)'
<1>. DEFINE b == <<"VALUES", "(", "a", ")">>
            n == Len(s)
            t == s \o b
<1>1. b \in Seq(Words) /\ Len(b) = 4 /\ b[1] = "VALUES" /\ b[2] = "(" /\ b[3] = "a" /\ b[4] = ")"
        /\ Shape(b, 0, 0)
  BY ValuesBlock
<1>2. /\ Clause(b, "finished") /\ at \in Inserting /\ at' = "finished"
      /\ statements' = statements /\ changes' = changes /\ enclosed' = enclosed
  BY DEF InsertValues, Clause, Write, Inserting
<1>. HIDE DEF b
<1>3. at \in ChangeClauses
  BY <1>2 DEF ChangeClauses
<1>4. at # "start" /\ Len(open) = 0
  BY <1>3, Changing
<1>5. n \in Nat
  BY <1>4, Here
<1>6. /\ \A k \in 1 .. Len(b) : t[n + k] = b[k]
      /\ Len(t) = n + Len(b) /\ Depth(t, n + 1) = Len(open) /\ Continues(t, s)
  <2>1. Len(b) >= 1 /\ b[1] # ")"
    BY <1>1
  <2>. QED BY <1>1, <1>4, <2>1, Setting
<1>. HIDE DEF t
<1>7. n + 1 \in n + 1 .. Len(t) /\ t[n + 1] = "VALUES" /\ Top(t, n + 1)
  BY <1>1, <1>4, <1>5, <1>6 DEF Top
<1>8. ASSUME NEW f \in 1 .. Len(s), Judged(s, f), Sole PROVE Stage(t, f)'
  <2>1. Stage(s, f)
    BY <1>8 DEF Judged
  <2>2. at' \notin Inserting \cup Merging \cup {"selected"}
    BY <1>2 DEF Inserting, Merging
  <2>. QED BY <1>2, <1>6, <1>7, <2>1, <2>2, StageOn
<1>9. /\ \A k \in 1 .. Len(b) : b[k] \notin Ruled
      /\ Len(b) >= 1 /\ b[Len(b)] \in EndTokens
  BY <1>1 DEF Ruled, EndTokens
<1>10. \A f \in 1 .. Len(s) : Judged(s, f) =>
           /\ Single => \A k \in 1 .. Len(b) : b[k] \in Ruled => WriteOk(s \o b, f, Len(s) + k)
           /\ Sole => Stage(s \o b, f)'
  BY <1>8, <1>9 DEF t
<1>11. Bodied(s \o b, lead, <<>>)'
  BY <1>1, <1>2, <1>3, <1>9, <1>10, ChangeClause
<1>. QED BY <1>11

(* or its query.                                                           *)
LEMMA InsertQueryKeeps ==
  ASSUME Typed, Typed', Nesting, Counted, NEW s, NEW lead, Bodied(s, lead, <<>>), InsertQuery
  PROVE  \E b : Bodied(s \o b, lead, <<>>)'
<1>. DEFINE b == <<"SELECT", "a">>
            n == Len(s)
            t == s \o b
<1>1. b \in Seq(Words) /\ Len(b) = 2 /\ b[1] = "SELECT" /\ b[2] = "a" /\ Shape(b, 0, 0)
  BY SelectNextBlock
<1>2. /\ Clause(b, "selected") /\ at \in Inserting /\ at' = "selected"
      /\ statements' = statements /\ changes' = changes /\ enclosed' = enclosed
  BY DEF InsertQuery, Clause, Write, Inserting
<1>. HIDE DEF b
<1>3. at \in ChangeClauses
  BY <1>2 DEF ChangeClauses
<1>4. at # "start" /\ Len(open) = 0
  BY <1>3, Changing
<1>5. n \in Nat
  BY <1>4, Here
<1>6. /\ \A k \in 1 .. Len(b) : t[n + k] = b[k]
      /\ Len(t) = n + Len(b) /\ Depth(t, n + 1) = Len(open) /\ Continues(t, s)
  <2>1. Len(b) >= 1 /\ b[1] # ")"
    BY <1>1
  <2>. QED BY <1>1, <1>4, <2>1, Setting
<1>. HIDE DEF t
<1>7. /\ n + 1 \in n + 1 .. Len(t) /\ t[n + 1] = "SELECT" /\ Top(t, n + 1) /\ t[n + 2] = "a"
      /\ \A j \in (n + 1) + 1 .. Len(t) : j = n + 2
  BY <1>1, <1>4, <1>5, <1>6 DEF Top
<1>8. ASSUME NEW f \in 1 .. Len(s), Judged(s, f), Sole PROVE Stage(t, f)'
  <2>1. Stage(s, f)
    BY <1>8 DEF Judged
  <2>2. at' \notin Inserting \cup Merging
    BY <1>2 DEF Inserting, Merging
  <2>3. \E i \in Len(s) + 1 .. Len(t) : t[i] = "SELECT" /\ Top(t, i)
          /\ \A j \in i + 1 .. Len(t) : t[j] # "OUTPUT"
    BY <1>7
  <2>4. \E i \in Len(s) + 1 .. Len(t) : Top(t, i) /\ t[i] \in {"SELECT", "VALUES"}
    BY <1>7
  <2>. QED BY <1>2, <1>6, <2>1, <2>2, <2>3, <2>4, StageOn
<1>9. ASSUME NEW f \in 1 .. Len(s), Judged(s, f), Single PROVE WriteOk(t, f, n + 1)
  <2>1. s[f] = "INSERT" /\ \A i \in f + 1 .. n : Top(s, i) => s[i] \notin {"SELECT", "VALUES"}
    BY <1>2, <1>9 DEF Judged, Stage, Sole
  <2>2. t[f] = s[f] /\ (n + 1) - 1 = n /\ \A i \in f + 1 .. n : i \in 1 .. Len(s)
    BY <1>5, <1>6 DEF Continues
  <2>3. \A i \in f + 1 .. n : t[i] = s[i] /\ Depth(t, i) = Depth(s, i)
    BY <1>6, <2>2 DEF Continues
  <2>4. TopLevel(t, "SELECT", f + 1 .. n) = {} /\ TopLevel(t, "VALUES", f + 1 .. n) = {}
    BY <2>1, <2>3 DEF TopLevel, Top
  <2>5. SelectAllowed(t, f, n + 1)
    BY <2>1, <2>2, <2>4 DEF SelectAllowed
  <2>. QED BY <1>7, <2>5 DEF WriteOk, NotForbidden, Forbidden, NonDmlKeywords, WriteKeywords
<1>10. /\ \A k \in 1 .. Len(b) : b[k] \in Ruled => k = 1
       /\ Len(b) >= 1 /\ b[Len(b)] \in EndTokens
  BY <1>1 DEF Ruled, EndTokens
<1>11. \A f \in 1 .. Len(s) : Judged(s, f) =>
           /\ Single => \A k \in 1 .. Len(b) : b[k] \in Ruled => WriteOk(s \o b, f, Len(s) + k)
           /\ Sole => Stage(s \o b, f)'
  BY <1>8, <1>9, <1>10 DEF t
<1>12. Bodied(s \o b, lead, <<>>)'
  BY <1>1, <1>2, <1>3, <1>10, <1>11, ChangeClause
<1>. QED BY <1>12

(* What a branch of a MERGE, and the target of an OUTPUT, may begin with.  *)
LEMMA BranchOk ==
  ASSUME NEW t, NEW f, NEW i, t[f] = "MERGE",
         \/ t[i] \in WriteKeywords /\ t[i - 1] = "THEN"
         \/ t[i] = "SET" /\ t[i - 1] = "UPDATE"
  PROVE  WriteOk(t, f, i)
BY DEF WriteOk, NotForbidden, Forbidden, NonDmlKeywords, WriteKeywords, WriteAllowed, SetAllowed

(* The target of an OUTPUT clause.                                         *)
LEMMA TargetOk ==
  ASSUME NEW t, NEW f, NEW i, t[i] = "INTO", OutputOpen(t, f, i)
  PROVE  WriteOk(t, f, i)
BY DEF WriteOk, NotForbidden, Forbidden, NonDmlKeywords, WriteKeywords, IntoAllowed

(* A branch of a MERGE.                                                    *)
LEMMA BranchKeeps ==
  ASSUME Typed, Typed', Nesting, Counted, NEW s, NEW lead, Bodied(s, lead, <<>>), at \in Merging,
         NEW b \in Seq(Words), Len(b) >= 4, Shape(b, 0, 0), Clause(b, "merged"),
         b[1] = "WHEN", b[3] = "THEN", b[Len(b)] \in EndTokens,
         \A k \in 1 .. Len(b) : b[k] \in Ruled =>
           \/ k = 4 /\ b[4] \in WriteKeywords
           \/ k = 5 /\ b[5] = "SET" /\ b[4] = "UPDATE"
  PROVE  Bodied(s \o b, lead, <<>>)'
<1>. DEFINE n == Len(s)
            t == s \o b
<1>1. /\ at' = "merged" /\ statements' = statements /\ changes' = changes /\ enclosed' = enclosed
      /\ at \in ChangeClauses /\ at \notin Inserting
  BY DEF Clause, Write, ChangeClauses, Merging, Inserting
<1>2. at # "start"
  BY <1>1, Changing
<1>3. n \in Nat
  BY <1>2, Here
<1>4. (\A k \in 1 .. Len(b) : t[n + k] = b[k]) /\ Continues(t, s)
  <2>1. Len(b) >= 1 /\ b[1] # ")"
    OBVIOUS
  <2>. QED BY <1>2, <2>1, Setting
<1>. HIDE DEF t
<1>5. ASSUME NEW f \in 1 .. n, Judged(s, f), Sole PROVE Stage(t, f)'
  <2>1. Stage(s, f)
    BY <1>5 DEF Judged
  <2>2. at' \notin Inserting /\ at' # "selected"
    BY <1>1 DEF Inserting
  <2>. QED BY <1>1, <1>4, <2>1, <2>2, StageOn
<1>6. ASSUME NEW f \in 1 .. n, Judged(s, f), Single, NEW k \in 1 .. Len(b), b[k] \in Ruled
      PROVE WriteOk(t, f, n + k)
  <2>1. t[f] = "MERGE"
    <3>1. Stage(s, f)
      BY <1>6 DEF Judged, Sole
    <3>2. s[f] = "MERGE"
      BY <1>6, <3>1 DEF Stage
    <3>. QED BY <1>4, <3>2 DEF Continues
  <2>2. CASE k = 4 /\ b[4] \in WriteKeywords
    <3>1. t[n + 4] = b[4] /\ t[n + 3] = b[3] /\ (n + 4) - 1 = n + 3
      BY <1>3, <1>4, <2>2
    <3>. QED BY <2>1, <2>2, <3>1, BranchOk
  <2>3. CASE k = 5 /\ b[5] = "SET" /\ b[4] = "UPDATE"
    <3>1. t[n + 5] = b[5] /\ t[n + 4] = b[4] /\ (n + 5) - 1 = n + 4
      BY <1>3, <1>4, <2>3
    <3>. QED BY <2>1, <2>3, <3>1, BranchOk
  <2>. QED BY <1>6, <2>2, <2>3
<1>7. \A f \in 1 .. Len(s) : Judged(s, f) =>
           /\ Single => \A k \in 1 .. Len(b) : b[k] \in Ruled => WriteOk(s \o b, f, Len(s) + k)
           /\ Sole => Stage(s \o b, f)'
  BY <1>5, <1>6 DEF t
<1>8. Len(b) >= 1 /\ "merged" # "start" /\ "merged" # "query"
  OBVIOUS
<1>. QED BY <1>1, <1>7, <1>8, ChangeClause

(* Every branch of a MERGE.                                                *)
LEMMA MergeWhenKeeps ==
  ASSUME Typed, Typed', Nesting, Counted, NEW s, NEW lead, Bodied(s, lead, <<>>), MergeWhen
  PROVE  \E b : Bodied(s \o b, lead, <<>>)'
<1>1. at \in Merging
  BY DEF MergeWhen, Merging
<1>2. \/ Clause(<<"WHEN", "MATCHED", "THEN", "UPDATE", "SET", "a", "a">>, "merged")
      \/ Clause(<<"WHEN", "MATCHED", "THEN", "DELETE">>, "merged")
      \/ Clause(<<"WHEN", "MATCHED", "THEN", "INSERT", "(", "a", ")", "VALUES", "(", "a", ")">>,
           "merged")
  BY WhenUpdateHead, WhenDeleteHead, WhenInsertHead DEF MergeWhen
<1>3. CASE Clause(<<"WHEN", "MATCHED", "THEN", "UPDATE", "SET", "a", "a">>, "merged")
  <2>. DEFINE b == <<"WHEN", "MATCHED", "THEN", "UPDATE", "SET", "a", "a">>
  <2>1. /\ b \in Seq(Words) /\ Len(b) = 7 /\ Shape(b, 0, 0)
        /\ b[1] = "WHEN" /\ b[2] = "MATCHED" /\ b[3] = "THEN" /\ b[4] = "UPDATE" /\ b[5] = "SET"
             /\ b[6] = "a" /\ b[7] = "a"
    BY WhenUpdateBlock
  <2>2. Clause(b, "merged")
    BY <1>3
  <2>. HIDE DEF b
  <2>3. /\ Len(b) >= 4 /\ b[Len(b)] \in EndTokens
        /\ \A k \in 1 .. Len(b) : b[k] \in Ruled =>
             \/ k = 4 /\ b[4] \in WriteKeywords
             \/ k = 5 /\ b[5] = "SET" /\ b[4] = "UPDATE"
    BY <2>1 DEF Ruled, EndTokens, WriteKeywords
  <2>4. Bodied(s \o b, lead, <<>>)'
    BY <1>1, <2>1, <2>2, <2>3, BranchKeeps
  <2>. QED BY <2>4
<1>4. CASE Clause(<<"WHEN", "MATCHED", "THEN", "DELETE">>, "merged")
  <2>. DEFINE b == <<"WHEN", "MATCHED", "THEN", "DELETE">>
  <2>1. /\ b \in Seq(Words) /\ Len(b) = 4 /\ Shape(b, 0, 0)
        /\ b[1] = "WHEN" /\ b[2] = "MATCHED" /\ b[3] = "THEN" /\ b[4] = "DELETE"
    BY WhenDeleteBlock
  <2>2. Clause(b, "merged")
    BY <1>4
  <2>. HIDE DEF b
  <2>3. /\ Len(b) >= 4 /\ b[Len(b)] \in EndTokens
        /\ \A k \in 1 .. Len(b) : b[k] \in Ruled =>
             \/ k = 4 /\ b[4] \in WriteKeywords
             \/ k = 5 /\ b[5] = "SET" /\ b[4] = "UPDATE"
    BY <2>1 DEF Ruled, EndTokens, WriteKeywords
  <2>4. Bodied(s \o b, lead, <<>>)'
    BY <1>1, <2>1, <2>2, <2>3, BranchKeeps
  <2>. QED BY <2>4
<1>5. CASE Clause(<<"WHEN", "MATCHED", "THEN", "INSERT", "(", "a", ")", "VALUES", "(", "a", ")">>,
             "merged")
  <2>. DEFINE b == <<"WHEN", "MATCHED", "THEN", "INSERT", "(", "a", ")", "VALUES", "(", "a", ")">>
  <2>1. /\ b \in Seq(Words) /\ Len(b) = 11 /\ Shape(b, 0, 0)
        /\ b[1] = "WHEN" /\ b[2] = "MATCHED" /\ b[3] = "THEN" /\ b[4] = "INSERT" /\ b[5] = "("
             /\ b[6] = "a"
        /\ b[7] = ")" /\ b[8] = "VALUES" /\ b[9] = "(" /\ b[10] = "a" /\ b[11] = ")"
    BY WhenInsertBlock
  <2>2. Clause(b, "merged")
    BY <1>5
  <2>. HIDE DEF b
  <2>3. /\ Len(b) >= 4 /\ b[Len(b)] \in EndTokens
        /\ \A k \in 1 .. Len(b) : b[k] \in Ruled =>
             \/ k = 4 /\ b[4] \in WriteKeywords
             \/ k = 5 /\ b[5] = "SET" /\ b[4] = "UPDATE"
    BY <2>1 DEF Ruled, EndTokens, WriteKeywords
  <2>4. Bodied(s \o b, lead, <<>>)'
    BY <1>1, <2>1, <2>2, <2>3, BranchKeeps
  <2>. QED BY <2>4
<1>. QED BY <1>2, <1>3, <1>4, <1>5

(* An OUTPUT clause, with what the next clause is called.                  *)
LEMMA OutputClause ==
  ASSUME Typed, Typed', Nesting, Counted, NEW s, NEW lead, Bodied(s, lead, <<>>),
         NEW b \in Seq(Words), NEW clause, Clause(b, clause), Shape(b, 0, 0),
         \/ at = "inserting" /\ clause = "output"
         \/ at = "changed" /\ clause = "returned"
         \/ at = "merged" /\ clause = "finished",
         b[1] = "OUTPUT", b[2] = "a",
         Len(b) = 2 \/ (Len(b) = 4 /\ b[3] = "INTO" /\ b[4] = "t")
  PROVE  Bodied(s \o b, lead, <<>>)'
<1>. DEFINE n == Len(s)
            t == s \o b
<1>1. /\ at' = clause /\ statements' = statements /\ changes' = changes /\ enclosed' = enclosed
      /\ at \in ChangeClauses
  BY DEF Clause, Write, ChangeClauses, Merging, Inserting
<1>2. at # "start" /\ Len(open) = 0
  BY <1>1, Changing
<1>3. n \in Nat
  BY <1>2, Here
<1>4. /\ \A k \in 1 .. Len(b) : t[n + k] = b[k]
      /\ Len(t) = n + Len(b) /\ Depth(t, n + 1) = Len(open) /\ Continues(t, s)
  <2>1. Len(b) >= 1 /\ b[1] # ")"
    OBVIOUS
  <2>. QED BY <1>2, <2>1, Setting
<1>. HIDE DEF t
<1>5. ASSUME NEW i \in n + 1 .. Len(t) PROVE t[i] \notin {"SELECT", "VALUES"}
  <2>1. PICK k \in 1 .. Len(b) : i = n + k
    <3>1. i - n \in 1 .. Len(b) /\ i = n + (i - n)
      BY <1>3, <1>4
    <3>. QED BY <3>1
  <2>2. b[k] \notin {"SELECT", "VALUES"}
    OBVIOUS
  <2>. QED BY <1>4, <2>1, <2>2
<1>6. ASSUME NEW f \in 1 .. n, Judged(s, f), Sole PROVE Stage(t, f)'
  <2>1. Stage(s, f)
    BY <1>6 DEF Judged
  <2>2. at' \in Inserting <=> at \in Inserting
    BY <1>1 DEF Inserting
  <2>3. at' \notin Merging /\ at' # "selected"
    BY <1>1 DEF Merging
  <2>. QED BY <1>1, <1>4, <1>5, <2>1, <2>2, <2>3, StageOn
<1>7. ASSUME NEW f \in 1 .. n, NEW k \in 1 .. Len(b), b[k] \in Ruled PROVE WriteOk(t, f, n + k)
  <2>1. k = 3 /\ Len(b) = 4 /\ b[3] = "INTO"
    BY <1>7 DEF Ruled
  <2>2. t[n + 1] = "OUTPUT" /\ t[n + 2] = "a" /\ t[n + 3] = "INTO"
    BY <1>4, <2>1
  <2>3. n + 1 \in f + 1 .. (n + 3) - 1 /\ \A i \in n + 1 .. (n + 3) - 1 : i = n + 1 \/ i = n + 2
    BY <1>3
  <2>4. n + 1 \in TopLevel(t, "OUTPUT", f + 1 .. (n + 3) - 1)
    BY <1>2, <1>4, <2>2, <2>3 DEF TopLevel
  <2>5. TopLevel(t, "SELECT", n + 1 .. (n + 3) - 1) = {}
    BY <2>2, <2>3 DEF TopLevel
  <2>6. OutputOpen(t, f, n + 3)
    BY <2>4, <2>5 DEF OutputOpen
  <2>. QED BY <2>1, <2>2, <2>6, TargetOk
<1>8. \A f \in 1 .. Len(s) : Judged(s, f) =>
           /\ Single => \A k \in 1 .. Len(b) : b[k] \in Ruled => WriteOk(s \o b, f, Len(s) + k)
           /\ Sole => Stage(s \o b, f)'
  BY <1>6, <1>7 DEF t
<1>9. Len(b) >= 1 /\ clause # "start" /\ clause # "query" /\ b[Len(b)] \in EndTokens
  BY DEF EndTokens
<1>. QED BY <1>1, <1>8, <1>9, ChangeClause

(* OUTPUT, with a target or none.                                          *)
LEMMA OutputKeeps ==
  ASSUME Typed, Typed', Nesting, Counted, NEW s, NEW lead, Bodied(s, lead, <<>>), Output
  PROVE  \E b : Bodied(s \o b, lead, <<>>)'
<1>1. PICK clause \in {"output", "returned", "finished"} :
         /\ \/ at = "inserting" /\ clause = "output"
            \/ at = "changed" /\ clause = "returned"
            \/ at = "merged" /\ clause = "finished"
         /\ Clause(<<"OUTPUT", "a">>, clause) \/ Clause(<<"OUTPUT", "a", "INTO", "t">>, clause)
  BY DEF Output
<1>2. CASE Clause(<<"OUTPUT", "a">>, clause)
  <2>. DEFINE b == <<"OUTPUT", "a">>
  <2>1. b \in Seq(Words) /\ Len(b) = 2 /\ Shape(b, 0, 0) /\ b[1] = "OUTPUT" /\ b[2] = "a"
    BY OutputBlock
  <2>2. Clause(b, clause)
    BY <1>2
  <2>. HIDE DEF b
  <2>3. Bodied(s \o b, lead, <<>>)'
    BY <1>1, <2>1, <2>2, OutputClause
  <2>. QED BY <2>3
<1>3. CASE Clause(<<"OUTPUT", "a", "INTO", "t">>, clause)
  <2>. DEFINE b == <<"OUTPUT", "a", "INTO", "t">>
  <2>1. b \in Seq(Words) /\ Len(b) = 4 /\ Shape(b, 0, 0) /\ b[1] = "OUTPUT" /\ b[2] = "a"
          /\ b[3] = "INTO" /\ b[4] = "t"
    BY OutputIntoBlock
  <2>2. Clause(b, clause)
    BY <1>3
  <2>. HIDE DEF b
  <2>3. Bodied(s \o b, lead, <<>>)'
    BY <1>1, <2>1, <2>2, OutputClause
  <2>. QED BY <2>3
<1>. QED BY <1>1, <1>2, <1>3

(* Words no statement holds.                                               *)
LEMMA NotOk ==
  ASSUME NEW t, NEW i
  PROVE  /\ t[i] \in {"INTO", "INSERT", "UPDATE", "DELETE", "MERGE", "SET", "EXEC"} =>
              \A f : ~ReadOk(t, f, i)
         /\ t[i] = "EXEC" => \A f : ~WriteOk(t, f, i)
BY DEF ReadOk, WriteOk, NotForbidden, Forbidden, NonDmlKeywords, WriteKeywords, IsQueryHintUse

(* SELECT ... INTO is a change of a statement that reads, so neither mode  *)
(* accepts it.                                                             *)
LEMMA SelectIntoKeeps ==
  ASSUME Typed, Typed', Counted, NEW s, NEW lead, Bodied(s, lead, <<>>), SelectInto
  PROVE  \E b : Bodied(s \o b, lead, <<>>)'
<1>. DEFINE b == <<"INTO", "t">>
            n == Len(s)
            t == s \o b
<1>1. b \in Seq(Words) /\ Len(b) = 2 /\ b[1] = "INTO" /\ b[2] = "t" /\ Shape(b, 0, 0)
  BY IntoBlock
<1>2. /\ text' = text \o b /\ at' = "selected" /\ open' = open /\ statements' = statements
      /\ changes' = changes + 1 /\ nested' = nested /\ enclosed' = enclosed
      /\ open = <<>> /\ at = "selected"
  BY DEF SelectInto, Write
<1>. HIDE DEF b
<1>3. at # "start" /\ at \notin Inserting /\ ~Defining /\ at' \notin Inserting /\ at' \notin Merging
  BY <1>2 DEF Inserting, Merging, Defining
<1>4. /\ statements # <<>> /\ n \in Nat /\ n >= 1 /\ Len(open) \in Nat
      /\ Ends(s) /\ Last(s) = s[n] /\ s \in Seq(Words)
  BY <1>3, Here
<1>5. /\ \A k \in 1 .. Len(b) : t[n + k] = b[k]
      /\ At(t, (n + 1) - 1) = s[n] /\ Len(t) = n + Len(b) /\ Continues(t, s)
  <2>1. Len(b) >= 1 /\ b[1] # ")"
    BY <1>1
  <2>. QED BY <1>1, <1>3, <2>1, Setting
<1>. HIDE DEF t
<1>6. t[n + 1] = "INTO" /\ t[n + 2] = "t" /\ \A j \in n + 1 .. Len(t) : j = n + 1 \/ j = n + 2
  BY <1>1, <1>4, <1>5
<1>7. changes \in Nat /\ changes' > changes /\ changes <= changes'
  BY <1>2 DEF Typed
<1>8. ASSUME NEW f \in 1 .. n, Judged(s, f), Sole PROVE Stage(t, f)'
  <2>1. Stage(s, f)
    BY <1>8 DEF Judged
  <2>2. s[f] = "INSERT" /\ changes' = 1 => changes = 1
    <3>1. s[f] = "INSERT" => First # Reading
      BY <1>8 DEF Judged, Starts, Reading
    <3>. QED BY <1>2, <1>4, <1>7, <3>1 DEF Counted
  <2>3. \A j \in Len(s) + 1 .. Len(t) : t[j] # "OUTPUT"
    BY <1>6
  <2>. QED BY <1>2, <1>3, <1>5, <2>1, <2>2, <2>3, StageOn
<1>9. ASSUME NEW f \in 1 .. n, Judged(s, f), Sole PROVE ~WriteOk(t, f, n + 1)
  <2>0. Stage(s, f)
    BY <1>9 DEF Judged
  <2>1. PICK i \in f .. n : s[i] = "SELECT" /\ Top(s, i) /\ \A j \in i + 1 .. n : s[j] # "OUTPUT"
    BY <1>2, <2>0 DEF Stage
  <2>2. \A j \in f .. n : t[j] = s[j] /\ Depth(t, j) = Depth(s, j)
    <3>1. \A j \in f .. n : j \in 1 .. Len(s)
      BY <1>4
    <3>2. \A j \in 1 .. Len(s) : t[j] = s[j] /\ Depth(t, j) = Depth(s, j)
      BY <1>5 DEF Continues
    <3>. QED BY <3>1, <3>2
  <2>3. ~OutputOpen(t, f, n + 1)
    <3>1. SUFFICES ASSUME NEW j \in TopLevel(t, "OUTPUT", f + 1 .. (n + 1) - 1),
                          TopLevel(t, "SELECT", j .. (n + 1) - 1) = {}
                   PROVE FALSE
      BY DEF OutputOpen
    <3>2. j \in f + 1 .. n /\ t[j] = "OUTPUT" /\ (n + 1) - 1 = n
      BY <1>4 DEF TopLevel
    <3>3. j \in f .. n
      BY <3>2
    <3>4. s[j] = "OUTPUT"
      BY <2>2, <3>2, <3>3
    <3>5. i \in j .. n
      BY <2>1, <3>2, <3>4, <1>4
    <3>6. t[i] = "SELECT" /\ Depth(t, i) = 0
      BY <2>1, <2>2 DEF Top
    <3>7. i \in TopLevel(t, "SELECT", j .. (n + 1) - 1)
      BY <3>2, <3>5, <3>6 DEF TopLevel
    <3>. QED BY <3>1, <3>7
  <2>4. s[n] \notin {"INSERT", "MERGE"}
    BY <1>2, <1>4 DEF Ends, EndTokens, Quoted
  <2>5. ~IntoAllowed(t, f, n + 1)
    BY <1>5, <2>3, <2>4 DEF IntoAllowed
  <2>6. n + 1 > f
    BY <1>4
  <2>. QED BY <1>6, <2>5, <2>6 DEF WriteOk
<1>10. \A f : ~ReadOk(t, f, n + 1)
  BY <1>6, NotOk
<1>11. /\ Len(b) >= 1 /\ 0 \in Int /\ Len(open) + 0 >= 0 /\ Len(open') = Len(open) + 0
            /\ at' # "start" /\ at' # "query"
       /\ b[Len(b)] \in EndTokens /\ First' = First /\ (Single' => Single /\ changes' > changes)
            /\ (Sole' => Sole) /\ (Passing => Sole) /\ Len(statements) <= Len(statements')
  <2>1. Len(statements) \in Nat
    BY DEF Typed
  <2>. QED BY <1>1, <1>2, <1>4, <1>7, <2>1 DEF EndTokens, First, Single, Doubled, Sole, Passing
<1>12. \A f \in 1 .. Len(s) : Judged(s, f) =>
           /\ Single /\ changes = 0 /\ nested = 0 => ~ReadOk(s \o b, f, Len(s) + 1)
           /\ First \in Writing /\ Passing => Passing' \/ ~WriteOk(s \o b, f, Len(s) + 1)
           /\ Sole' => Stage(s \o b, f)'
  BY <1>8, <1>9, <1>10, <1>11 DEF t
<1>13. Bodied(s \o b, lead, <<>>)'
  BY <1>1, <1>2, <1>3, <1>4, <1>7, <1>11, <1>12, ChangeKeeps
<1>. QED BY <1>13

(* INSERT ... EXEC is a change the guard does not let through.             *)
LEMMA InsertExecKeeps ==
  ASSUME Typed, Typed', Nesting, Counted, NEW s, NEW lead, Bodied(s, lead, <<>>), InsertExec
  PROVE  \E b : Bodied(s \o b, lead, <<>>)'
<1>. DEFINE b == <<"EXEC", "a">>
            n == Len(s)
            t == s \o b
<1>1. b \in Seq(Words) /\ Len(b) = 2 /\ b[1] = "EXEC" /\ b[2] = "a" /\ Shape(b, 0, 0)
  BY ExecBlock
<1>2. /\ text' = text \o b /\ at' = "finished" /\ open' = open /\ statements' = statements
      /\ changes' = changes + 1 /\ nested' = nested /\ enclosed' = enclosed /\ at = "inserting"
  BY DEF InsertExec, Write
<1>. HIDE DEF b
<1>3. at' \notin Inserting /\ at' \notin Merging /\ at \in ChangeClauses
  BY <1>2 DEF Inserting, Merging, ChangeClauses
<1>4. at # "start" /\ Len(open) = 0 /\ statements # <<>> /\ changes >= 1 /\ changes \in Nat
  BY <1>3, Changing
<1>5. n \in Nat
  BY <1>4, Here
<1>6. (\A k \in 1 .. Len(b) : t[n + k] = b[k]) /\ Continues(t, s)
  <2>1. Len(b) >= 1 /\ b[1] # ")"
    BY <1>1
  <2>. QED BY <1>1, <1>4, <2>1, Setting
<1>. HIDE DEF t
<1>7. t[n + 1] = "EXEC"
  BY <1>1, <1>6
<1>8. changes' > changes /\ changes <= changes' /\ changes' # 1
  BY <1>2, <1>4
<1>9. ASSUME NEW f \in 1 .. n, Judged(s, f), Sole PROVE Stage(t, f)'
  <2>1. Stage(s, f)
    BY <1>9 DEF Judged
  <2>. QED BY <1>2, <1>3, <1>6, <1>8, <2>1, StageOn
<1>10. \A f : ~ReadOk(t, f, n + 1) /\ ~WriteOk(t, f, n + 1)
  BY <1>7, NotOk
<1>11. /\ Len(b) >= 1 /\ 0 \in Int /\ Len(open) + 0 >= 0 /\ Len(open') = Len(open) + 0
            /\ at' # "start" /\ at' # "query"
       /\ b[Len(b)] \in EndTokens /\ First' = First /\ (Single' => Single /\ changes' > changes)
            /\ (Sole' => Sole) /\ (Passing => Sole) /\ Len(statements) <= Len(statements')
  <2>1. Len(statements) \in Nat
    BY DEF Typed
  <2>. QED BY <1>1, <1>2, <1>4, <1>8, <2>1 DEF EndTokens, First, Single, Doubled, Sole, Passing
<1>12. \A f \in 1 .. Len(s) : Judged(s, f) =>
           /\ Single /\ changes = 0 /\ nested = 0 => ~ReadOk(s \o b, f, Len(s) + 1)
           /\ First \in Writing /\ Passing => Passing' \/ ~WriteOk(s \o b, f, Len(s) + 1)
           /\ Sole' => Stage(s \o b, f)'
  BY <1>9, <1>10, <1>11 DEF t
<1>13. Bodied(s \o b, lead, <<>>)'
  BY <1>1, <1>2, <1>4, <1>8, <1>11, <1>12, ChangeKeeps
<1>. QED BY <1>13

(* A DELETE in the FROM of a query is seen by a read, and by no write: its *)
(* words stand in parentheses.                                             *)
LEMMA FromChangeKeeps ==
  ASSUME Typed, Typed', Counted, NEW s, NEW lead, Bodied(s, lead, <<>>), FromChange
  PROVE  \E b : Bodied(s \o b, lead, <<>>)'
<1>. DEFINE b == <<"FROM", "(", "DELETE", "FROM", "t", "OUTPUT", "a", ")", "AS", "a">>
            n == Len(s)
            t == s \o b
<1>1. /\ b \in Seq(Words) /\ Len(b) = 10 /\ b[1] = "FROM" /\ b[2] = "(" /\ b[3] = "DELETE"
      /\ b[4] = "FROM" /\ b[5] = "t" /\ b[6] = "OUTPUT" /\ b[7] = "a" /\ b[8] = ")" /\ b[9] = "AS"
      /\ b[10] = "a" /\ Shape(b, 0, 0) /\ Depth(b, 3) = 1
  BY FromChangeBlock
<1>2. /\ text' = text \o b /\ at' = "sourced" /\ at = "selected" /\ statements # <<>>
      /\ open' = open /\ statements' = statements /\ changes' = changes /\ enclosed' = enclosed
      /\ nested' = nested + 1
  BY DEF FromChange, Write
<1>. HIDE DEF b
<1>3. at # "start" /\ at \notin Inserting /\ at' \notin Inserting \cup Merging \cup {"selected"}
  BY <1>2 DEF Inserting, Merging
<1>4. n \in Nat /\ Len(open) \in Nat
  BY <1>3, Here
<1>5. /\ \A k \in 1 .. Len(b) : t[n + k] = b[k]
      /\ \A k \in 1 .. Len(b) : Depth(t, n + k) = Len(open) + Depth(b, k)
      /\ Len(t) = n + Len(b) /\ Continues(t, s)
  <2>1. Len(b) >= 1 /\ b[1] # ")"
    BY <1>1
  <2>. QED BY <1>1, <1>3, <2>1, Setting
<1>. HIDE DEF t
<1>6. t[n + 3] = "DELETE" /\ ~Top(t, n + 3) /\ n + 3 \in n + 1 .. Len(t)
  <2>1. 3 \in 1 .. Len(b) /\ n + 3 \in n + 1 .. Len(t)
    BY <1>1, <1>4, <1>5
  <2>2. Depth(t, n + 3) = Len(open) + 1
    BY <1>1, <1>5, <2>1
  <2>. QED BY <1>1, <1>4, <1>5, <2>1, <2>2 DEF Top
<1>7. \A f : ~ReadOk(t, f, n + 3)
  BY <1>6, NotOk
<1>8. ASSUME NEW i \in n + 1 .. Len(t) PROVE \A f : WriteOk(t, f, i)
  <2>1. CASE i = n + 3
    <3>1. t[i] \notin Forbidden("write") /\ t[i] # "INTO" /\ ~Top(t, i)
      BY <1>6, <2>1 DEF Forbidden, NonDmlKeywords
    <3>. QED BY <3>1 DEF WriteOk, NotForbidden
  <2>2. CASE i # n + 3
    <3>1. i - n \in 1 .. Len(b) /\ i = n + (i - n) /\ i - n # 3
      BY <1>4, <1>5, <2>2
    <3>2. \A k \in 1 .. 10 :
             k = 1 \/ k = 2 \/ k = 3 \/ k = 4 \/ k = 5 \/ k = 6 \/ k = 7 \/ k = 8 \/ k = 9 \/ k = 10
      OBVIOUS
    <3>3. \A k \in 1 .. 10 : k # 3 => b[k] \notin Ruled
      BY <1>1, <3>2 DEF Ruled
    <3>4. b[i - n] \notin Ruled
      BY <1>1, <3>1, <3>3
    <3>5. t[n + (i - n)] = b[i - n]
      BY <1>5, <3>1
    <3>6. t[i] \notin Ruled
      BY <3>1, <3>4, <3>5
    <3>. QED BY <3>6, OthersPass
  <2>. QED BY <2>1, <2>2
<1>9. ASSUME NEW f \in 1 .. n, Judged(s, f), Sole' PROVE Stage(t, f)'
  <2>1. Sole
    BY <1>2, <1>9 DEF Sole, Single, Doubled, First
  <2>2. Stage(s, f)
    BY <1>9, <2>1 DEF Judged
  <2>. QED BY <1>2, <1>3, <1>5, <2>2, QuietStage
<1>10. /\ First' = First /\ (Passing => Passing') /\ nested' # 0
       /\ changes <= changes' /\ nested <= nested' /\ Len(statements) <= Len(statements')
  <2>1. changes \in Nat /\ nested \in Nat /\ Len(statements) \in Nat
    BY DEF Typed
  <2>2. nested' # 0 /\ nested <= nested'
    BY <1>2, <2>1
  <2>. QED BY <1>2, <2>1, <2>2 DEF Passing, Single, Doubled, First
<1>11. \A f \in 1 .. n : Judged(s, f) =>
           /\ Single /\ changes = 0 /\ nested = 0 =>
                (Single' /\ changes' = 0 /\ nested' = 0 <=>
                   \A i \in n + 1 .. Len(t) : ReadOk(t, f, i))
           /\ First \in Writing /\ Single' /\ changes' = 1 =>
                \A i \in n + 1 .. Len(t) : WriteOk(t, f, i)
           /\ First \in Writing /\ Passing =>
                Passing' \/ \E i \in n + 1 .. Len(t) : ~WriteOk(t, f, i)
           /\ Sole' => Stage(t, f)'
  BY <1>6, <1>7, <1>8, <1>9, <1>10
<1>12. /\ Len(b) >= 1 /\ 0 \in Int /\ Len(open) + 0 >= 0 /\ Len(open') = Len(open) + 0
       /\ at' # "start" /\ at' # "query" /\ b[Len(b)] \in EndTokens
  BY <1>1, <1>2, <1>4 DEF EndTokens
<1>13. Bodied(s \o b, lead, <<>>)'
  BY <1>1, <1>2, <1>3, <1>10, <1>11, <1>12, StatementKeeps DEF t, n
<1>. QED BY <1>13

(* The query of an INSERT may stand in parentheses,                        *)
LEMMA InsertQueryInParenthesesKeeps ==
  ASSUME Typed, Typed', Nesting, Counted, NEW s, NEW lead, Bodied(s, lead, <<>>),
         InsertQueryInParentheses
  PROVE  \E b : Bodied(s \o b, lead, <<>>)'
<1>. DEFINE b == <<"(">>
<1>1. b \in Seq(Words) /\ Len(b) = 1 /\ b[1] = "(" /\ Shape(b, 0, 1)
  BY ParenthesisBlock
<1>2. /\ text' = text \o b /\ at' = "query" /\ open' = Append(open, "filtered") /\ enclosed'
      /\ statements' = statements /\ changes' = changes /\ nested' = nested /\ at \in ChangeClauses
  BY DEF InsertQueryInParentheses, Write, ChangeClauses, Inserting
<1>. HIDE DEF b
<1>3. at # "start" /\ statements # <<>>
  BY <1>2, Changing
<1>4. Len(s) >= 1
  BY <1>3, Here
<1>5. /\ Len(open) + 0 >= 0 /\ Len(open') = Len(open) + 1 /\ 0 \in Int /\ 1 \in Int
      /\ open' # <<>>
  BY <1>2 DEF Typed
<1>6. /\ \A k \in 1 .. Len(b) : b[k] \notin Ruled
      /\ Len(b) >= 1 /\ b[Len(b)] = "("
      /\ at' \notin Inserting \cup Merging \cup {"selected", "start"}
  BY <1>1, <1>2 DEF Ruled, Inserting, Merging
<1>7. IF at' = "query" THEN b[Len(b)] \in SetOperators \/ (open' # <<>> /\ b[Len(b)] = "(")
                          ELSE b[Len(b)] \in EndTokens
  BY <1>2, <1>5, <1>6
<1>8. Bodied(s \o b, lead, <<>>)'
  BY <1>1, <1>2, <1>3, <1>4, <1>5, <1>6, <1>7, HarmlessKeeps
<1>. QED BY <1>8

(* and neither mode sees a query in parentheses that is a statement.       *)
LEMMA GroupedQueryKeeps ==
  ASSUME Typed, Typed', Counted, NEW s, NEW lead, Bodied(s, lead, <<>>), GroupedQuery
  PROVE  \E b : Bodied(s \o b, lead, <<>>)'
<1>. DEFINE b == <<"(", "SELECT", "a", ")">>
            n == Len(s)
            t == s \o b
<1>1. /\ b \in Seq(Words) /\ Len(b) = 4 /\ b[1] = "(" /\ b[2] = "SELECT" /\ b[3] = "a" /\ b[4] = ")"
      /\ Shape(b, 0, 0) /\ Depth(b, 2) = 1
  BY GroupedBlock
<1>2. /\ text' = text \o b /\ at' = "filtered" /\ at = "filtered" /\ open = <<>> /\ open' = open
      /\ statements' = statements /\ changes' = changes /\ nested' = nested /\ enclosed' = enclosed
  BY DEF GroupedQuery, Write
<1>. HIDE DEF b
<1>3. at # "start" /\ at \notin Inserting /\ ~Defining
      /\ at' \notin Inserting \cup Merging \cup {"selected"}
  BY <1>2 DEF Inserting, Merging, Defining
<1>4. statements # <<>> /\ n \in Nat /\ Len(open) \in Nat
  BY <1>3, Here
<1>5. /\ \A k \in 1 .. Len(b) : t[n + k] = b[k]
      /\ \A k \in 1 .. Len(b) : Depth(t, n + k) = Len(open) + Depth(b, k)
      /\ Continues(t, s)
  <2>1. Len(b) >= 1 /\ b[1] # ")"
    BY <1>1
  <2>. QED BY <1>1, <1>3, <2>1, Setting
<1>. HIDE DEF t
<1>6. \A f : ReadOk(t, f, n + 2) /\ WriteOk(t, f, n + 2)
  <2>1. 2 \in 1 .. Len(b)
    BY <1>1
  <2>2. t[n + 2] = "SELECT" /\ Depth(t, n + 2) = Len(open) + 1
    BY <1>1, <1>5, <2>1
  <2>3. ~Top(t, n + 2)
    BY <1>4, <2>2 DEF Top
  <2>. QED BY <2>2, <2>3, SelectOk
<1>7. \A k \in 1 .. Len(b) : b[k] \in Ruled => k = 2
  BY <1>1 DEF Ruled
<1>8. \A f : \A k \in 1 .. Len(b) : b[k] \in Ruled => ReadOk(t, f, n + k) /\ WriteOk(t, f, n + k)
  BY <1>6, <1>7
<1>9. ASSUME NEW f \in 1 .. Len(s), Judged(s, f), Sole PROVE Stage(t, f)'
  <2>1. Stage(s, f)
    BY <1>9 DEF Judged
  <2>. QED BY <1>2, <1>3, <1>5, <2>1, QuietStage
<1>10. /\ Len(b) >= 1 /\ 0 \in Int /\ Len(open) + 0 >= 0 /\ Len(open') = Len(open) + 0
       /\ at' # "start" /\ at' # "query" /\ b[Len(b)] \in EndTokens
  BY <1>1, <1>2, <1>4 DEF EndTokens
<1>11. /\ statements = <<>> => Prefix(s \o b)'
       /\ statements = <<>> => \A k \in 1 .. Len(b) : b[k] \in Ruled =>
            NotForbidden(s \o b, Len(s) + k, "read")
       /\ \A f \in 1 .. Len(s) : Judged(s, f) /\ statements # <<>> =>
           /\ Single /\ changes = 0 /\ nested = 0 => \A k \in 1 .. Len(b) : b[k] \in Ruled =>
                ReadOk(s \o b, f, Len(s) + k)
           /\ First \in Writing /\ Single /\ changes = 1 =>
                \A k \in 1 .. Len(b) : b[k] \in Ruled => WriteOk(s \o b, f, Len(s) + k)
           /\ Sole => Stage(s \o b, f)'
  BY <1>4, <1>8, <1>9 DEF t
<1>12. Bodied(s \o b, lead, <<>>)'
  BY <1>1, <1>2, <1>3, <1>10, <1>11, ClauseKeeps
<1>. QED BY <1>12

-----------------------------------------------------------------------------
(***************************************************************************)
(* The actions that begin statements.                                      *)
(***************************************************************************)

(* The block a statement begins with, and the clause it leads to.          *)
Opening(statement, b, clause) ==
  /\ statement \in Kinds
  /\ b \in Seq(Words) /\ Len(b) >= 2 /\ Shape(b, 0, 0) /\ b[Len(b)] \in EndTokens
  /\ b[1] \in Starts(statement)
  /\ \A k \in 2 .. Len(b) :
       /\ b[k] \notin {"SELECT", "VALUES", "OUTPUT"}
       /\ b[k] \in Ruled => \/ k = 2 /\ b[2] = "INTO" /\ statement \in {"INSERT", "MERGE"}
                            \/ k = 3 /\ b[3] = "SET" /\ statement = "UPDATE"
  /\ statement = "UPDATE" => Len(b) >= 3 /\ b[2] = "t" /\ b[3] = "SET" /\ Depth(b, 3) = 0
  /\ clause \in {"selected", "inserting", "changed", "merging", "finished"}
  /\ clause = "selected" <=> statement = Reading
  /\ clause = "inserting" <=> statement = "INSERT"
  /\ clause = "merging" => statement = "MERGE"

(* What the beginning of a statement does.                                 *)
LEMMA BeginFacts ==
  ASSUME Typed, NEW statement, NEW b, NEW clause, Begin(statement, b, clause)
  PROVE  /\ open = <<>> /\ open' = open /\ at \in StatementEnds \cup {"start", "defined"}
         /\ text' = text \o b /\ at' = clause /\ Len(open) = 0 /\ Len(open') = 0
         /\ statements' = Append(statements, statement) /\ statements' # <<>>
         /\ changes' = (IF statement = Reading THEN changes ELSE changes + 1) /\ changes \in Nat
         /\ nested' = nested /\ enclosed' = enclosed
         /\ Len(statements) \in Nat /\ Len(statements') = Len(statements) + 1
         /\ statements # <<>> => Len(statements) >= 1 /\ First' = First /\ ~Single'
         /\ statements = <<>> => Single' /\ First' = statement
<1>1. /\ open = <<>> /\ open' = open /\ at \in StatementEnds \cup {"start", "defined"}
      /\ text' = text \o b /\ at' = clause
      /\ statements' = Append(statements, statement)
      /\ changes' = (IF statement = Reading THEN changes ELSE changes + 1)
      /\ nested' = nested /\ enclosed' = enclosed
  BY DEF Begin, Write
<1>2. statements \in Seq(Kinds) /\ changes \in Nat
  BY DEF Typed
<1>3. Len(statements) \in Nat /\ Len(statements') = Len(statements) + 1 /\ statements' # <<>>
  BY <1>1, <1>2
<1>4. statements # <<>> => Len(statements) >= 1 /\ First' = First
  BY <1>1, <1>2 DEF First
<1>5. statements = <<>> => First' = statement /\ Len(statements) = 0
  BY <1>1, <1>2 DEF First
<1>. QED BY <1>1, <1>2, <1>3, <1>4, <1>5 DEF Single

(* The first word of a statement passes nowhere but at its beginning.      *)
LEMMA FirstWordRead ==
  ASSUME NEW t, NEW i \in Nat, NEW statement \in Kinds, t[i] \in Starts(statement),
         At(t, i - 1) \notin {"(", Comma},
         statement # Reading
  PROVE  \A f : ~ReadOk(t, f, i)
BY NotOk
   DEF Kinds, Starts, Writing, WriteKeywords, ReadOk, NotForbidden, Forbidden, NonDmlKeywords,
       IsQueryHintUse

(* What a clause ends with joins no two statements.                        *)
LEMMA EndMarks ==
  /\ \A word \in EndTokens :
       word \notin SetOperators \cup {"(", "THEN", "UPDATE", "INSERT", "MERGE"}
  /\ Comma \notin EndTokens /\ "undefined" \notin {"("} /\ "undefined" \notin EndTokens
BY Marks DEF EndTokens, SetOperators, Quoted

(* Nor does the mark of a position before the text.                        *)
LEMMA UndefinedMark == "undefined" \notin {"(", Comma}
BY Marks DEF Comma

(* A statement that begins after another is seen in a read,                *)
LEMMA AgainRead ==
  ASSUME NEW t, NEW n \in Nat, NEW f \in 1 .. n, NEW statement \in Kinds,
         t[n + 1] \in Starts(statement),
         At(t, n) \in EndTokens, t[n] \in EndTokens, Top(t, n + 1)
  PROVE  ~ReadOk(t, f, n + 1)
<1>1. (n + 1) - 1 = n /\ n + 1 > f
  OBVIOUS
<1>2. CASE statement = Reading
  <2>1. t[n + 1] = "SELECT"
    BY <1>2 DEF Starts
  <2>2. t[n] \notin SetOperators
    BY EndMarks
  <2>. QED BY <1>1, <2>1, <2>2 DEF ReadOk, AfterSetOperator
<1>3. CASE statement # Reading
  <2>1. At(t, n) \notin {"(", Comma}
    BY EndMarks
  <2>. QED BY <1>1, <1>3, <2>1, FirstWordRead
<1>. QED BY <1>2, <1>3

(* and in a write.                                                         *)
LEMMA AgainWrite ==
  ASSUME NEW t, NEW n \in Nat, NEW f \in 1 .. n, NEW statement \in Kinds,
         t[n + 1] \in Starts(statement),
         At(t, n) \in EndTokens, t[n] \in EndTokens, Top(t, n + 1),
         t[f] = "INSERT" /\ t[n + 1] = "SELECT" =>
           \E i \in f + 1 .. n : Top(t, i) /\ t[i] \in {"SELECT", "VALUES"},
         t[f] = "UPDATE" => f + 2 <= n /\ t[f + 2] = "SET" /\ Top(t, f + 2)
  PROVE  ~WriteOk(t, f, n + 1)
<1>1. (n + 1) - 1 = n /\ n + 1 > f
  OBVIOUS
<1>2. /\ t[n] \notin SetOperators \cup {"THEN", "UPDATE"} /\ At(t, n) \notin {"(", Comma}
  BY EndMarks
<1>3. CASE t[n + 1] = "SELECT"
  <2>1. ~AfterSetOperator(t, n + 1)
    BY <1>1, <1>2 DEF AfterSetOperator
  <2>2. t[f] = "INSERT" => \/ TopLevel(t, "SELECT", f + 1 .. (n + 1) - 1) # {}
                           \/ TopLevel(t, "VALUES", f + 1 .. (n + 1) - 1) # {}
    BY <1>1, <1>3 DEF TopLevel, Top
  <2>. QED BY <1>1, <1>3, <2>1, <2>2 DEF WriteOk, SelectAllowed
<1>4. CASE t[n + 1] \in WriteKeywords
  <2>. QED BY <1>1, <1>2, <1>4 DEF WriteOk, WriteAllowed
<1>5. CASE t[n + 1] = "SET"
  <2>1. t[f] = "UPDATE" => f + 2 \in TopLevel(t, "SET", f + 1 .. (n + 1) - 1)
    BY <1>1 DEF TopLevel, Top
  <2>. QED BY <1>1, <1>2, <1>5, <2>1 DEF WriteOk, SetAllowed
<1>6. CASE t[n + 1] = "EXEC"
  BY <1>6, NotOk
<1>7. CASE t[n + 1] = "USE"
  BY <1>1, <1>2, <1>7 DEF WriteOk, NotForbidden, Forbidden, NonDmlKeywords, IsQueryHintUse
<1>8. t[n + 1] \in {"SELECT", "SET", "EXEC", "USE"} \cup WriteKeywords
  BY DEF Kinds, Starts, Writing
<1>. QED BY <1>3, <1>4, <1>5, <1>6, <1>7, <1>8

(* Another statement begins, with nothing between: what was written is now *)
(* two statements, and passes in no mode but for a query after an INSERT   *)
(* that takes its rows from one in parentheses.                            *)
LEMMA BeginAgainKeeps ==
  ASSUME Typed, Typed', Counted, NEW s, NEW lead, Bodied(s, lead, <<>>), statements # <<>>,
         at # "start",
         NEW statement, NEW b, NEW clause, Opening(statement, b, clause),
         Begin(statement, b, clause)
  PROVE  Bodied(s \o b, lead, <<>>)'
<1>. DEFINE n == Len(s)
            t == s \o b
<1>1. /\ open = <<>> /\ open' = open /\ at \in StatementEnds \cup {"start", "defined"}
      /\ text' = text \o b /\ at' = clause /\ Len(open) = 0 /\ Len(open') = 0
      /\ statements' = Append(statements, statement)
      /\ changes' = (IF statement = Reading THEN changes ELSE changes + 1) /\ changes \in Nat
      /\ nested' = nested /\ enclosed' = enclosed
      /\ Len(statements) \in Nat /\ Len(statements') = Len(statements) + 1
      /\ Len(statements) >= 1 /\ First' = First /\ ~Single'
  BY BeginFacts
<1>2. /\ statement \in Kinds
      /\ b \in Seq(Words) /\ Len(b) >= 2 /\ Shape(b, 0, 0) /\ b[Len(b)] \in EndTokens
      /\ b[1] \in Starts(statement)
      /\ clause \in {"selected", "inserting", "changed", "merging", "finished"}
      /\ \A k \in 2 .. Len(b) : b[k] # "OUTPUT"
  BY DEF Opening
<1>3. at # "query" /\ at \notin Inserting
  BY <1>1 DEF StatementEnds, QueryEnds, Inserting
<1>4. /\ n \in Nat /\ n >= 1 /\ Ends(s) /\ Last(s) = s[n] /\ s \in Seq(Words)
  BY Here
<1>5. s[n] \in EndTokens
  BY <1>3, <1>4 DEF Ends
<1>6. b[1] # ")"
  BY <1>2 DEF Kinds, Starts, Writing, WriteKeywords, Reading, Other
<1>7. /\ \A k \in 1 .. Len(b) : t[n + k] = b[k]
      /\ t[(n + 1) - 1] = s[n] /\ At(t, (n + 1) - 1) = s[n]
      /\ Depth(t, n + 1) = Len(open) /\ Continues(t, s) /\ Len(t) = n + Len(b)
  <2>1. Len(b) >= 1
    BY <1>2
  <2>. QED BY <1>2, <1>6, <2>1, Setting
<1>. HIDE DEF t
<1>8. /\ t[n + 1] \in Starts(statement) /\ Top(t, n + 1) /\ t[n] \in EndTokens
           /\ At(t, n) \in EndTokens
  <2>1. (n + 1) - 1 = n /\ 1 \in 1 .. Len(b)
    BY <1>2, <1>4
  <2>. QED BY <1>1, <1>2, <1>5, <1>7, <2>1 DEF Top
<1>9. \A f \in 1 .. n : ~ReadOk(t, f, n + 1)
  BY <1>2, <1>4, <1>8, AgainRead
<1>10. Single => (Doubled' <=> First = "INSERT" /\ statement = Reading)
  BY <1>1 DEF Single, Doubled, Typed
<1>11. ASSUME NEW f \in 1 .. n, Judged(s, f), First \in Writing, Passing, ~Passing'
       PROVE  ~WriteOk(t, f, n + 1)
  <2>1. Stage(s, f) /\ s[f] = First /\ changes = 1
    BY <1>11 DEF Judged, Starts, Passing, Sole, Writing, WriteKeywords, Reading, Other
  <2>2. Doubled \/ (Single /\ ~(First = "INSERT" /\ statement = Reading /\ enclosed))
    <3>1. Single /\ First = "INSERT" /\ statement = Reading /\ enclosed => Passing'
      BY <1>1, <1>10, <2>1 DEF Passing
    <3>. QED BY <1>11, <3>1 DEF Passing
  <2>3. \A i \in 1 .. n : t[i] = s[i] /\ (Top(t, i) <=> Top(s, i))
    BY <1>7 DEF Continues, Top
  <2>4. ASSUME t[f] = "INSERT", t[n + 1] = "SELECT"
        PROVE  \E i \in f + 1 .. n : Top(t, i) /\ t[i] \in {"SELECT", "VALUES"}
    <3>1. statement = Reading
      BY <1>2, <1>8, <2>4 DEF Kinds, Starts, Writing, WriteKeywords, Other
    <3>2. s[f] = "INSERT"
      BY <2>3, <2>4
    <3>3. Doubled \/ (Single /\ s[f] = "INSERT" /\ at \notin Inserting /\ changes = 1 /\ ~enclosed)
      BY <1>3, <2>1, <2>2, <3>1, <3>2
    <3>4. PICK i \in f + 1 .. n : Top(s, i) /\ s[i] \in {"SELECT", "VALUES"}
      BY <2>1, <3>3 DEF Stage
    <3>5. i \in 1 .. n
      BY <1>4
    <3>. QED BY <2>3, <3>4, <3>5
  <2>5. t[f] = "UPDATE" => f + 2 <= n /\ t[f + 2] = "SET" /\ Top(t, f + 2)
    <3>1. s[f] = "UPDATE" => f + 2 <= n /\ s[f + 2] = "SET" /\ Top(s, f + 2)
      BY <2>1 DEF Stage
    <3>2. f + 2 <= n => f + 2 \in 1 .. n
      BY <1>4
    <3>. QED BY <2>3, <3>1, <3>2
  <2>. QED BY <1>2, <1>4, <1>8, <2>4, <2>5, AgainWrite
<1>13. ASSUME NEW f \in 1 .. n, Judged(s, f), Sole' PROVE Stage(t, f)'
  <2>1. Doubled' /\ First = "INSERT" /\ statement = Reading
    <3>1. Doubled' /\ Len(statements') = 2 /\ First' = "INSERT"
      BY <1>1, <1>13 DEF Sole, Doubled
    <3>2. Single
      <4>1. Len(statements) \in Nat /\ Len(statements') = Len(statements) + 1
        BY <1>1
      <4>. DEFINE p == Len(statements)
                  q == Len(statements')
      <4>2. p \in Nat /\ q = p + 1 /\ q = 2
        BY <3>1, <4>1
      <4>. HIDE DEF p, q
      <4>3. p = 1
        BY <4>2
      <4>. QED BY <4>3 DEF p, Single
    <3>. QED BY <1>10, <3>1, <3>2
  <2>2. t[n + 1] = "SELECT"
    BY <1>8, <2>1 DEF Starts
  <2>3. t[f] = "INSERT"
    <3>1. s[f] \in Starts(First)
      BY <1>13 DEF Judged
    <3>2. s[f] = "INSERT"
      BY <2>1, <3>1 DEF Starts, Reading, Other
    <3>. QED BY <1>7, <3>2 DEF Continues
  <2>4. Len(t) = n + Len(b) /\ n + 1 \in f + 1 .. Len(t) /\ n + 1 \in f .. Len(t)
    BY <1>2, <1>4, <1>7
  <2>5. ASSUME NEW j \in (n + 1) + 1 .. Len(t) PROVE t[j] # "OUTPUT"
    <3>1. j - n \in 2 .. Len(b) /\ j = n + (j - n) /\ j - n \in 1 .. Len(b)
      BY <1>4, <2>4
    <3>. QED BY <1>2, <1>7, <3>1
  <2>6. \E i \in f + 1 .. Len(t) : Top(t, i) /\ t[i] \in {"SELECT", "VALUES"}
    BY <1>8, <2>2, <2>4
  <2>7. \E i \in f .. Len(t) : t[i] = "SELECT" /\ Top(t, i)
          /\ \A j \in i + 1 .. Len(t) : t[j] # "OUTPUT"
    BY <1>8, <2>2, <2>4, <2>5
  <2>. QED BY <1>1, <2>3, <2>6, <2>7 DEF Stage
<1>14. \A f \in 1 .. Len(s) : Judged(s, f) =>
           /\ Single /\ changes = 0 /\ nested = 0 => ~ReadOk(s \o b, f, Len(s) + 1)
           /\ First \in Writing /\ Passing => Passing' \/ ~WriteOk(s \o b, f, Len(s) + 1)
           /\ Sole' => Stage(s \o b, f)'
  BY <1>9, <1>11, <1>13 DEF t
<1>12. /\ Len(b) >= 1 /\ 0 \in Int /\ Len(open) + 0 >= 0 /\ Len(open') = Len(open) + 0
            /\ at' # "start" /\ at' # "query"
       /\ Len(statements) <= Len(statements') /\ changes <= changes'
            /\ (Single' => Single /\ changes' > changes)
  BY <1>1, <1>2
<1>. QED BY <1>1, <1>2, <1>12, <1>14, ChangeKeeps

(* What stands before the first statement.                                 *)
LEMMA Before ==
  ASSUME Typed, NEW s, NEW lead, Bodied(s, lead, <<>>), statements = <<>>, open = <<>>
  PROVE  /\ s \in Seq(Words) /\ Len(s) \in Nat /\ changes = 0 /\ nested = 0
         /\ Level(s, Len(s)) = 0 /\ \A k \in 0 .. Len(s) : Level(s, k) >= 0
         /\ s # <<>> => Prefix(s) /\ at = "defined" /\ Len(s) >= 1 /\ s[Len(s)] \in EndTokens
         /\ \A i \in 1 .. Len(s) : NotForbidden(s, i, "read")
<1>1. Written(s)
  BY DEF Bodied
<1>2. s \in Seq(Words) /\ Len(s) \in Nat /\ Level(s, Len(s)) = Len(open)
        /\ \A k \in 0 .. Len(s) : Level(s, k) >= 0
  BY <1>1 DEF Written
<1>3. Len(open) = 0
  OBVIOUS
<1>4. changes = 0 /\ nested = 0
  BY <1>1 DEF Written
<1>5. s # <<>> => Prefix(s) /\ at = "defined" /\ Len(s) >= 1 /\ s[Len(s)] \in EndTokens
  <2>1. SUFFICES ASSUME s # <<>>
                 PROVE  Prefix(s) /\ at = "defined" /\ Len(s) >= 1 /\ s[Len(s)] \in EndTokens
    OBVIOUS
  <2>2. at # "start"
    BY <2>1 DEF Bodied
  <2>3. Prefix(s) /\ Defining /\ Len(s) >= 1 /\ Ends(s) /\ Last(s) = s[Len(s)]
    BY <2>2, Here
  <2>. QED BY <2>3 DEF Defining, Ends
<1>6. \A i \in 1 .. Len(s) : NotForbidden(s, i, "read")
  <2>1. CASE s = <<>>
    <3>1. Len(s) = 0
      BY <2>1
    <3>. QED BY <3>1
  <2>2. CASE s # <<>>
    BY <1>1, <2>2 DEF Written
  <2>. QED BY <2>1, <2>2
<1>. QED BY <1>2, <1>3, <1>4, <1>5, <1>6

(* The first statement is the one the guard looks at.                      *)
LEMMA FirstMain ==
  ASSUME NEW s \in Seq(Words), NEW t, Len(s) \in Nat, Continues(t, s), open = <<>>,
         s # <<>> => Prefix(s) /\ Len(s) >= 1,
         Depth(t, Len(s) + 1) = 0, t[Len(s) + 1] # Comma, t[Len(s) + 1] # "WITH"
  PROVE  Main(t, Len(s) + 1)
<1>1. CASE s = <<>>
  <2>1. Len(s) = 0
    BY <1>1
  <2>. QED BY <2>1 DEF Main
<1>2. CASE s # <<>>
  <2>1. /\ s[1] = "WITH"
        /\ \E x \in 2 .. Len(s) : PathTo(s, x) /\ CteAt(s, x, Len(s) + 1)
    BY <1>2 DEF Prefix
  <2>2. PICK x \in 2 .. Len(s) : PathTo(s, x) /\ CteAt(s, x, Len(s) + 1)
    BY <2>1
  <2>3. x \in Nat /\ 1 <= x /\ x <= Len(s) + 1 /\ Len(s) + 1 \in Nat /\ x \in 2 .. (Len(s) + 1) - 1
          /\ Len(s) + 1 <= Len(s) + 1
    OBVIOUS
  <2>4. PathTo(t, x)
    BY <2>2, <2>3, PathContinues
  <2>5. CteAt(t, x, Len(s) + 1)
    BY <2>2, <2>3, CteContinues
  <2>6. t[1] = "WITH"
    BY <1>2, <2>1 DEF Continues
  <2>. QED BY <2>3, <2>4, <2>5, <2>6 DEF Main
<1>. QED BY <1>1, <1>2

(* The words before the first statement pass, wherever it begins.          *)
LEMMA BeforePasses ==
  ASSUME NEW s \in Seq(Tokens), NEW t \in Seq(Tokens), Continues(t, s), NEW i \in 1 .. Len(s),
         NotForbidden(s, i, "read")
  PROVE  ReadOk(t, Len(s) + 1, i) /\ WriteOk(t, Len(s) + 1, i)
<1>1. i - 1 \in Int /\ i - 1 <= Len(s) /\ Len(s) \in Nat /\ ~(i > Len(s) + 1)
  OBVIOUS
<1>2. At(t, i - 1) = At(s, i - 1)
  BY <1>1, AtContinues
<1>3. t[i] = s[i]
  BY DEF Continues
<1>4. NotForbidden(t, i, "read")
  BY <1>2, <1>3 DEF NotForbidden, IsQueryHintUse
<1>5. NotForbidden(t, i, "write")
  BY <1>4 DEF NotForbidden, Forbidden
<1>. QED BY <1>1, <1>4, <1>5 DEF ReadOk, WriteOk

(* The first word of a read passes,                                        *)
LEMMA FirstReadOk ==
  ASSUME NEW t, NEW f, t[f] = "SELECT", ~(f > f)
  PROVE  ReadOk(t, f, f)
BY DEF ReadOk, NotForbidden, Forbidden, NonDmlKeywords, WriteKeywords

(* and so do the words a write begins with.                                *)
LEMMA FirstWriteOk ==
  ASSUME NEW t, NEW f \in Nat
  PROVE  /\ t[f] \in WriteKeywords => WriteOk(t, f, f)
         /\ t[f + 1] = "INTO" /\ At(t, f) \in {"INSERT", "MERGE"} => WriteOk(t, f, f + 1)
         /\ t[f] = "UPDATE" /\ t[f + 1] = "t" /\ t[f + 2] = "SET" => WriteOk(t, f, f + 2)
<1>1. ~(f > f) /\ (f + 1) - 1 = f /\ \A i \in f + 1 .. (f + 2) - 1 : i = f + 1
  OBVIOUS
<1>2. t[f] \in WriteKeywords => WriteOk(t, f, f)
  BY <1>1 DEF WriteOk, NotForbidden, Forbidden, NonDmlKeywords, WriteKeywords
<1>3. t[f + 1] = "INTO" /\ At(t, f) \in {"INSERT", "MERGE"} => WriteOk(t, f, f + 1)
  BY <1>1 DEF WriteOk, NotForbidden, Forbidden, NonDmlKeywords, WriteKeywords, IntoAllowed
<1>4. t[f + 1] = "t" => TopLevel(t, "SET", f + 1 .. (f + 2) - 1) = {}
  BY <1>1 DEF TopLevel
<1>5. t[f] = "UPDATE" /\ t[f + 1] = "t" /\ t[f + 2] = "SET" => WriteOk(t, f, f + 2)
  BY <1>4 DEF WriteOk, NotForbidden, Forbidden, NonDmlKeywords, WriteKeywords, SetAllowed
<1>. QED BY <1>2, <1>3, <1>5

(* The first statement, after the common table expressions if any.         *)
LEMMA FirstJudged ==
  ASSUME Typed, NEW s, NEW lead, Bodied(s, lead, <<>>), statements = <<>>,
         NEW statement, NEW b, NEW clause, Opening(statement, b, clause),
         Begin(statement, b, clause)
  PROVE  Judged(s \o b, Len(s) + 1)'
<1>. DEFINE n == Len(s)
            t == s \o b
            f == n + 1
<1>1. /\ open = <<>> /\ open' = open /\ at' = clause /\ Len(open) = 0 /\ statements' # <<>>
      /\ changes' = (IF statement = Reading THEN changes ELSE changes + 1)
      /\ nested' = nested /\ Single' /\ First' = statement /\ ~Doubled'
  BY BeginFacts DEF Single, Doubled
<1>2. /\ statement \in Kinds
      /\ b \in Seq(Words) /\ Len(b) >= 2 /\ Shape(b, 0, 0)
      /\ b[1] \in Starts(statement)
      /\ \A k \in 2 .. Len(b) :
            /\ b[k] \notin {"SELECT", "VALUES", "OUTPUT"}
            /\ b[k] \in Ruled => \/ k = 2 /\ b[2] = "INTO" /\ statement \in {"INSERT", "MERGE"}
                                 \/ k = 3 /\ b[3] = "SET" /\ statement = "UPDATE"
      /\ statement = "UPDATE" => Len(b) >= 3 /\ b[2] = "t" /\ b[3] = "SET" /\ Depth(b, 3) = 0
      /\ clause \in {"selected", "inserting", "changed", "merging", "finished"}
      /\ clause = "selected" <=> statement = Reading
      /\ clause = "inserting" <=> statement = "INSERT"
      /\ clause = "merging" => statement = "MERGE"
  BY DEF Opening
<1>3. /\ s \in Seq(Words) /\ n \in Nat /\ changes = 0 /\ nested = 0
      /\ Level(s, n) = 0 /\ \A k \in 0 .. n : Level(s, k) >= 0
      /\ s # <<>> => Prefix(s) /\ n >= 1 /\ s[n] \in EndTokens
      /\ \A i \in 1 .. n : NotForbidden(s, i, "read")
  BY <1>1, Before
<1>4. /\ t \in Seq(Tokens) /\ s \in Seq(Tokens) /\ Continues(t, s)
      /\ Len(t) = n + Len(b)
      /\ \A k \in 1 .. Len(b) : t[n + k] = b[k]
      /\ \A k \in 1 .. Len(b) : Depth(t, n + k) = Level(s, n) + Depth(b, k)
  <2>1. 0 \in Int /\ Level(s, n) + 0 >= 0
    BY <1>3
  <2>. QED BY <1>2, <1>3, <2>1, Joined
<1>. HIDE DEF t
<1>5. Depth(b, 1) = 0
  <2>1. b[1] # ")"
    BY <1>2 DEF Kinds, Starts, Writing, WriteKeywords, Reading, Other
  <2>. QED BY <2>1, FirstDepth
<1>6. t[f] = b[1] /\ Depth(t, f) = 0
  <2>1. 1 \in 1 .. Len(b)
    BY <1>2
  <2>. QED BY <1>3, <1>4, <1>5, <2>1
<1>7. t[f] # Comma /\ t[f] # "WITH"
  <2>1. t[f] \in {"SELECT", "EXEC", "USE", "SET", "INSERT", "UPDATE", "DELETE", "MERGE"}
    BY <1>2, <1>6 DEF Kinds, Starts, Writing, WriteKeywords, Reading, Other
  <2>. QED BY <2>1, Marks
<1>8. Main(t, f)
  BY <1>1, <1>3, <1>4, <1>6, <1>7, FirstMain
<1>9. f \in Nat /\ f \in 1 .. Len(t) /\ Len(t) \in Nat /\ DOMAIN t = 1 .. Len(t) /\ f - 1 = n
        /\ ~(f > f)
  BY <1>2, <1>3, <1>4
<1>10. ASSUME NEW i \in f + 1 .. Len(t)
       PROVE  /\ t[i] \notin {"SELECT", "VALUES", "OUTPUT"}
              /\ t[i] \in Ruled => \/ i = f + 1 /\ t[i] = "INTO"
                                      /\ statement \in {"INSERT", "MERGE"}
                                   \/ i = f + 2 /\ t[i] = "SET" /\ statement = "UPDATE"
  <2>1. i - n \in 2 .. Len(b) /\ i = n + (i - n) /\ (i - n = 2 => i = f + 1)
          /\ (i - n = 3 => i = f + 2)
    BY <1>3, <1>4, <1>9
  <2>2. t[i] = b[i - n]
    BY <1>4, <2>1
  <2>. QED BY <1>2, <2>1, <2>2
<1>11. \A i \in 1 .. Len(t) : i \in 1 .. n \/ i = f \/ i \in f + 1 .. Len(t)
  BY <1>3, <1>9
<1>12. statement = Reading => ReadPasses(t, f)
  <2>1. SUFFICES ASSUME statement = Reading, NEW i \in 1 .. Len(t) PROVE ReadOk(t, f, i)
    BY DEF ReadPasses
  <2>2. CASE i \in 1 .. n
    BY <1>3, <1>4, <2>2, BeforePasses
  <2>3. CASE i = f
    <3>1. t[f] = "SELECT"
      BY <1>2, <1>6, <2>1 DEF Starts
    <3>. QED BY <1>9, <2>3, <3>1, FirstReadOk
  <2>4. CASE i \in f + 1 .. Len(t)
    <3>1. t[i] \notin Ruled
      BY <1>10, <2>1, <2>4 DEF Reading
    <3>. QED BY <3>1, OthersPass
  <2>. QED BY <1>11, <2>2, <2>3, <2>4
<1>13. statement # Reading => ~ReadPasses(t, f)
  <2>1. SUFFICES ASSUME statement # Reading PROVE ~ReadOk(t, f, f)
    BY <1>9 DEF ReadPasses
  <2>2. At(t, f - 1) \notin {"(", Comma}
    <3>1. CASE s = <<>>
      <4>1. f - 1 = 0 /\ 0 \notin DOMAIN t
        BY <1>9, <3>1
      <4>. QED BY <4>1, UndefinedMark DEF At
    <3>2. CASE s # <<>>
      <4>1. n \in 1 .. Len(s) /\ n \in DOMAIN t
        BY <1>3, <1>9, <3>2
      <4>2. At(t, f - 1) = s[n]
        BY <1>4, <1>9, <4>1 DEF At, Continues
      <4>. QED BY <1>3, <3>2, <4>2, EndMarks
    <3>. QED BY <3>1, <3>2
  <2>3. t[f] \in Starts(statement)
    BY <1>2, <1>6
  <2>. QED BY <1>2, <1>9, <2>1, <2>2, <2>3, FirstWordRead
<1>14. statement \in Writing => WritePasses(t, f)
  <2>1. SUFFICES ASSUME statement \in Writing, NEW i \in 1 .. Len(t) PROVE WriteOk(t, f, i)
    BY DEF WritePasses
  <2>2. t[f] = statement
    BY <1>2, <1>6, <2>1 DEF Starts, Writing, WriteKeywords, Reading, Other
  <2>3. CASE i \in 1 .. n
    BY <1>3, <1>4, <2>3, BeforePasses
  <2>4. CASE i = f
    BY <1>9, <2>1, <2>2, <2>4, FirstWriteOk DEF Writing
  <2>5. CASE i \in f + 1 .. Len(t)
    <3>1. CASE t[i] \notin Ruled
      BY <3>1, OthersPass
    <3>2. CASE i = f + 1 /\ t[i] = "INTO" /\ statement \in {"INSERT", "MERGE"}
      <4>1. At(t, f) = t[f]
        BY <1>9 DEF At
      <4>. QED BY <1>9, <2>2, <3>2, <4>1, FirstWriteOk
    <3>3. CASE i = f + 2 /\ t[i] = "SET" /\ statement = "UPDATE"
      <4>1. t[f + 1] = "t"
        <5>1. 2 \in 1 .. Len(b) /\ f + 1 = n + 2
          BY <1>2, <1>3
        <5>. QED BY <1>2, <1>4, <3>3, <5>1
      <4>. QED BY <1>9, <2>2, <3>3, <4>1, FirstWriteOk
    <3>. QED BY <1>10, <2>5, <3>1, <3>2, <3>3
  <2>. QED BY <1>11, <2>3, <2>4, <2>5
<1>15. Stage(t, f)'
  <2>1. t[f] = "INSERT" <=> statement = "INSERT"
    BY <1>2, <1>6 DEF Kinds, Starts, Writing, WriteKeywords, Reading, Other
  <2>2. t[f] = "UPDATE" <=> statement = "UPDATE"
    BY <1>2, <1>6 DEF Kinds, Starts, Writing, WriteKeywords, Reading, Other
  <2>3. statement = "MERGE" => t[f] = "MERGE"
    BY <1>2, <1>6 DEF Starts, Reading, Other
  <2>4. statement = Reading => t[f] = "SELECT"
    BY <1>2, <1>6 DEF Starts
  <2>5. at' \in Inserting <=> statement = "INSERT"
    BY <1>1, <1>2 DEF Inserting
  <2>6. at' \in Merging => statement = "MERGE"
    BY <1>1, <1>2 DEF Merging
  <2>7. statement = "UPDATE" => f + 2 <= Len(t) /\ t[f + 1] = "t" /\ t[f + 2] = "SET"
          /\ Top(t, f + 2)
    <3>1. SUFFICES ASSUME statement = "UPDATE"
                   PROVE f + 2 <= Len(t) /\ t[f + 1] = "t" /\ t[f + 2] = "SET" /\ Top(t, f + 2)
      OBVIOUS
    <3>2. 2 \in 1 .. Len(b) /\ 3 \in 1 .. Len(b) /\ f + 1 = n + 2 /\ f + 2 = n + 3
            /\ n + 3 <= Len(t)
      BY <1>2, <1>3, <1>4, <3>1
    <3>3. t[n + 2] = "t" /\ t[n + 3] = "SET" /\ Depth(t, n + 3) = 0
      BY <1>2, <1>3, <1>4, <3>1, <3>2
    <3>. QED BY <3>2, <3>3 DEF Top
  <2>8. at' = "selected" => \E i \in f .. Len(t) : t[i] = "SELECT" /\ Top(t, i)
          /\ \A j \in i + 1 .. Len(t) : t[j] # "OUTPUT"
    <3>1. f \in f .. Len(t) /\ Top(t, f)
      BY <1>6, <1>9 DEF Top
    <3>2. \A j \in f + 1 .. Len(t) : t[j] # "OUTPUT"
      BY <1>10
    <3>. QED BY <1>1, <1>2, <2>4, <3>1, <3>2
  <2>9. \A i \in f + 1 .. Len(t) : t[i] \notin {"SELECT", "VALUES"}
    BY <1>10
  <2>. QED BY <1>1, <2>1, <2>2, <2>3, <2>5, <2>6, <2>7, <2>8, <2>9 DEF Stage
<1>16. changes' = (IF statement = Reading THEN 0 ELSE 1)
  BY <1>1, <1>3
<1>17. (First \in Writing)' => changes' = 1 /\ statement \in Writing
  BY <1>1, <1>16 DEF Writing, WriteKeywords, Reading
<1>18. t[f] \in Starts(First')
  BY <1>1, <1>2, <1>6
<1>19. (Single /\ changes = 0 /\ nested = 0)' <=> ReadPasses(t, f)
  BY <1>1, <1>3, <1>12, <1>13, <1>16
<1>20. (First \in Writing)' =>
         ((Single /\ changes = 1)' => WritePasses(t, f)) /\ (WritePasses(t, f) => Passing')
  BY <1>1, <1>14, <1>17 DEF Passing
<1>21. Judged(t, f)'
  BY <1>8, <1>15, <1>18, <1>19, <1>20 DEF Judged
<1>. QED BY <1>21 DEF t

(* The first statement begins.                                             *)
LEMMA BeginFirstKeeps ==
  ASSUME Typed, NEW s, NEW lead, Bodied(s, lead, <<>>), statements = <<>>,
         NEW statement, NEW b, NEW clause, Opening(statement, b, clause),
         Begin(statement, b, clause)
  PROVE  Bodied(s \o b, lead, <<>>)'
<1>. DEFINE t == s \o b
<1>1. /\ open = <<>> /\ text' = text \o b /\ at' = clause /\ Len(open') = 0 /\ statements' # <<>>
  BY BeginFacts
<1>2. /\ b \in Seq(Words) /\ Len(b) >= 2 /\ Len(b) >= 1 /\ Shape(b, 0, 0) /\ b[Len(b)] \in EndTokens
      /\ clause # "start" /\ clause # "query"
  BY DEF Opening
<1>3. /\ s \in Seq(Words) /\ Len(s) \in Nat
      /\ Level(s, Len(s)) = 0 /\ \A k \in 0 .. Len(s) : Level(s, k) >= 0
  BY <1>1, Before
<1>4. /\ t \in Seq(Words) /\ Len(t) = Len(s) + Len(b)
      /\ \A k \in 0 .. Len(t) : Level(t, k) >= 0
      /\ Level(t, Len(t)) = Level(s, Len(s)) + 0
  <2>1. 0 \in Int /\ Level(s, Len(s)) + 0 >= 0
    BY <1>3
  <2>. QED BY <1>2, <1>3, <2>1, Joined
<1>5. Judged(t, Len(s) + 1)'
  BY FirstJudged
<1>. HIDE DEF t
<1>6. Len(s) + 1 \in 1 .. Len(t) /\ t # <<>> /\ Level(t, Len(t)) = Len(open')
  BY <1>1, <1>2, <1>3, <1>4
<1>7. Written(t)'
  BY <1>1, <1>4, <1>5, <1>6 DEF Written
<1>. QED BY <1>1, <1>2, <1>7, Extend DEF t

(* A statement begins.                                                     *)
LEMMA BeginKeeps ==
  ASSUME Typed, Typed', Counted, NEW s, NEW lead, Bodied(s, lead, <<>>),
         NEW statement, NEW b, NEW clause, Opening(statement, b, clause),
         Begin(statement, b, clause)
  PROVE  Bodied(s \o b, lead, <<>>)'
<1>1. CASE statements = <<>>
  BY <1>1, BeginFirstKeeps
<1>2. CASE statements # <<>>
  <2>1. s # <<>>
    BY <1>2 DEF Bodied, Written
  <2>2. at # "start"
    BY <2>1 DEF Bodied
  <2>. QED BY <1>2, <2>2, BeginAgainKeeps
<1>. QED BY <1>1, <1>2

(* Where the tokens of a text stand.                                       *)
LEMMA Spots ==
  ASSUME NEW T, NEW lead \in Seq(T), NEW s \in Seq(T), NEW e, e \in T, Len(s) >= 1
  PROVE  /\ (lead \o s \o <<e>>)[Len(lead) + 1] = s[1]
         /\ Len(lead \o s \o <<e>>) = Len(lead) + Len(s) + 1
         /\ (lead \o s \o <<e>>)[Len(lead) + Len(s) + 1] = e
<1>. DEFINE u == lead \o s
<1>1. u \in Seq(T)
  OBVIOUS
<1>2. Len(u) = Len(lead) + Len(s)
  OBVIOUS
<1>3. Len(lead) \in Nat /\ Len(s) \in Nat
  OBVIOUS
<1>4. Len(lead) + 1 \in 1 .. Len(lead) + Len(s) /\ (Len(lead) + 1) - Len(lead) = 1
        /\ Len(lead) + 1 > Len(lead)
  BY <1>3
<1>5. u[Len(lead) + 1] = s[1]
  BY <1>4
<1>6. Len(lead) + 1 \in 1 .. Len(u)
  BY <1>2, <1>4
<1>. HIDE DEF u
<1>7. (u \o <<e>>)[Len(lead) + 1] = u[Len(lead) + 1]
  BY <1>1, <1>6
<1>8. Len(u \o <<e>>) = Len(u) + 1 /\ (u \o <<e>>)[Len(u) + 1] = e
  BY <1>1
<1>. QED BY <1>2, <1>5, <1>7, <1>8 DEF u

(* Where the tokens of what is appended stand.                             *)
LEMMA Longer ==
  ASSUME NEW T, NEW x \in Seq(T), NEW b \in Seq(T), Len(b) >= 1
  PROVE  /\ Len(x \o b) = Len(x) + Len(b) /\ (x \o b)[Len(x) + 1] = b[1]
              /\ DOMAIN (x \o b) = 1 .. Len(x) + Len(b)
         /\ \A i \in 1 .. Len(x) : (x \o b)[i] = x[i]
OBVIOUS

(* More words after the statement's semicolon.                             *)
LEMMA TrailInterior ==
  ASSUME Typed, Typed', NEW s, NEW lead, Bodied(s, lead, <<Semicolon>>), NEW b \in Seq(Words),
         Len(b) >= 1,
         text' = text \o b
  PROVE  Interior'
<1>. DEFINE trail == <<Semicolon>>
            n == Len(text)
<1>1. /\ text = lead \o s \o trail /\ s \in Seq(Words) /\ s # <<>> /\ lead \in {<<>>, trail}
  BY DEF Bodied, Written
<1>2. Len(s) \in Nat /\ Len(s) >= 1 /\ s[1] \in Words /\ b[1] \in Words
  BY <1>1
<1>3. s[1] # Semicolon /\ b[1] # Semicolon
  BY <1>2, WordsAreNotSeparators
<1>4. /\ lead \in Seq(Tokens) /\ s \in Seq(Tokens) /\ trail \in Seq(Tokens) /\ b \in Seq(Tokens)
      /\ Len(lead) \in Nat /\ Len(trail) = 1 /\ trail[1] = Semicolon
  <2>1. trail \in Seq(Tokens)
    BY SeparatorTyped
  <2>2. <<>> \in Seq(Tokens)
    OBVIOUS
  <2>3. Words \subseteq Tokens
    BY DEF Tokens
  <2>4. s \in Seq(Tokens)
    <3>1. \A i \in 1 .. Len(s) : s[i] \in Tokens
      BY <1>1, <2>3
    <3>. QED BY <1>1, <3>1
  <2>5. b \in Seq(Tokens)
    <3>1. \A i \in 1 .. Len(b) : b[i] \in Tokens
      BY <2>3
    <3>. QED BY <3>1
  <2>6. lead \in Seq(Tokens)
    BY <1>1, <2>1, <2>2
  <2>7. Len(trail) = 1 /\ trail[1] = Semicolon
    OBVIOUS
  <2>. QED BY <2>1, <2>4, <2>5, <2>6, <2>7
<1>. HIDE DEF trail
<1>5. text[Len(lead) + 1] = s[1] /\ text[Len(lead) + Len(s) + 1] = Semicolon
        /\ Len(text) = Len(lead) + Len(s) + 1
  <2>1. Semicolon \in Tokens
    BY DEF Tokens
  <2>. QED BY <1>1, <1>2, <1>4, <2>1, Spots DEF trail
<1>6. n = Len(lead) + Len(s) + 1 /\ text[n] = Semicolon /\ text[Len(lead) + 1] = s[1] /\ n \in Nat
  BY <1>2, <1>4, <1>5
<1>7. text \in Seq(Tokens) /\ Len(text') = n + Len(b) /\ text'[n + 1] = b[1]
        /\ DOMAIN text' = 1 .. n + Len(b)
      /\ \A i \in 1 .. n : text'[i] = text[i]
  <2>1. text \in Seq(Tokens)
    BY DEF Typed
  <2>. QED BY <1>4, <2>1, Longer
<1>8. n \in DOMAIN text' /\ text'[n] = Semicolon
  BY <1>2, <1>4, <1>6, <1>7
<1>9. Len(lead) + 1 \in 1 .. n - 1 /\ text'[Len(lead) + 1] # Semicolon
  BY <1>2, <1>3, <1>4, <1>6, <1>7
<1>10. n + 1 \in n + 1 .. Len(text') /\ text'[n + 1] # Semicolon
  BY <1>3, <1>6, <1>7
<1>. QED BY <1>8, <1>9, <1>10 DEF Interior

(* A statement after a separated one breaks the text.                      *)
LEMMA BeginBreaks ==
  ASSUME Typed, Typed', NEW s, NEW lead, Bodied(s, lead, <<Semicolon>>),
         NEW statement, NEW b, NEW clause, Opening(statement, b, clause),
         Begin(statement, b, clause)
  PROVE  Broken'
<1>1. /\ text' = text \o b /\ Len(statements) \in Nat /\ Len(statements') = Len(statements) + 1
      /\ statements # <<>> => Len(statements) >= 1
  BY BeginFacts
<1>2. statements # <<>>
  BY DEF Bodied
<1>3. b \in Seq(Words) /\ Len(b) >= 1
  BY DEF Opening
<1>4. Interior'
  BY <1>1, <1>3, TrailInterior
<1>5. Len(statements') >= 2
  BY <1>1, <1>2
<1>. QED BY <1>4, <1>5 DEF Broken

(* The blocks statements begin with.                                       *)
LEMMA SelectOpening == Opening(Reading, <<"SELECT", String, "AS", Quoted>>, "selected")
<1>. DEFINE b == <<"SELECT", String, "AS", Quoted>>
<1>1. /\ b \in Seq(Words) /\ Len(b) = 4 /\ Shape(b, 0, 0)
      /\ b[1] = "SELECT" /\ b[2] = String /\ b[3] = "AS" /\ b[4] = Quoted
  BY SelectBlock
<1>. HIDE DEF b
<1>2. Opening(Reading, b, "selected")
  BY <1>1, StatementNames
     DEF Opening, Starts, Ruled, EndTokens, Reading, Other, String, Quoted, Inserting
<1>. QED BY <1>2 DEF b

LEMMA InsertOpening == Opening("INSERT", <<"INSERT", "INTO", "t", "(", "a", ")">>, "inserting")
<1>. DEFINE b == <<"INSERT", "INTO", "t", "(", "a", ")">>
<1>1. /\ b \in Seq(Words) /\ Len(b) = 6 /\ Shape(b, 0, 0)
      /\ b[1] = "INSERT" /\ b[2] = "INTO" /\ b[3] = "t" /\ b[4] = "(" /\ b[5] = "a" /\ b[6] = ")"
  BY InsertBlock
<1>. HIDE DEF b
<1>2. Opening("INSERT", b, "inserting")
  BY <1>1, StatementNames
     DEF Opening, Starts, Ruled, EndTokens, Reading, Other, String, Quoted, Inserting
<1>. QED BY <1>2 DEF b

LEMMA UpdateOpening == Opening("UPDATE", <<"UPDATE", "t", "SET", "a", "a">>, "changed")
<1>. DEFINE b == <<"UPDATE", "t", "SET", "a", "a">>
<1>1. /\ b \in Seq(Words) /\ Len(b) = 5 /\ Shape(b, 0, 0)
      /\ b[1] = "UPDATE" /\ b[2] = "t" /\ b[3] = "SET" /\ b[4] = "a" /\ b[5] = "a"
  BY UpdateBlock
<1>3. Depth(b, 3) = 0
  BY UpdateBlock
<1>. HIDE DEF b
<1>2. Opening("UPDATE", b, "changed")
  BY <1>1, <1>3, StatementNames
     DEF Opening, Starts, Ruled, EndTokens, Reading, Other, String, Quoted, Inserting
<1>. QED BY <1>2 DEF b

LEMMA DeleteOpening == Opening("DELETE", <<"DELETE", "FROM", "t">>, "changed")
<1>. DEFINE b == <<"DELETE", "FROM", "t">>
<1>1. /\ b \in Seq(Words) /\ Len(b) = 3 /\ Shape(b, 0, 0)
      /\ b[1] = "DELETE" /\ b[2] = "FROM" /\ b[3] = "t"
  BY DeleteBlock
<1>. HIDE DEF b
<1>2. Opening("DELETE", b, "changed")
  BY <1>1, StatementNames
     DEF Opening, Starts, Ruled, EndTokens, Reading, Other, String, Quoted, Inserting
<1>. QED BY <1>2 DEF b

LEMMA MergeIntoOpening == Opening("MERGE", <<"MERGE", "INTO", "t", "USING", "t", "ON", "a">>,
  "merging")
<1>. DEFINE b == <<"MERGE", "INTO", "t", "USING", "t", "ON", "a">>
<1>1. /\ b \in Seq(Words) /\ Len(b) = 7 /\ Shape(b, 0, 0)
      /\ b[1] = "MERGE" /\ b[2] = "INTO" /\ b[3] = "t" /\ b[4] = "USING" /\ b[5] = "t"
           /\ b[6] = "ON" /\ b[7] = "a"
  BY MergeIntoBlock
<1>. HIDE DEF b
<1>2. Opening("MERGE", b, "merging")
  BY <1>1, StatementNames
     DEF Opening, Starts, Ruled, EndTokens, Reading, Other, String, Quoted, Inserting
<1>. QED BY <1>2 DEF b

LEMMA MergeOpening == Opening("MERGE", <<"MERGE", "t", "USING", "t", "ON", "a">>, "merging")
<1>. DEFINE b == <<"MERGE", "t", "USING", "t", "ON", "a">>
<1>1. /\ b \in Seq(Words) /\ Len(b) = 6 /\ Shape(b, 0, 0)
      /\ b[1] = "MERGE" /\ b[2] = "t" /\ b[3] = "USING" /\ b[4] = "t" /\ b[5] = "ON" /\ b[6] = "a"
  BY MergeBlock
<1>. HIDE DEF b
<1>2. Opening("MERGE", b, "merging")
  BY <1>1, StatementNames
     DEF Opening, Starts, Ruled, EndTokens, Reading, Other, String, Quoted, Inserting
<1>. QED BY <1>2 DEF b

LEMMA ExecOpening == Opening(Other, <<"EXEC", "a">>, "finished")
<1>. DEFINE b == <<"EXEC", "a">>
<1>1. /\ b \in Seq(Words) /\ Len(b) = 2 /\ Shape(b, 0, 0)
      /\ b[1] = "EXEC" /\ b[2] = "a"
  BY ExecBlock
<1>. HIDE DEF b
<1>2. Opening(Other, b, "finished")
  BY <1>1, StatementNames
     DEF Opening, Starts, Ruled, EndTokens, Reading, Other, String, Quoted, Inserting
<1>. QED BY <1>2 DEF b

LEMMA UseOpening == Opening(Other, <<"USE", "a">>, "finished")
<1>. DEFINE b == <<"USE", "a">>
<1>1. /\ b \in Seq(Words) /\ Len(b) = 2 /\ Shape(b, 0, 0)
      /\ b[1] = "USE" /\ b[2] = "a"
  BY UseBlock
<1>. HIDE DEF b
<1>2. Opening(Other, b, "finished")
  BY <1>1, StatementNames
     DEF Opening, Starts, Ruled, EndTokens, Reading, Other, String, Quoted, Inserting
<1>. QED BY <1>2 DEF b

LEMMA SetOpening == Opening(Other, <<"SET", "a", "a">>, "finished")
<1>. DEFINE b == <<"SET", "a", "a">>
<1>1. /\ b \in Seq(Words) /\ Len(b) = 3 /\ Shape(b, 0, 0)
      /\ b[1] = "SET" /\ b[2] = "a" /\ b[3] = "a"
  BY SetBlock
<1>. HIDE DEF b
<1>2. Opening(Other, b, "finished")
  BY <1>1, StatementNames
     DEF Opening, Starts, Ruled, EndTokens, Reading, Other, String, Quoted, Inserting
<1>. QED BY <1>2 DEF b

-----------------------------------------------------------------------------
(***************************************************************************)
(* Separators, and every action together.                                  *)
(***************************************************************************)

(* The text is made of a body that is as Written says.                     *)
Held == \E s, lead, trail : Bodied(s, lead, trail)

(* What a text is put together from.                                       *)
LEMMA Parts ==
  ASSUME NEW lead, lead \in {<<>>, <<Semicolon>>}, NEW s \in Seq(Words)
  PROVE  /\ lead \in Seq(Tokens) /\ s \in Seq(Tokens) /\ Semicolon \in Tokens
              /\ lead \o s \in Seq(Tokens)
         /\ Len(lead) \in Nat /\ Len(s) \in Nat /\ Len(lead \o s) = Len(lead) + Len(s)
         /\ lead \o s \o <<>> = lead \o s
<1>. DEFINE T == Tokens
<1>1. Semicolon \in T
  BY DEF Tokens
<1>2. s \in Seq(T)
  <2>1. \A i \in 1 .. Len(s) : s[i] \in Tokens
    BY DEF Tokens
  <2>. QED BY <2>1
<1>. HIDE DEF T
<1>3. lead \in Seq(T)
  <2>1. CASE lead = <<>>
    BY <2>1
  <2>2. CASE lead = <<Semicolon>>
    BY <1>1, <2>2
  <2>. QED BY <2>1, <2>2
<1>4. lead \o s \in Seq(T) /\ Len(lead) \in Nat /\ Len(s) \in Nat
        /\ Len(lead \o s) = Len(lead) + Len(s)
  BY <1>2, <1>3
<1>5. lead \o s \o <<>> = lead \o s
  BY <1>4
<1>. QED BY <1>1, <1>2, <1>3, <1>4, <1>5 DEF T

(* What stands when a statement was ended by a semicolon.                  *)
LEMMA Trailing ==
  ASSUME NEW s, NEW lead, Bodied(s, lead, <<Semicolon>>)
  PROVE  at = "start" /\ open = <<>> /\ statements # <<>> /\ s # <<>> /\ s \in Seq(Words)
           /\ text # <<>>
<1>1. <<Semicolon>> # <<>>
  OBVIOUS
<1>2. at = "start" /\ open = <<>> /\ statements # <<>> /\ s # <<>> /\ s \in Seq(Words)
  BY <1>1 DEF Bodied, Written
<1>3. text = lead \o s \o <<Semicolon>> /\ lead \in {<<>>, <<Semicolon>>}
  BY DEF Bodied
<1>4. text # <<>>
  <2>1. lead \in Seq(Tokens) /\ s \in Seq(Tokens) /\ Semicolon \in Tokens /\ Len(lead) \in Nat
          /\ Len(s) \in Nat
    BY <1>2, <1>3, Parts
  <2>2. Len(s) >= 1
    BY <1>2
  <2>3. Len(text) = Len(lead) + Len(s) + 1
    BY <1>3, <2>1, <2>2, Spots
  <2>4. Len(text) # 0
    BY <2>1, <2>3
  <2>. QED BY <2>4
<1>. QED BY <1>2, <1>4

(* A statement begins, wherever it does.                                   *)
LEMMA BeginNext ==
  ASSUME Typed, Typed', Counted, NEW s, NEW lead, NEW trail, Bodied(s, lead, trail),
         NEW statement, NEW b, NEW clause, Opening(statement, b, clause),
         Begin(statement, b, clause)
  PROVE  Broken' \/ Held'
<1>1. CASE trail = <<>>
  <2>1. Bodied(s \o b, lead, <<>>)'
    BY <1>1, BeginKeeps
  <2>. QED BY <2>1 DEF Held
<1>2. CASE trail = <<Semicolon>>
  BY <1>2, BeginBreaks
<1>3. trail \in {<<>>, <<Semicolon>>}
  BY DEF Bodied
<1>. QED BY <1>1, <1>2, <1>3

(* Common table expressions after a separated statement.                   *)
LEMMA WithBreaks ==
  ASSUME Typed, Typed', NEW s, NEW lead, Bodied(s, lead, <<Semicolon>>), With
  PROVE  Broken'
<1>1. open = <<>> /\ statements # <<>>
  BY Trailing
<1>2. PICK b \in Seq(Words) : Len(b) >= 1 /\ (Nest(b, "defined") \/ Clause(b, "defined"))
  <2>1. \/ Nest(<<"WITH", "a", "AS", "(">>, "defined")
        \/ Nest(<<"WITH", Quoted, "(", "a", Comma, "a", ")", "AS", "(">>, "defined")
        \/ Clause(<<"WITH", "XMLNAMESPACES", "(", String, "AS", "a", ")">>, "defined")
    BY WithHead, ColumnsHead DEF With
  <2>2. CASE Nest(<<"WITH", "a", "AS", "(">>, "defined")
    <3>. DEFINE b == <<"WITH", "a", "AS", "(">>
    <3>1. b \in Seq(Words) /\ Len(b) = 4
      BY WithBlock
    <3>2. Nest(b, "defined")
      BY <2>2
    <3>. HIDE DEF b
    <3>3. Len(b) >= 1
      BY <3>1
    <3>. QED BY <3>1, <3>2, <3>3
  <2>3. CASE Nest(<<"WITH", Quoted, "(", "a", Comma, "a", ")", "AS", "(">>, "defined")
    <3>. DEFINE b == <<"WITH", Quoted, "(", "a", Comma, "a", ")", "AS", "(">>
    <3>1. b \in Seq(Words) /\ Len(b) = 9
      BY ColumnsBlock
    <3>2. Nest(b, "defined")
      BY <2>3
    <3>. HIDE DEF b
    <3>3. Len(b) >= 1
      BY <3>1
    <3>. QED BY <3>1, <3>2, <3>3
  <2>4. CASE Clause(<<"WITH", "XMLNAMESPACES", "(", String, "AS", "a", ")">>, "defined")
    <3>. DEFINE b == <<"WITH", "XMLNAMESPACES", "(", String, "AS", "a", ")">>
    <3>1. b \in Seq(Words) /\ Len(b) = 7
      BY NamespacesBlock
    <3>2. Clause(b, "defined")
      BY <2>4
    <3>. HIDE DEF b
    <3>3. Len(b) >= 1
      BY <3>1
    <3>. QED BY <3>1, <3>2, <3>3
  <2>. QED BY <2>1, <2>2, <2>3, <2>4
<1>3. text' = text \o b /\ statements' = statements
  BY <1>2 DEF Nest, Clause, Write
<1>4. Interior'
  BY <1>2, <1>3, TrailInterior
<1>5. Defining'
  <2>1. CASE Nest(b, "defined")
    <3>1. open' = Append(open, "defined")
      BY <2>1 DEF Nest
    <3>2. open' # <<>> /\ open'[1] = "defined"
      BY <1>1, <3>1
    <3>. QED BY <3>2 DEF Defining
  <2>2. CASE Clause(b, "defined")
    <3>1. open' = <<>> /\ at' = "defined"
      BY <1>1, <2>2 DEF Clause, Write
    <3>. QED BY <3>1 DEF Defining
  <2>. QED BY <1>2, <2>1, <2>2
<1>6. Len(statements') = 1 \/ Len(statements') >= 2
  <2>. DEFINE m == Len(statements')
  <2>1. statements' \in Seq(Kinds) /\ statements' # <<>>
    BY <1>1, <1>3 DEF Typed
  <2>2. m \in Nat /\ m # 0
    BY <2>1
  <2>. HIDE DEF m
  <2>3. m = 1 \/ m >= 2
    BY <2>2
  <2>. QED BY <2>3 DEF m
<1>. QED BY <1>4, <1>5, <1>6 DEF Broken

(* WITH, wherever it stands.                                               *)
LEMMA WithNext ==
  ASSUME Typed, Typed', Nesting, Counted, NEW s, NEW lead, NEW trail, Bodied(s, lead, trail), With
  PROVE  Broken' \/ Held'
<1>1. CASE trail = <<>>
  <2>1. Bodied(s, lead, <<>>)
    BY <1>1
  <2>2. \E b : Bodied(s \o b, lead, <<>>)'
    BY <2>1, WithKeeps
  <2>. QED BY <2>2 DEF Held
<1>2. CASE trail = <<Semicolon>>
  BY <1>2, WithBreaks
<1>3. trail \in {<<>>, <<Semicolon>>}
  BY DEF Bodied
<1>. QED BY <1>1, <1>2, <1>3

(* The stage of a statement that ends.                                     *)
LEMMA StageEnds ==
  ASSUME NEW s, NEW f, Stage(s, f), at \in StatementEnds, at' = "start", changes' = changes,
         enclosed' = enclosed, statements' = statements
  PROVE  Stage(s, f)'
<1>1. at \notin Inserting /\ at' \notin Inserting \cup Merging \cup {"selected"}
  BY DEF StatementEnds, QueryEnds, Inserting, Merging
<1>2. (Single' <=> Single) /\ (Doubled' <=> Doubled)
  BY DEF Single, Doubled, First
<1>. QED BY <1>1, <1>2 DEF Stage

(* A statement that ends is judged as before.                              *)
LEMMA JudgedEnds ==
  ASSUME NEW s, NEW f, Judged(s, f), at \in StatementEnds, at' = "start", changes' = changes,
         nested' = nested, enclosed' = enclosed, statements' = statements
  PROVE  Judged(s, f)'
<1>1. (Single' <=> Single) /\ First' = First /\ (Sole' <=> Sole) /\ (Passing' <=> Passing)
  BY DEF Single, First, Doubled, Sole, Passing
<1>2. Sole' => Stage(s, f)'
  BY <1>1, StageEnds DEF Judged
<1>. QED BY <1>1, <1>2 DEF Judged

(* Before anything was written.                                            *)
LEMMA EmptyHeld ==
  ASSUME Typed, NEW s, NEW lead, NEW trail, Bodied(s, lead, trail), text = <<>>
  PROVE  statements = <<>> /\ changes = 0 /\ nested = 0 /\ open = <<>>
<1>1. trail = <<>>
  <2>1. trail # <<Semicolon>>
    BY Trailing
  <2>. QED BY <2>1 DEF Bodied
<1>2. text = lead \o s \o <<>> /\ s \in Seq(Words) /\ lead \in {<<>>, <<Semicolon>>}
  BY <1>1 DEF Bodied, Written
<1>3. Len(s) = 0
  <2>1. lead \o s = text /\ Len(lead) \in Nat /\ Len(s) \in Nat
          /\ Len(lead \o s) = Len(lead) + Len(s)
    BY <1>2, Parts
  <2>. QED BY <2>1
<1>4. s = <<>>
  BY <1>2, <1>3
<1>. QED BY <1>4 DEF Bodied, Written

(* A semicolon or GO is written.                                           *)
LEMMA SeparateNext ==
  ASSUME Typed, Typed', NEW s, NEW lead, NEW trail, Bodied(s, lead, trail), Separate
  PROVE  Broken' \/ Held'
<1>1. PICK separator \in {Semicolon, "GO"} : text' = text \o <<separator>>
  BY DEF Separate, Clause, Write
<1>2. /\ open = <<>> /\ open' = open /\ at' = "start" /\ statements' = statements
           /\ changes' = changes /\ nested' = nested /\ enclosed' = enclosed
      /\ at \in StatementEnds \/ text = <<>>
  BY DEF Separate, Clause, Write
<1>3. CASE separator = "GO"
  <2>1. text \in Seq(Tokens)
    BY DEF Typed
  <2>2. Len(text) + 1 \in DOMAIN text' /\ text'[Len(text) + 1] = "GO"
    BY <1>1, <1>3, <2>1, SeparatorTyped, Longer
  <2>. QED BY <2>2 DEF Broken
<1>4. CASE separator = Semicolon /\ text = <<>>
  <2>1. statements = <<>> /\ changes = 0 /\ nested = 0
    BY <1>4, EmptyHeld
  <2>2. text' = <<Semicolon>> \o <<>> \o <<>>
    BY <1>1, <1>4
  <2>3. Written(<<>>)'
    <3>1. <<>> \in Seq(Words) /\ Len(<<>>) = 0 /\ Len(open') = 0 /\ \A i \in 0 .. 0 : i = 0
      BY <1>2
    <3>2. Level(<<>>, 0) = 0
      BY LevelZero
    <3>. QED BY <1>2, <2>1, <3>1, <3>2 DEF Written
  <2>4. Bodied(<<>>, <<Semicolon>>, <<>>)'
    BY <2>2, <2>3 DEF Bodied
  <2>. QED BY <2>4 DEF Held
<1>5. CASE separator = Semicolon /\ at \in StatementEnds
  <2>1. at # "start" /\ at # "defined"
    BY <1>5 DEF StatementEnds, QueryEnds
  <2>2. trail = <<>>
    BY <2>1, Trailing DEF Bodied
  <2>3. Bodied(s, lead, <<>>)
    BY <2>2
  <2>4. /\ s # <<>> /\ s \in Seq(Words) /\ Written(s) /\ Level(s, Len(s)) = Len(open)
        /\ \A k \in 0 .. Len(s) : Level(s, k) >= 0 /\ statements = <<>> => Defining
    BY <2>1, <2>3, Here
  <2>5. statements # <<>>
    BY <1>2, <2>1, <2>4 DEF Defining
  <2>6. PICK f \in 1 .. Len(s) : Judged(s, f)
    BY <2>4, <2>5 DEF Written
  <2>7. Judged(s, f)'
    BY <1>2, <1>5, <2>6, JudgedEnds
  <2>8. Written(s)'
    BY <1>2, <2>4, <2>5, <2>7 DEF Written
  <2>9. text' = lead \o s \o <<Semicolon>> /\ lead \in {<<>>, <<Semicolon>>}
    <3>1. text = lead \o s \o <<>> /\ lead \in {<<>>, <<Semicolon>>}
      BY <2>3 DEF Bodied
    <3>2. lead \o s \o <<>> = lead \o s
      BY <2>4, <3>1, Parts
    <3>. QED BY <1>1, <1>5, <3>1, <3>2
  <2>10. Bodied(s, lead, <<Semicolon>>)'
    BY <1>2, <2>4, <2>5, <2>8, <2>9 DEF Bodied
  <2>. QED BY <2>10 DEF Held
<1>. QED BY <1>1, <1>2, <1>3, <1>4, <1>5

(* After a statement's semicolon a statement begins, or nothing does.      *)
LEMMA Untrailed ==
  ASSUME NEW s, NEW lead, NEW trail, Bodied(s, lead, trail), at # "start" \/ open # <<>>
  PROVE  Bodied(s, lead, <<>>)
<1>1. trail # <<Semicolon>>
  BY Trailing
<1>. QED BY <1>1 DEF Bodied

(* The body goes on.                                                       *)
LEMMA Continued ==
  ASSUME NEW s, NEW lead, \E b : Bodied(s \o b, lead, <<>>)'
  PROVE  Held'
BY DEF Held

(* The actions that begin a statement, or go on with one.                  *)
LEMMA SelectNext ==
  ASSUME Typed, Typed', Counted, NEW s, NEW lead, NEW trail, Bodied(s, lead, trail), Select
  PROVE  Broken' \/ Held'
<1>1. CASE Begin(Reading, <<"SELECT", String, "AS", Quoted>>, "selected")
  BY <1>1, SelectOpening, BeginNext
<1>2. CASE at = "query" /\ Clause(<<"SELECT", "a">>, "selected")
  <2>1. Bodied(s, lead, <<>>)
    BY <1>2, Untrailed
  <2>. QED BY <1>2, <2>1, NextSelectKeeps, Continued
<1>. QED BY <1>1, <1>2 DEF Select

LEMMA MergeNext ==
  ASSUME Typed, Typed', Counted, NEW s, NEW lead, NEW trail, Bodied(s, lead, trail), Merge
  PROVE  Broken' \/ Held'
<1>1. \/ Begin("MERGE", <<"MERGE", "INTO", "t", "USING", "t", "ON", "a">>, "merging")
      \/ Begin("MERGE", <<"MERGE", "t", "USING", "t", "ON", "a">>, "merging")
  BY MergeIntoHead, MergeHead DEF Merge
<1>2. CASE Begin("MERGE", <<"MERGE", "INTO", "t", "USING", "t", "ON", "a">>, "merging")
  BY <1>2, MergeIntoOpening, BeginNext
<1>3. CASE Begin("MERGE", <<"MERGE", "t", "USING", "t", "ON", "a">>, "merging")
  BY <1>3, MergeOpening, BeginNext
<1>. QED BY <1>1, <1>2, <1>3

LEMMA OtherNext ==
  ASSUME Typed, Typed', Counted, NEW s, NEW lead, NEW trail, Bodied(s, lead, trail), OtherStatement
  PROVE  Broken' \/ Held'
<1>1. CASE Begin(Other, <<"EXEC", "a">>, "finished")
  BY <1>1, ExecOpening, BeginNext
<1>2. CASE Begin(Other, <<"USE", "a">>, "finished")
  BY <1>2, UseOpening, BeginNext
<1>3. CASE Begin(Other, <<"SET", "a", "a">>, "finished")
  BY <1>3, SetOpening, BeginNext
<1>. QED BY <1>1, <1>2, <1>3 DEF OtherStatement

(* The actions that only write on.                                         *)
WritesOn ==
  \/ SelectInto \/ From \/ FromQuery \/ FromChange \/ WhereQuery \/ SetOperation
  \/ QueryInParentheses \/ Close \/ Option
  \/ AndWith \/ InsertValues \/ InsertQuery \/ InsertQueryInParentheses
  \/ MergeWhen \/ Output \/ InsertExec \/ GroupedQuery

(* They do so in a statement that has begun.                               *)
LEMMA WritingOn ==
  ASSUME WritesOn
  PROVE  at # "start" \/ open # <<>>
BY
   DEF WritesOn, SelectInto, From, FromQuery, FromChange, WhereQuery, SetOperation,
       QueryInParentheses, Close, Option, AndWith, InsertValues, InsertQuery,
       InsertQueryInParentheses, MergeWhen, Output, InsertExec, GroupedQuery, QueryEnds

(* They keep the body as it should be.                                     *)
LEMMA WritesOnNext ==
  ASSUME Typed, Typed', Nesting, Counted, NEW s, NEW lead, NEW trail, Bodied(s, lead, trail),
         WritesOn
  PROVE  Held'
<1>1. Bodied(s, lead, <<>>)
  BY WritingOn, Untrailed
<1>2. CASE SelectInto
  BY <1>1, <1>2, SelectIntoKeeps, Continued
<1>3. CASE From
  BY <1>1, <1>3, FromKeeps, Continued
<1>4. CASE FromQuery
  BY <1>1, <1>4, FromQueryKeeps, Continued
<1>5. CASE WhereQuery
  BY <1>1, <1>5, WhereQueryKeeps, Continued
<1>6. CASE SetOperation
  BY <1>1, <1>6, SetOperationKeeps, Continued
<1>7. CASE QueryInParentheses
  BY <1>1, <1>7, QueryInParenthesesKeeps, Continued
<1>8. CASE Close
  BY <1>1, <1>8, CloseKeeps, Continued
<1>9. CASE Option
  BY <1>1, <1>9, OptionKeeps, Continued
<1>10. CASE AndWith
  BY <1>1, <1>10, AndWithKeeps, Continued
<1>11. CASE InsertValues
  BY <1>1, <1>11, InsertValuesKeeps, Continued
<1>12. CASE InsertQuery
  BY <1>1, <1>12, InsertQueryKeeps, Continued
<1>13. CASE MergeWhen
  BY <1>1, <1>13, MergeWhenKeeps, Continued
<1>14. CASE Output
  BY <1>1, <1>14, OutputKeeps, Continued
<1>15. CASE InsertExec
  BY <1>1, <1>15, InsertExecKeeps, Continued
<1>16. CASE FromChange
  BY <1>1, <1>16, FromChangeKeeps, Continued
<1>17. CASE InsertQueryInParentheses
  BY <1>1, <1>17, InsertQueryInParenthesesKeeps, Continued
<1>18. CASE GroupedQuery
  BY <1>1, <1>18, GroupedQueryKeeps, Continued
<1>. QED BY <1>2, <1>3, <1>4, <1>5, <1>6, <1>7, <1>8, <1>9, <1>10, <1>11, <1>12, <1>13, <1>14,
            <1>15, <1>16, <1>17, <1>18 DEF WritesOn

(* Every action keeps the body as it should be, or breaks the text.        *)
LEMMA HeldNext ==
  ASSUME Typed, Typed', Nesting, Counted, Held, Next
  PROVE  Broken' \/ Held'
<1>1. PICK s, lead, trail : Bodied(s, lead, trail)
  BY DEF Held
<1>2. CASE WritesOn
  BY <1>1, <1>2, WritesOnNext
<1>3. CASE Select
  BY <1>1, <1>3, SelectNext
<1>4. CASE With
  BY <1>1, <1>4, WithNext
<1>5. CASE Insert
  BY <1>1, <1>5, InsertOpening, BeginNext DEF Insert
<1>6. CASE Update
  BY <1>1, <1>6, UpdateOpening, BeginNext DEF Update
<1>7. CASE Delete
  BY <1>1, <1>7, DeleteOpening, BeginNext DEF Delete
<1>8. CASE Merge
  BY <1>1, <1>8, MergeNext
<1>9. CASE OtherStatement
  BY <1>1, <1>9, OtherNext
<1>10. CASE Separate
  BY <1>1, <1>10, SeparateNext
<1>. QED BY <1>2, <1>3, <1>4, <1>5, <1>6, <1>7, <1>8, <1>9, <1>10 DEF Next, WritesOn

(* The inductive invariant.                                                *)
Inv == Typed /\ Nesting /\ Counted /\ (Broken \/ Held)

(* The invariant holds of the empty text,                                  *)
LEMMA InvInit ==
  ASSUME Init
  PROVE  Inv
<1>1. /\ text = <<>> /\ at = "start" /\ open = <<>> /\ statements = <<>> /\ changes = 0
      /\ nested = 0 /\ enclosed = FALSE /\ grouped = 0
  BY DEF Init
<1>2. Typed
  <2>1. at \in Clauses
    BY <1>1, ClauseNames
  <2>2. text \in Seq(Tokens) /\ open \in Seq(Afters) /\ statements \in Seq(Kinds)
    BY <1>1
  <2>3. changes \in Nat /\ nested \in Nat /\ grouped \in Nat
    BY <1>1
  <2>4. enclosed \in BOOLEAN
    BY <1>1
  <2>. QED BY <2>1, <2>2, <2>3, <2>4 DEF Typed
<1>3. Nesting
  BY <1>1 DEF Nesting
<1>4. Counted
  BY <1>1 DEF Counted, ChangeClauses, Inserting, Merging
<1>5. Written(<<>>)
  <2>1. <<>> \in Seq(Words) /\ Len(<<>>) = 0 /\ Len(open) = 0 /\ \A i \in 0 .. 0 : i = 0
    BY <1>1
  <2>2. Level(<<>>, 0) = 0
    BY LevelZero
  <2>. QED BY <1>1, <2>1, <2>2 DEF Written
<1>6. text = <<>> \o <<>> \o <<>>
  BY <1>1
<1>7. Bodied(<<>>, <<>>, <<>>)
  BY <1>5, <1>6 DEF Bodied
<1>. QED BY <1>2, <1>3, <1>4, <1>7 DEF Inv, Held

(* and every step keeps it.                                                *)
LEMMA InvNext ==
  ASSUME Inv, [Next]_textVars
  PROVE  Inv'
<1>1. CASE Next
  <2>1. Typed' /\ Grows
    BY <1>1, TypedNext DEF Inv
  <2>2. Nesting'
    BY <1>1, NestingNext DEF Inv
  <2>3. Counted'
    BY <1>1, CountedNext DEF Inv
  <2>4. CASE Broken
    BY <1>1, <2>1, <2>2, <2>3, <2>4, BrokenNext DEF Inv
  <2>5. CASE Held
    BY <1>1, <2>1, <2>2, <2>3, <2>5, HeldNext DEF Inv
  <2>. QED BY <2>4, <2>5 DEF Inv
<1>2. CASE UNCHANGED textVars
  <2>1. /\ text' = text /\ at' = at /\ open' = open /\ statements' = statements
        /\ changes' = changes /\ nested' = nested /\ enclosed' = enclosed /\ grouped' = grouped
    BY <1>2 DEF textVars
  <2>2. Typed' /\ Nesting' /\ Counted'
    BY <2>1 DEF Inv, Typed, Nesting, Counted, First
  <2>3. Broken => Broken'
    BY <2>1 DEF Broken, Interior, Defining
  <2>4. \A s, lead, trail : Bodied(s, lead, trail) => Bodied(s, lead, trail)'
    <3>0. /\ (Single' <=> Single) /\ First' = First /\ (Doubled' <=> Doubled)
          /\ (Sole' <=> Sole) /\ (Passing' <=> Passing)
      BY <2>1 DEF Single, First, Doubled, Sole, Passing
    <3>1. \A s, f : Stage(s, f) <=> Stage(s, f)'
      BY <2>1, <3>0 DEF Stage
    <3>2. \A s, f : Judged(s, f) <=> Judged(s, f)'
      BY <2>1, <3>0, <3>1 DEF Judged
    <3>3. \A s : Prefix(s) <=> Prefix(s)'
      BY <2>1 DEF Prefix
    <3>4. \A s : Written(s) <=> Written(s)'
      BY <2>1, <3>2, <3>3 DEF Written
    <3>. QED BY <2>1, <3>4 DEF Bodied, Ends
  <2>. QED BY <2>2, <2>3, <2>4 DEF Inv, Held
<1>. QED BY <1>1, <1>2

-----------------------------------------------------------------------------
(***************************************************************************)
(* What the guard says of a text the invariant describes.                  *)
(***************************************************************************)

(* A greatest member.                                                      *)
LEMMA MaxOf ==
  ASSUME NEW n \in Nat, NEW S, S \subseteq 1 .. n, S # {}
  PROVE  Max(S) \in S /\ \A i \in S : i <= Max(S)
<1>. DEFINE R == {n - i : i \in S}
<1>1. R \in SUBSET Nat /\ R # {}
  <2>1. \A i \in S : n - i \in Nat
    OBVIOUS
  <2>2. PICK i \in S : TRUE
    OBVIOUS
  <2>3. n - i \in R
    OBVIOUS
  <2>. QED BY <2>1, <2>3
<1>2. PICK least \in R : \A r \in R : least <= r
  BY <1>1, LeastNatural
<1>3. PICK m \in S : least = n - m
  BY <1>2
<1>4. \A i \in S : m >= i
  <2>1. SUFFICES ASSUME NEW i \in S PROVE m >= i
    OBVIOUS
  <2>2. n - i \in R
    OBVIOUS
  <2>3. n - m <= n - i
    BY <1>2, <1>3, <2>2
  <2>4. i \in Nat /\ m \in Nat
    OBVIOUS
  <2>. HIDE DEF R
  <2>. QED BY <2>3, <2>4
<1>5. S \in SUBSET Nat
  OBVIOUS
<1>6. Max(S) = m
  BY <1>4, <1>5, MaxIs
<1>. QED BY <1>4, <1>6

(* The positions Body keeps the text between.                              *)
Kept(tokens) == {i \in DOMAIN tokens : tokens[i] # Semicolon}

(* Everything from the first to the last other token is in the body.       *)
LEMMA BodyHolds ==
  ASSUME NEW tokens \in Seq(Tokens), NEW j \in Kept(tokens), NEW k \in Kept(tokens),
         NEW i \in j .. k
  PROVE  \E x \in DOMAIN Body(tokens) : Body(tokens)[x] = tokens[i]
<1>. DEFINE K == Kept(tokens)
            lo == Min(K)
            hi == Max(K)
<1>1. Len(tokens) \in Nat /\ K \subseteq 1 .. Len(tokens) /\ K # {} /\ K \in SUBSET Nat
  BY DEF Kept
<1>2. lo \in K /\ lo <= j
  BY <1>1, MinOf
<1>3. hi \in K /\ k <= hi
  BY <1>1, MaxOf
<1>4. Body(tokens) = SubSeq(tokens, lo, hi)
  BY <1>1 DEF Body, Kept
<1>5. lo \in 1 .. Len(tokens) /\ hi \in 1 .. Len(tokens) /\ lo <= i /\ i <= hi /\ i \in Int
        /\ lo <= hi
  <2>1. j \in 1 .. Len(tokens) /\ k \in 1 .. Len(tokens)
    BY <1>1
  <2>. QED BY <1>1, <1>2, <1>3, <2>1
<1>. HIDE DEF lo, hi
<1>6. DOMAIN SubSeq(tokens, lo, hi) = 1 .. (hi - lo + 1)
        /\ \A x \in 1 .. (hi - lo + 1) : SubSeq(tokens, lo, hi)[x] = tokens[lo + x - 1]
  <2>. DEFINE T == Tokens
  <2>1. tokens \in Seq(T)
    OBVIOUS
  <2>. HIDE DEF T
  <2>. QED BY <1>5, <2>1, SubSeqProperties
<1>7. (i - lo) + 1 \in 1 .. (hi - lo + 1) /\ lo + ((i - lo) + 1) - 1 = i
  BY <1>1, <1>5
<1>. QED BY <1>4, <1>6, <1>7

(* What is broken is refused in both modes.                                *)
LEMMA BrokenRefused ==
  ASSUME Typed, Broken
  PROVE  \A mode : ~Allowed(text, mode)
<1>1. text \in Seq(Tokens) /\ Len(text) \in Nat /\ DOMAIN text = 1 .. Len(text)
  BY DEF Typed
<1>2. PICK i \in DOMAIN text : text[i] \in {Semicolon, "GO"}
        /\ \E j, k \in Kept(text) : i \in j .. k
  <2>1. CASE \E i \in DOMAIN text : text[i] = "GO"
    <3>1. PICK i \in DOMAIN text : text[i] = "GO"
      BY <2>1
    <3>2. i \in Kept(text)
      BY <3>1, Separators DEF Kept
    <3>3. i \in i .. i
      BY <1>1
    <3>. QED BY <3>1, <3>2, <3>3
  <2>2. CASE Interior
    <3>1. PICK i \in DOMAIN text : /\ text[i] = Semicolon
                                   /\ \E j \in 1 .. i - 1 : text[j] # Semicolon
                                   /\ \E k \in i + 1 .. Len(text) : text[k] # Semicolon
      BY <2>2 DEF Interior
    <3>2. PICK j \in 1 .. i - 1 : text[j] # Semicolon
      BY <3>1
    <3>3. PICK k \in i + 1 .. Len(text) : text[k] # Semicolon
      BY <3>1
    <3>4. j \in Kept(text) /\ k \in Kept(text) /\ i \in j .. k
      BY <1>1, <3>2, <3>3 DEF Kept
    <3>. QED BY <3>1, <3>4
  <2>. QED BY <2>1, <2>2 DEF Broken
<1>3. PICK j \in Kept(text), k \in Kept(text) : i \in j .. k
  BY <1>2
<1>4. PICK x \in DOMAIN Body(text) : Body(text)[x] = text[i]
  BY <1>1, <1>3, BodyHolds
<1>. QED BY <1>2, <1>4 DEF Allowed

(* Where the tokens of three parts stand.                                  *)
LEMMA ThreeParts ==
  ASSUME NEW T, NEW a \in Seq(T), NEW b \in Seq(T), NEW c \in Seq(T)
  PROVE  /\ Len(a \o b \o c) = Len(a) + Len(b) + Len(c) /\ a \o b \o c \in Seq(T)
         /\ \A i \in 1 .. Len(a) : (a \o b \o c)[i] = a[i]
         /\ \A i \in 1 .. Len(b) : (a \o b \o c)[Len(a) + i] = b[i]
         /\ \A i \in 1 .. Len(c) : (a \o b \o c)[Len(a) + Len(b) + i] = c[i]
<1>. DEFINE u == a \o b
<1>1. u \in Seq(T) /\ Len(u) = Len(a) + Len(b) /\ Len(a) \in Nat /\ Len(b) \in Nat /\ Len(c) \in Nat
  OBVIOUS
<1>2. \A i \in 1 .. Len(a) : u[i] = a[i] /\ i \in 1 .. Len(u)
  BY <1>1
<1>3. \A i \in 1 .. Len(b) : u[Len(a) + i] = b[i] /\ Len(a) + i \in 1 .. Len(u)
  BY <1>1
<1>. HIDE DEF u
<1>4. /\ Len(u \o c) = Len(u) + Len(c) /\ u \o c \in Seq(T)
      /\ \A i \in 1 .. Len(u) : (u \o c)[i] = u[i]
      /\ \A i \in 1 .. Len(c) : (u \o c)[Len(u) + i] = c[i]
  <2>. DEFINE v == u \o c
              m == Len(u)
              n == Len(c)
  <2>1. /\ v \in Seq(T) /\ Len(v) = m + n
        /\ \A i \in 1 .. m + n : v[i] = IF i <= m THEN u[i] ELSE c[i - m]
    <3>1. u \in Seq(T) /\ c \in Seq(T)
      BY <1>1
    <3>2. v \in Seq(T) /\ Len(v) = Len(u) + Len(c)
      BY <3>1, ConcatProperties
    <3>3. \A i \in 1 .. Len(u) + Len(c) : v[i] = IF i <= Len(u) THEN u[i] ELSE c[i - Len(u)]
      BY <3>1, ConcatProperties
    <3>. QED BY <3>2, <3>3
  <2>2. m \in Nat /\ n \in Nat
    BY <1>1
  <2>. HIDE DEF v, m, n
  <2>3. \A i \in 1 .. m : v[i] = u[i]
    BY <2>1, <2>2
  <2>4. ASSUME NEW i \in 1 .. n PROVE v[m + i] = c[i]
    <3>1. m + i \in 1 .. m + n /\ ~(m + i <= m) /\ (m + i) - m = i
      BY <2>2
    <3>. QED BY <2>1, <3>1
  <2>. QED BY <2>1, <2>3, <2>4 DEF v, m, n
<1>5. \A i \in 1 .. Len(a) : (u \o c)[i] = a[i]
  BY <1>2, <1>4
<1>6. \A i \in 1 .. Len(b) : (u \o c)[Len(a) + i] = b[i]
  BY <1>3, <1>4
<1>. QED BY <1>1, <1>4, <1>5, <1>6 DEF u

(* The body of a text that is not broken is the text without separators.   *)
LEMMA BodyIs ==
  ASSUME NEW s, NEW lead, NEW trail, Bodied(s, lead, trail)
  PROVE  Body(text) = s
<1>1. /\ s \in Seq(Words) /\ lead \in {<<>>, <<Semicolon>>} /\ trail \in {<<>>, <<Semicolon>>}
      /\ text = lead \o s \o trail /\ (s = <<>> => trail = <<>>)
  BY DEF Bodied, Written
<1>2. /\ lead \in Seq(Tokens) /\ s \in Seq(Tokens) /\ Semicolon \in Tokens
           /\ lead \o s \in Seq(Tokens)
      /\ Len(lead) \in Nat /\ Len(s) \in Nat /\ Len(lead \o s) = Len(lead) + Len(s)
  BY <1>1, Parts
<1>3. \A i \in 1 .. Len(s) : s[i] # Semicolon
  BY <1>1, WordsAreNotSeparators
<1>. DEFINE p == Len(lead)
            n == Len(s)
            q == Len(trail)
<1>4. /\ q \in Nat /\ \A i \in 1 .. p : lead[i] = Semicolon
      /\ \A i \in 1 .. q : trail[i] = Semicolon
  <2>1. \A x \in {<<>>, <<Semicolon>>} : Len(x) \in Nat /\ \A i \in 1 .. Len(x) : x[i] = Semicolon
    OBVIOUS
  <2>. QED BY <1>1, <2>1
<1>5. trail \in Seq(Tokens)
  <2>1. trail \in {<<>>, <<Semicolon>>} /\ s \in Seq(Words)
    BY <1>1
  <2>. QED BY <2>1, Parts
<1>6. /\ Len(text) = p + n + q /\ text \in Seq(Tokens)
      /\ \A i \in 1 .. p : text[i] = lead[i]
      /\ \A i \in 1 .. n : text[p + i] = s[i]
      /\ \A i \in 1 .. q : text[p + n + i] = trail[i]
  BY <1>1, <1>2, <1>4, <1>5, ThreeParts
<1>7. Kept(text) = p + 1 .. p + n
  <2>1. DOMAIN text = 1 .. p + n + q
    BY <1>6
  <2>2. \A i \in 1 .. p + n + q : \/ i \in 1 .. p
                                  \/ i - p \in 1 .. n /\ i = p + (i - p)
                                  \/ i - (p + n) \in 1 .. q /\ i = p + n + (i - (p + n))
    BY <1>2, <1>4
  <2>3. ASSUME NEW i \in 1 .. p + n + q, text[i] # Semicolon PROVE i \in p + 1 .. p + n
    <3>1. i \notin 1 .. p
      BY <1>4, <1>6, <2>3
    <3>2. ~(i - (p + n) \in 1 .. q /\ i = p + n + (i - (p + n)))
      <4>1. ASSUME i - (p + n) \in 1 .. q, i = p + n + (i - (p + n)) PROVE FALSE
        <5>. DEFINE k == i - (p + n)
        <5>1. k \in 1 .. q /\ i = p + n + k
          BY <4>1
        <5>. HIDE DEF k
        <5>2. text[i] = trail[k] /\ trail[k] = Semicolon
          BY <1>4, <1>6, <5>1
        <5>. QED BY <2>3, <5>2
      <4>. QED BY <4>1
    <3>3. i - p \in 1 .. n
      BY <2>2, <2>3, <3>1, <3>2
    <3>. QED BY <1>2, <3>3
  <2>4. \A i \in p + 1 .. p + n : i \in 1 .. p + n + q /\ text[i] # Semicolon
    <3>1. SUFFICES ASSUME NEW i \in p + 1 .. p + n PROVE i \in 1 .. p + n + q /\ text[i] # Semicolon
      OBVIOUS
    <3>2. i - p \in 1 .. n /\ i = p + (i - p) /\ i \in 1 .. p + n + q
      BY <1>2, <1>4
    <3>. QED BY <1>3, <1>6, <3>2
  <2>. QED BY <2>1, <2>3, <2>4 DEF Kept
<1>8. CASE s = <<>>
  <2>1. Kept(text) = {}
    BY <1>2, <1>7, <1>8
  <2>. QED BY <1>8, <2>1 DEF Body, Kept
<1>9. CASE s # <<>>
  <2>1. n >= 1
    BY <1>2, <1>9, <1>1
  <2>2. Min(Kept(text)) = p + 1 /\ Max(Kept(text)) = p + n
    <3>1. Kept(text) \in SUBSET Nat /\ p + 1 \in Kept(text) /\ p + n \in Kept(text)
          /\ \A i \in Kept(text) : p + 1 <= i /\ p + n >= i
      BY <1>2, <1>7, <2>1
    <3>. QED BY <3>1, MinIs, MaxIs
  <2>3. Kept(text) # {}
    <3>1. p + 1 \in p + 1 .. p + n
      BY <1>2, <2>1
    <3>. QED BY <1>7, <3>1
  <2>4. Body(text) = SubSeq(text, p + 1, p + n)
    BY <2>2, <2>3 DEF Body, Kept
  <2>5. SubSeq(text, p + 1, p + n) = s
    <3>. DEFINE u == SubSeq(text, p + 1, p + n)
                T == Tokens
    <3>1. /\ p + 1 \in Int /\ p + n \in Int /\ p + 1 <= p + n /\ p + n - (p + 1) + 1 = n
          /\ \A i \in p + 1 .. p + n : i \in 1 .. Len(text)
          /\ \A i \in 1 .. n : p + 1 + i - 1 = p + i
      BY <1>2, <1>4, <1>6, <2>1
    <3>2. \A i \in p + 1 .. p + n : text[i] \in T
      BY <1>6, <3>1
    <3>3. s \in Seq(T)
      BY <1>2
    <3>. HIDE DEF T
    <3>4. u \in Seq(T) /\ Len(u) = n /\ \A i \in 1 .. n : u[i] = text[p + 1 + i - 1]
      BY <3>1, <3>2, SubSeqProperties
    <3>5. \A i \in 1 .. n : u[i] = s[i]
      BY <1>6, <3>1, <3>4
    <3>. HIDE DEF u
    <3>. QED BY <3>3, <3>4, <3>5 DEF u
  <2>. QED BY <2>4, <2>5
<1>. QED BY <1>8, <1>9

(* A complete text that holds anything is judged by its first statement.   *)
LEMMA CompleteFacts ==
  ASSUME Typed, Complete, NEW s, NEW lead, NEW trail, Bodied(s, lead, trail), s # <<>>
  PROVE  /\ statements # <<>> /\ s \in Seq(Words) /\ s \in Seq(Tokens)
         /\ \A k \in 0 .. Len(s) : Level(s, k) >= 0 /\ Level(s, Len(s)) = 0
         /\ \E f \in 1 .. Len(s) : Judged(s, f)
<1>1. Written(s) /\ trail \in {<<>>, <<Semicolon>>}
  BY DEF Bodied
<1>2. statements # <<>>
  <2>1. CASE trail = <<Semicolon>>
    BY <2>1, Trailing
  <2>2. CASE trail = <<>>
    <3>1. at # "start"
      BY <2>2 DEF Bodied
    <3>2. statements = <<>> => Defining
      <4>1. Bodied(s, lead, <<>>)
        BY <2>2
      <4>. QED BY <3>1, <4>1, Here
    <3>. QED BY <3>1, <3>2 DEF Complete, Defining, StatementEnds, QueryEnds
  <2>. QED BY <1>1, <2>1, <2>2
<1>3. /\ s \in Seq(Words) /\ s \in Seq(Tokens) /\ Level(s, Len(s)) = Len(open)
      /\ \A k \in 0 .. Len(s) : Level(s, k) >= 0
  BY <1>1, TypedWritten
<1>4. Len(open) = 0
  BY DEF Complete
<1>5. \E f \in 1 .. Len(s) : Judged(s, f)
  BY <1>1, <1>2 DEF Written
<1>. QED BY <1>2, <1>3, <1>4, <1>5

(* Levels that never fall below zero and end there balance.                *)
LEMMA LevelsBalance ==
  ASSUME NEW s \in Seq(Tokens), \A k \in 0 .. Len(s) : Level(s, k) >= 0, Level(s, Len(s)) = 0
  PROVE  Balanced(s)
<1>1. Len(s) \in Nat /\ DOMAIN s = 1 .. Len(s)
  OBVIOUS
<1>2. ASSUME NEW i \in DOMAIN s PROVE Count(s, ")", i) <= Count(s, "(", i)
  <2>1. i \in Nat /\ i \in 0 .. Len(s)
    BY <1>1
  <2>2. Count(s, ")", i) \in Nat /\ Count(s, "(", i) \in Nat
    BY <2>1, CountTyped
  <2>3. Count(s, "(", i) - Count(s, ")", i) >= 0
    BY <2>1, LevelIs
  <2>. QED BY <2>2, <2>3
<1>3. Count(s, "(", Len(s)) = Count(s, ")", Len(s))
  <2>1. Count(s, ")", Len(s)) \in Nat /\ Count(s, "(", Len(s)) \in Nat
    BY <1>1, CountTyped
  <2>2. Count(s, "(", Len(s)) - Count(s, ")", Len(s)) = 0
    BY <1>1, LevelIs
  <2>. QED BY <2>1, <2>2
<1>. QED BY <1>1, <1>2, <1>3 DEF Balanced, Count

(* The rules of the read mode, taken together, are those of each position, *)
LEMMA ReadMeans ==
  ASSUME NEW s \in Seq(Tokens), NEW f \in 1 .. Len(s)
  PROVE  NoForbiddenKeyword(s, "read") /\ SingleReadStatement(s, f) <=> ReadPasses(s, f)
<1>1. DOMAIN s = 1 .. Len(s) /\ Len(s) \in Nat
  OBVIOUS
<1>2. \A i \in 1 .. Len(s) : i \in f + 1 .. Len(s) <=> i > f
  BY <1>1
<1>3. \A i \in f + 1 .. Len(s) : i \in 1 .. Len(s)
  BY <1>1
<1>4. SingleReadStatement(s, f) <=>
        \A i \in 1 .. Len(s) : i > f /\ s[i] = "SELECT" /\ Top(s, i) => AfterSetOperator(s, i)
  BY <1>2, <1>3 DEF SingleReadStatement, TopLevel, Top
<1>5. NoForbiddenKeyword(s, "read") <=> \A i \in 1 .. Len(s) : NotForbidden(s, i, "read")
  BY <1>1 DEF NoForbiddenKeyword, NotForbidden
<1>. QED BY <1>4, <1>5 DEF ReadPasses, ReadOk

(* and those of the write mode imply those of each position,               *)
LEMMA WritePassesFrom ==
  ASSUME NEW s \in Seq(Tokens), NEW f \in 1 .. Len(s), NoForbiddenKeyword(s, "write"),
         SingleWriteStatement(s, f)
  PROVE  WritePasses(s, f)
<1>1. DOMAIN s = 1 .. Len(s) /\ \A i \in 1 .. Len(s) : i > f => i \in f + 1 .. Len(s)
  OBVIOUS
<1>2. \A i \in 1 .. Len(s) : NotForbidden(s, i, "write")
  BY <1>1 DEF NoForbiddenKeyword, NotForbidden
<1>3. \A i \in f + 1 .. Len(s) :
        /\ s[i] = "INTO" => IntoAllowed(s, f, i)
        /\ Top(s, i) => /\ s[i] \in WriteKeywords => WriteAllowed(s, f, i)
                        /\ s[i] = "SET" => SetAllowed(s, f, i)
                        /\ s[i] = "SELECT" => SelectAllowed(s, f, i)
  BY DEF SingleWriteStatement, TopLevel, Top
<1>. QED BY <1>1, <1>2, <1>3 DEF WritePasses, WriteOk

(* which are all they say of a text as SqlTexts writes it.                 *)
LEMMA WriteMeans ==
  ASSUME NEW s \in Seq(Tokens), NEW f \in 1 .. Len(s),
         s[f] = "UPDATE" => f + 2 <= Len(s) /\ s[f + 1] = "t" /\ s[f + 2] = "SET" /\ Top(s, f + 2)
  PROVE  NoForbiddenKeyword(s, "write") /\ SingleWriteStatement(s, f) <=> WritePasses(s, f)
<1>. DEFINE rest == f + 1 .. Len(s)
            Rules == /\ \A i \in rest : s[i] = "INTO" => IntoAllowed(s, f, i)
                     /\ \A word \in WriteKeywords : \A i \in TopLevel(s, word, rest) :
                          WriteAllowed(s, f, i)
                     /\ \A i \in TopLevel(s, "SET", rest) : SetAllowed(s, f, i)
                     /\ \A i \in TopLevel(s, "SELECT", rest) : SelectAllowed(s, f, i)
<1>1. DOMAIN s = 1 .. Len(s) /\ Len(s) \in Nat
  OBVIOUS
<1>2. \A i \in 1 .. Len(s) : i \in rest <=> i > f
  BY <1>1
<1>3. \A i \in rest : i \in 1 .. Len(s)
  BY <1>1
<1>. HIDE DEF rest
<1>4. NoForbiddenKeyword(s, "write") <=> \A i \in 1 .. Len(s) : NotForbidden(s, i, "write")
  BY <1>1 DEF NoForbiddenKeyword, NotForbidden
<1>5. Rules <=> \A i \in rest :
                  /\ s[i] = "INTO" => IntoAllowed(s, f, i)
                  /\ Top(s, i) => /\ s[i] \in WriteKeywords => WriteAllowed(s, f, i)
                                  /\ s[i] = "SET" => SetAllowed(s, f, i)
                                  /\ s[i] = "SELECT" => SelectAllowed(s, f, i)
  BY DEF TopLevel, Top
<1>6. (\A i \in 1 .. Len(s) : NotForbidden(s, i, "write")) /\ Rules <=> WritePasses(s, f)
  <2>. HIDE DEF Rules
  <2>. QED BY <1>2, <1>3, <1>5 DEF WritePasses, WriteOk
<1>7. SingleWriteStatement(s, f) <=> Rules
        /\ (s[f] = "UPDATE" => Cardinality(TopLevel(s, "SET", rest)) = 1)
  BY DEF SingleWriteStatement, rest
<1>8. Rules /\ s[f] = "UPDATE" => Cardinality(TopLevel(s, "SET", rest)) = 1
  <2>1. SUFFICES ASSUME Rules, s[f] = "UPDATE" PROVE TopLevel(s, "SET", rest) = {f + 2}
    <3>1. Cardinality({f + 2}) = 1
      BY FS_Singleton
    <3>. QED BY <2>1, <3>1
  <2>2. f + 2 \in TopLevel(s, "SET", rest)
    BY <1>1, <2>1 DEF TopLevel, Top, rest
  <2>3. ASSUME NEW i \in TopLevel(s, "SET", rest) PROVE i = f + 2
    <3>1. i \in rest /\ s[i] = "SET" /\ i \in f + 1 .. Len(s)
      BY <2>3 DEF TopLevel, rest
    <3>2. SetAllowed(s, f, i)
      BY <2>1, <2>3
    <3>3. TopLevel(s, "SET", f + 1 .. i - 1) = {}
      BY <2>1, <3>2 DEF SetAllowed
    <3>4. f + 2 \notin f + 1 .. i - 1
      BY <2>1, <3>3 DEF TopLevel, Top
    <3>5. i # f + 1
      BY <2>1, <3>1
    <3>. QED BY <1>1, <3>1, <3>4, <3>5
  <2>. QED BY <2>2, <2>3
<1>. HIDE DEF Rules
<1>. QED BY <1>4, <1>6, <1>7, <1>8

-----------------------------------------------------------------------------
(***************************************************************************)
(* The theorems.                                                           *)
(***************************************************************************)

(* A word a statement begins with tells its kind.                          *)
LEMMA KindsOf ==
  ASSUME NEW kind \in Kinds, NEW word, word \in Starts(kind)
  PROVE  /\ word = "SELECT" <=> kind = Reading
         /\ word \in WriteKeywords <=> kind \in Writing
         /\ kind \in Writing => word = kind
BY DEF Kinds, Starts, Writing, WriteKeywords, Reading, Other

(* What the guard says of a complete text, by its first statement.         *)
LEMMA AllowedMeans ==
  ASSUME Typed, Complete, NEW s, NEW lead, NEW trail, Bodied(s, lead, trail), s # <<>>
  PROVE  /\ statements \in Seq(Kinds) /\ statements # <<>> /\ First \in Kinds
         /\ Allowed(text, "read") <=> First = Reading /\ Single /\ changes = 0 /\ nested = 0
         /\ First \in Writing /\ Single /\ changes = 1 => Allowed(text, "write")
         /\ Allowed(text, "write") => First \in Writing /\ Passing
<1>1. /\ statements # <<>> /\ s \in Seq(Words) /\ s \in Seq(Tokens)
      /\ (\A k \in 0 .. Len(s) : Level(s, k) >= 0) /\ Level(s, Len(s)) = 0
  <2>1. \A k \in 0 .. Len(s) : Level(s, k) >= 0 /\ Level(s, Len(s)) = 0
    BY CompleteFacts
  <2>2. statements # <<>> /\ s \in Seq(Words) /\ s \in Seq(Tokens)
    BY CompleteFacts
  <2>3. 0 \in 0 .. Len(s)
    BY <2>2
  <2>. QED BY <2>1, <2>2, <2>3
<1>2. PICK f \in 1 .. Len(s) : Judged(s, f)
  BY CompleteFacts
<1>3. statements \in Seq(Kinds) /\ First \in Kinds
  BY <1>1 DEF Typed, First
<1>4. Main(s, f) /\ s[f] \in Starts(First)
  BY <1>2 DEF Judged
<1>5. /\ s[f] = "SELECT" <=> First = Reading
      /\ s[f] \in WriteKeywords <=> First \in Writing
      /\ First \in Writing => s[f] = First
  BY <1>3, <1>4, KindsOf
<1>6. Body(text) = s /\ MainIndex(s) = f /\ Balanced(s)
  <2>1. Body(text) = s
    BY BodyIs
  <2>2. MainIndex(s) = f
    BY <1>1, <1>4, MainFound
  <2>3. Balanced(s)
    BY <1>1, LevelsBalance
  <2>. QED BY <2>1, <2>2, <2>3
<1>7. \A i \in DOMAIN s : s[i] \notin {Semicolon, "GO"}
  <2>1. \A i \in DOMAIN s : s[i] \in Words
    BY <1>1
  <2>. QED BY <2>1, WordsAreNotSeparators
<1>8. At(s, f) = s[f] /\ (s[1] = s[f] \/ s[1] = "WITH")
  BY <1>1, <1>4 DEF At, Main
<1>9. /\ Allowed(text, "read") <=> /\ s[f] = "SELECT"
                                   /\ NoForbiddenKeyword(s, "read") /\ SingleReadStatement(s, f)
  BY <1>6, <1>7, <1>8 DEF Allowed, StatementWords
<1>10. Allowed(text, "write") <=> /\ s[f] \in WriteKeywords
                                  /\ NoForbiddenKeyword(s, "write") /\ SingleWriteStatement(s, f)
  BY <1>6, <1>7, <1>8 DEF Allowed, StatementWords
<1>11. NoForbiddenKeyword(s, "read") /\ SingleReadStatement(s, f) <=> Single /\ changes = 0 /\ nested = 0
  BY <1>1, <1>2, ReadMeans DEF Judged
<1>12. First \in Writing =>
         /\ Single /\ changes = 1 =>
              NoForbiddenKeyword(s, "write") /\ SingleWriteStatement(s, f)
         /\ NoForbiddenKeyword(s, "write") /\ SingleWriteStatement(s, f) => Passing
  <2>1. SUFFICES ASSUME First \in Writing
                 PROVE  /\ Single /\ changes = 1 =>
                             NoForbiddenKeyword(s, "write") /\ SingleWriteStatement(s, f)
                        /\ NoForbiddenKeyword(s, "write") /\ SingleWriteStatement(s, f) => Passing
    OBVIOUS
  <2>2. (Single /\ changes = 1 => WritePasses(s, f)) /\ (WritePasses(s, f) => Passing)
    BY <1>2, <2>1 DEF Judged
  <2>3. CASE Single
    <3>1. Stage(s, f)
      BY <1>2, <2>3 DEF Judged, Sole
    <3>2. s[f] = "UPDATE" => f + 2 <= Len(s) /\ s[f + 1] = "t" /\ s[f + 2] = "SET" /\ Top(s, f + 2)
      BY <3>1 DEF Stage
    <3>3. NoForbiddenKeyword(s, "write") /\ SingleWriteStatement(s, f) <=> WritePasses(s, f)
      BY <1>1, <3>2, WriteMeans
    <3>. QED BY <2>2, <3>3
  <2>4. CASE ~Single
    <3>1. NoForbiddenKeyword(s, "write") /\ SingleWriteStatement(s, f) => WritePasses(s, f)
      BY <1>1, WritePassesFrom
    <3>. QED BY <2>2, <2>4, <3>1
  <2>. QED BY <2>3, <2>4
<1>. QED BY <1>1, <1>3, <1>5, <1>9, <1>10, <1>11, <1>12

(* A text without statements is refused.                                   *)
LEMMA EmptyRefused ==
  ASSUME NEW lead, NEW trail, Bodied(<<>>, lead, trail)
  PROVE  statements = <<>> /\ \A mode : ~Allowed(text, mode)
<1>1. statements = <<>>
  BY DEF Bodied, Written
<1>2. Body(text) = <<>>
  BY BodyIs
<1>. QED BY <1>1, <1>2 DEF Allowed

(* The statements of a text with one.                                      *)
LEMMA OneStatement ==
  ASSUME statements \in Seq(Kinds), Single
  PROVE  statements = <<First>>
BY DEF Single, First

(* The three properties follow from the invariant.                         *)
LEMMA ReadsHold ==
  ASSUME Inv
  PROVE  ReadsOnlyRead
<1>1. SUFFICES ASSUME Complete, Allowed(text, "read")
               PROVE  statements = <<Reading>> /\ changes = 0 /\ nested = 0
  BY DEF ReadsOnlyRead
<1>2. Typed /\ Held
  BY <1>1, BrokenRefused DEF Inv
<1>3. PICK s, lead, trail : Bodied(s, lead, trail)
  BY <1>2 DEF Held
<1>4. s # <<>>
  BY <1>1, <1>3, EmptyRefused
<1>5. statements \in Seq(Kinds) /\ First = Reading /\ Single /\ changes = 0 /\ nested = 0
  BY <1>1, <1>2, <1>3, <1>4, AllowedMeans
<1>. QED BY <1>5, OneStatement

LEMMA WritesHold ==
  ASSUME Inv
  PROVE  WritesChangeOnce
<1>1. SUFFICES ASSUME Complete, Allowed(text, "write")
               PROVE  /\ statements[1] \in Writing /\ changes = 1
                      /\ Len(statements) = 1 \/ (enclosed /\ statements = <<"INSERT", Reading>>)
  BY DEF WritesChangeOnce
<1>2. Typed /\ Held
  BY <1>1, BrokenRefused DEF Inv
<1>3. PICK s, lead, trail : Bodied(s, lead, trail)
  BY <1>2 DEF Held
<1>4. s # <<>>
  BY <1>1, <1>3, EmptyRefused
<1>5. First \in Writing /\ Passing
  BY <1>1, <1>2, <1>3, <1>4, AllowedMeans
<1>6. Doubled => statements = <<"INSERT", Reading>>
  BY <1>2 DEF Typed, Doubled, First
<1>. QED BY <1>5, <1>6 DEF Passing, First, Single

LEMMA PassesHold ==
  ASSUME Inv
  PROVE  SingleStatementsPass
<1>1. SUFFICES ASSUME Complete, Len(statements) = 1, \A i \in DOMAIN text : text[i] # "GO"
               PROVE /\ statements = <<Reading>> /\ changes = 0 /\ nested = 0 => Allowed(text, "read")
                     /\ statements[1] \in Writing /\ changes = 1 => Allowed(text, "write")
  BY DEF SingleStatementsPass
<1>2. ~Broken
  <2>1. ~Defining
    BY <1>1 DEF Complete, Defining, StatementEnds, QueryEnds
  <2>. QED BY <1>1, <2>1 DEF Broken
<1>3. Typed /\ Held
  BY <1>2 DEF Inv
<1>4. PICK s, lead, trail : Bodied(s, lead, trail)
  BY <1>3 DEF Held
<1>5. s # <<>>
  <2>1. statements # <<>>
    BY <1>1
  <2>. QED BY <1>4, <2>1, EmptyRefused
<1>6. /\ Allowed(text, "read") <=> First = Reading /\ Single /\ changes = 0 /\ nested = 0
      /\ First \in Writing /\ Single /\ changes = 1 => Allowed(text, "write")
  BY <1>1, <1>3, <1>4, <1>5, AllowedMeans
<1>7. statements = <<Reading>> => First = Reading
  BY DEF First
<1>. QED BY <1>1, <1>6, <1>7 DEF First, Single

(* Every text SqlTexts writes is as the invariant says.                    *)
THEOREM Invariant == Spec => []Inv
BY InvInit, InvNext, PTL DEF Spec

(* analyzeSql accepts a complete text in read mode only when it holds one  *)
(* statement and queries in parentheses, and changes nothing, nested or    *)
(* not: no write that SqlTexts can write, however long, passes as a read.  *)
THEOREM ReadsSafe == Spec => []ReadsOnlyRead
BY Invariant, ReadsHold, PTL

(* analyzeSql accepts a complete text in write mode only when it begins    *)
(* with an INSERT, UPDATE, DELETE or MERGE, holds no other change but in   *)
(* the FROM of its queries, and no other statement but queries: those in   *)
(* parentheses, and one that follows an INSERT of a query in parentheses.  *)
THEOREM WritesSafe == Spec => []WritesChangeOnce
BY Invariant, WritesHold, PTL

(* analyzeSql refuses no complete text of one statement, a query in read   *)
(* mode or a change of rows in write mode.                                 *)
THEOREM GuardPasses == Spec => []SingleStatementsPass
BY Invariant, PassesHold, PTL

=============================================================================
