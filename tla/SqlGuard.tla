------------------------------ MODULE SqlGuard ------------------------------
(***************************************************************************)
(* The guard of lib/sql-guard.js: whether a text is a single statement     *)
(* that reads, or a single INSERT, UPDATE, DELETE or MERGE.                *)
(*                                                                         *)
(* A text is the sequence of tokens the tokenizer returns: its words in    *)
(* upper case, punctuation, and one opaque token for a string literal and  *)
(* one for a quoted identifier, whatever they hold.  The loops of the code *)
(* that carry flags along the text are stated here by what each position   *)
(* finds before it: the code throws at the first position that fails, so   *)
(* that a text is accepted exactly when every position passes.             *)
(***************************************************************************)
EXTENDS Naturals, Sequences, FiniteSets, SequencesExt, FiniteSetsExt

Comma     == ","
Semicolon == ";"
Punct     == {"(", ")", Comma, Semicolon}
String    == "'...'"
Quoted    == "[...]"
IsWord(token) == token \notin Punct \cup {String, Quoted}

WriteKeywords == {"INSERT", "UPDATE", "DELETE", "MERGE"}
SetOperators  == {"UNION", "ALL", "EXCEPT", "INTERSECT"}

(* NON_DML_STATEMENT_KEYWORDS, EXEC for all those that are not USE.        *)
NonDmlKeywords == {"EXEC", "USE"}

(* Mutated form: INTO is left out of READ_FORBIDDEN_KEYWORDS.              *)
ForbiddenWithoutInto(mode) ==
  NonDmlKeywords \cup IF mode = "read" THEN WriteKeywords \cup {"SET"} ELSE {}

Forbidden(mode) ==
  NonDmlKeywords \cup IF mode = "read" THEN WriteKeywords \cup {"INTO", "SET"} ELSE {}

(* The token at a position, or the undefined beyond either end.            *)
At(tokens, i) == IF i \in DOMAIN tokens THEN tokens[i] ELSE "undefined"

(* The text without the semicolons around it.                              *)
Body(tokens) ==
  LET kept == {i \in DOMAIN tokens : tokens[i] # Semicolon}
  IN IF kept = {} THEN <<>> ELSE SubSeq(tokens, Min(kept), Max(kept))

(***************************************************************************)
(* Parentheses.                                                            *)
(***************************************************************************)
Depth(tokens, i) ==
  Cardinality({j \in 1 .. i - 1 : tokens[j] = "("})
    - Cardinality({j \in 1 .. i : tokens[j] = ")"})

Balanced(tokens) ==
  /\ \A i \in DOMAIN tokens :
       Cardinality({j \in 1 .. i : tokens[j] = ")"})
         <= Cardinality({j \in 1 .. i : tokens[j] = "("})
  /\ Cardinality({j \in DOMAIN tokens : tokens[j] = "("})
       = Cardinality({j \in DOMAIN tokens : tokens[j] = ")"})

(* The position after the parenthesis that closes the one at i.            *)
AfterParenthesis(tokens, i) ==
  1 + Min({j \in i + 1 .. Len(tokens) :
             tokens[j] = ")" /\ Depth(tokens, j) = Depth(tokens, i)})

(***************************************************************************)
(* skipCtePrefix: WITH, then name, columns, AS, parenthesis, separated by  *)
(* commas.  Nowhere is where no statement starts: the text is refused.     *)
(***************************************************************************)
Nowhere == 0

(* Where the common table expression that starts at i ends.                *)
AfterCte(tokens, i) ==
  LET columns == At(tokens, i + 1) = "("
      as      == IF columns THEN AfterParenthesis(tokens, i + 1) ELSE i + 1
  IN IF ~ (IsWord(At(tokens, i)) \/ At(tokens, i) = Quoted) \/ i > Len(tokens) THEN Nowhere
     ELSE IF At(tokens, i) = "XMLNAMESPACES"
            THEN IF columns THEN as ELSE Nowhere
     ELSE IF At(tokens, as) = "AS" /\ At(tokens, as + 1) = "("
            THEN AfterParenthesis(tokens, as + 1)
     ELSE Nowhere

(* The position of the statement after the expressions that start at i.    *)
AfterCtes(tokens) ==
  LET after[i \in 1 .. Len(tokens) + 1] ==
        LET end == AfterCte(tokens, i)
        IN IF end # Nowhere /\ At(tokens, end) = Comma THEN after[end + 1] ELSE end
  IN after[2]

MainIndex(tokens) == IF tokens[1] = "WITH" THEN AfterCtes(tokens) ELSE 1

(***************************************************************************)
(* The words a statement may not hold.                                     *)
(***************************************************************************)

(* USE after a parenthesis or a comma is a query hint.                     *)
IsQueryHintUse(tokens, i) == tokens[i] = "USE" /\ At(tokens, i - 1) \in {"(", Comma}

NoForbiddenKeyword(tokens, mode) ==
  \A i \in DOMAIN tokens :
    tokens[i] \in Forbidden(mode) => IsQueryHintUse(tokens, i)

(***************************************************************************)
(* A single statement.  At(i - 1) is the code's previous.                  *)
(***************************************************************************)
(* Mutated form: a word in parentheses counts like any other.              *)
AnyLevel(tokens, word, range) == {i \in range : tokens[i] = word}

TopLevel(tokens, word, range) ==
  {i \in range : tokens[i] = word /\ Depth(tokens, i) = 0}

AfterSetOperator(tokens, i) == tokens[i - 1] \in SetOperators

SingleReadStatement(tokens, main) ==
  \A i \in TopLevel(tokens, "SELECT", main + 1 .. Len(tokens)) :
    AfterSetOperator(tokens, i)

(* An OUTPUT clause began since the last SELECT: its INTO is a target.     *)
OutputOpen(tokens, main, i) ==
  \E j \in TopLevel(tokens, "OUTPUT", main + 1 .. i - 1) :
    TopLevel(tokens, "SELECT", j .. i - 1) = {}

IntoAllowed(tokens, main, i) ==
  At(tokens, i - 1) \in {"INSERT", "MERGE"} \/ OutputOpen(tokens, main, i)

WriteAllowed(tokens, main, i) ==
  tokens[main] = "MERGE" /\ tokens[i - 1] = "THEN"

SetAllowed(tokens, main, i) ==
  \/ tokens[main] = "UPDATE" /\ TopLevel(tokens, "SET", main + 1 .. i - 1) = {}
  \/ tokens[main] = "MERGE" /\ tokens[i - 1] = "UPDATE"

(* Mutated form: the rows of VALUES are not remembered.                    *)
SelectAfterValues(tokens, main, i) ==
  \/ AfterSetOperator(tokens, i)
  \/ /\ tokens[main] = "INSERT"
     /\ TopLevel(tokens, "SELECT", main + 1 .. i - 1) = {}

(* A SELECT continues a set operation or is the one source of an INSERT.   *)
SelectAllowed(tokens, main, i) ==
  \/ AfterSetOperator(tokens, i)
  \/ /\ tokens[main] = "INSERT"
     /\ TopLevel(tokens, "SELECT", main + 1 .. i - 1) = {}
     /\ TopLevel(tokens, "VALUES", main + 1 .. i - 1) = {}

SingleWriteStatement(tokens, main) ==
  LET rest == main + 1 .. Len(tokens)
  IN /\ \A i \in rest : tokens[i] = "INTO" => IntoAllowed(tokens, main, i)
     /\ \A word \in WriteKeywords :
          \A i \in TopLevel(tokens, word, rest) : WriteAllowed(tokens, main, i)
     /\ \A i \in TopLevel(tokens, "SET", rest) : SetAllowed(tokens, main, i)
     /\ \A i \in TopLevel(tokens, "SELECT", rest) : SelectAllowed(tokens, main, i)
     /\ tokens[main] = "UPDATE" => Cardinality(TopLevel(tokens, "SET", rest)) = 1

(***************************************************************************)
(* analyzeSql: the text is accepted as a read, or as a write.              *)
(***************************************************************************)
StatementWords(mode) == IF mode = "read" THEN {"SELECT"} ELSE WriteKeywords

Allowed(text, mode) ==
  LET tokens == Body(text)
      main   == MainIndex(tokens)
  IN /\ tokens # <<>>
     /\ \A i \in DOMAIN tokens : tokens[i] \notin {Semicolon, "GO"}
     /\ tokens[1] \in StatementWords(mode) \cup {"WITH"}
     /\ NoForbiddenKeyword(tokens, mode)
     /\ Balanced(tokens)
     /\ At(tokens, main) \in StatementWords(mode)
     /\ IF mode = "read"
          THEN SingleReadStatement(tokens, main)
          ELSE SingleWriteStatement(tokens, main)

=============================================================================
