------------------------------ MODULE SqlTexts ------------------------------
(***************************************************************************)
(* What lib/sql-guard.js is asked about: T-SQL texts, written clause by    *)
(* clause, with what SQL Server makes of them.  The grammar is external    *)
(* (the part of T-SQL the guard's rules and tests are about): a statement  *)
(* ends at a semicolon or simply where the next one begins, a query may    *)
(* stand in parentheses and begin with common table expressions, and INTO, *)
(* SET, SELECT, UPDATE and the like each occur both as a statement's start *)
(* and as a part of another statement, a DELETE even in the FROM of the    *)
(* query an INSERT takes its rows from.                                    *)
(*                                                                         *)
(* What the text does is kept beside it: how many statements it holds and  *)
(* how many of them change data or run other code.                         *)
(***************************************************************************)
EXTENDS SqlGuard

CONSTANTS
  MaxClauses,   (* Bound: the clauses of a text.                            *)
  MaxStatements (* Bound: its statements.                                   *)

ASSUME BoundsAssumption == MaxClauses \in Nat /\ MaxStatements \in Nat

VARIABLES
  text,       (* The tokens written so far.                                 *)
  at,         (* The clause the writer is in.                               *)
  open,       (* Of each open parenthesis, the clause that follows it.      *)
  clauses,    (* How many clauses were written.                             *)
  statements, (* The statements of the text, in the order they begin.       *)
  changes,    (* How many things the text does besides reading.             *)
  nested,     (* How many further ones stand in the FROM of a query.        *)
  enclosed,   (* An INSERT takes its rows from a query in parentheses.      *)
  grouped     (* How many more statements are queries in parentheses that   *)
              (* follow another statement immediately.                      *)

textVars == <<text, at, open, clauses, statements, changes, nested, enclosed, grouped>>

(* The statements that are queries and those that change rows.             *)
Reading == "SELECT"
Writing == WriteKeywords
Other   == "OTHER"

(* Clauses after which the statement, or the query in parentheses, may end *)
QueryEnds     == {"selected", "sourced", "filtered"}
StatementEnds == QueryEnds \cup {"changed", "returned", "merged", "finished"}

Init ==
  /\ text = <<>>
  /\ at = "start"
  /\ open = <<>>
  /\ clauses = 0
  /\ statements = <<>>
  /\ changes = 0
  /\ nested = 0
  /\ enclosed = FALSE
  /\ grouped = 0

Write(tokens, clause) ==
  /\ clauses < MaxClauses
  /\ clauses' = clauses + 1
  /\ text' = text \o tokens
  /\ at' = clause

(* A clause of the statement that is being written.                        *)
Clause(tokens, clause) ==
  Write(tokens, clause) /\ UNCHANGED <<open, statements, changes, nested, enclosed, grouped>>

(* A statement begins where nothing, or a complete statement, stands, and  *)
(* after the common table expressions that belong to it.                   *)
Begin(statement, tokens, clause) ==
  /\ open = <<>>
  /\ at \in StatementEnds \cup {"start", "defined"}
  /\ Len(statements) < MaxStatements
  /\ Write(tokens, clause)
  /\ statements' = Append(statements, statement)
  /\ changes' = IF statement = Reading THEN changes ELSE changes + 1
  /\ UNCHANGED <<open, nested, enclosed, grouped>>

(* A clause that opens a parenthesis for a query; then follows what then.  *)
Nest(tokens, then) ==
  /\ Write(tokens, "query")
  /\ open' = Append(open, then)
  /\ UNCHANGED <<statements, changes, nested, enclosed, grouped>>

(***************************************************************************)
(* Queries.                                                                *)
(***************************************************************************)
Select ==
  \/ Begin(Reading, <<"SELECT", String, "AS", Quoted>>, "selected")
  \/ at = "query" /\ Clause(<<"SELECT", "a">>, "selected")

(* Also where SQL Server refuses it: in the query of an INSERT, in a UNION *)
SelectInto ==
  /\ at = "selected" /\ open = <<>>
  /\ Write(<<"INTO", "t">>, "selected")
  /\ changes' = changes + 1
  /\ UNCHANGED <<open, statements, nested, enclosed, grouped>>

From == at = "selected" /\ Clause(<<"FROM", "t">>, "sourced")

FromQuery == at = "selected" /\ Nest(<<"FROM", "(">>, "sourced")

(* A statement that changes rows and returns them, as a query's source: of *)
(* INSERT, UPDATE, DELETE and MERGE alike.  SQL Server takes it in the     *)
(* query of an INSERT only.                                                *)
FromChange ==
  /\ at = "selected" /\ statements # <<>>
  /\ Write(<<"FROM", "(", "DELETE", "FROM", "t", "OUTPUT", "a", ")", "AS", "a">>, "sourced")
  /\ nested' = nested + 1
  /\ UNCHANGED <<open, statements, changes, enclosed, grouped>>

WhereQuery ==
  \/ at = "sourced" /\ Nest(<<"WHERE", "a", "IN", "(">>, "filtered")
  \/ at \in {"changed", "returned"} /\ Nest(<<"WHERE", "a", "IN", "(">>, "finished")

SetOperation ==
  /\ at \in QueryEnds
  /\ \E operator \in {<<"UNION">>, <<"UNION", "ALL">>} : Clause(operator, "query")

(* The query of a set operation may stand in parentheses of its own.       *)
QueryInParentheses == at = "query" /\ Nest(<<"(">>, "filtered")

Close ==
  /\ open # <<>>
  /\ at \in QueryEnds
  /\ Write(<<")">>, Last(open))
  /\ open' = Front(open)
  /\ UNCHANGED <<statements, changes, nested, enclosed, grouped>>

Option ==
  /\ open = <<>>
  /\ at \in QueryEnds \cup {"changed", "merged"}
  /\ Clause(<<"OPTION", "(", "MAXDOP", "a", Comma, "USE", "HINT", "(", String, ")", ")">>,
            "finished")

(***************************************************************************)
(* Common table expressions.                                               *)
(***************************************************************************)
With ==
  /\ open = <<>>
  /\ Len(statements) < MaxStatements
  /\ at \in StatementEnds \cup {"start"}
  /\ \/ \E head \in {<<"a">>, <<Quoted, "(", "a", Comma, "a", ")">>} :
          Nest(<<"WITH">> \o head \o <<"AS", "(">>, "defined")
     \/ Clause(<<"WITH", "XMLNAMESPACES", "(", String, "AS", "a", ")">>, "defined")

AndWith == at = "defined" /\ Nest(<<Comma, "a", "AS", "(">>, "defined")

(***************************************************************************)
(* Statements that change rows.                                            *)
(***************************************************************************)
Insert == Begin("INSERT", <<"INSERT", "INTO", "t", "(", "a", ")">>, "inserting")

InsertValues ==
  at \in {"inserting", "output"} /\ Clause(<<"VALUES", "(", "a", ")">>, "finished")

InsertQuery ==
  at \in {"inserting", "output"} /\ Clause(<<"SELECT", "a">>, "selected")

InsertQueryInParentheses ==
  /\ at \in {"inserting", "output"}
  /\ Write(<<"(">>, "query")
  /\ open' = Append(open, "filtered")
  /\ enclosed' = TRUE
  /\ UNCHANGED <<statements, changes, nested, grouped>>

Update == Begin("UPDATE", <<"UPDATE", "t", "SET", "a", "a">>, "changed")

Delete == Begin("DELETE", <<"DELETE", "FROM", "t">>, "changed")

Merge ==
  \E into \in {<<"INTO">>, <<>>} :
    Begin("MERGE", <<"MERGE">> \o into \o <<"t", "USING", "t", "ON", "a">>, "merging")

MergeWhen ==
  /\ at \in {"merging", "merged"}
  /\ \E branch \in {<<"UPDATE", "SET", "a", "a">>, <<"DELETE">>,
                    <<"INSERT", "(", "a", ")", "VALUES", "(", "a", ")">>} :
       Clause(<<"WHEN", "MATCHED", "THEN">> \o branch, "merged")

(* The rows an INSERT, UPDATE, DELETE or MERGE changed, returned or stored *)
Output ==
  LET output == {<<"OUTPUT", "a">>, <<"OUTPUT", "a", "INTO", "t">>}
  IN \/ at = "inserting" /\ \E clause \in output : Clause(clause, "output")
     \/ at = "changed"   /\ \E clause \in output : Clause(clause, "returned")
     \/ at = "merged"    /\ \E clause \in output : Clause(clause, "finished")

(***************************************************************************)
(* Everything else: other statements, separators.                          *)
(***************************************************************************)
OtherStatement ==
  \E tokens \in {<<"EXEC", "a">>, <<"USE", "a">>, <<"SET", "a", "a">>} :
    Begin(Other, tokens, "finished")

(* INSERT ... EXEC runs a procedure for its rows.                          *)
InsertExec ==
  /\ at = "inserting"
  /\ Write(<<"EXEC", "a">>, "finished")
  /\ changes' = changes + 1
  /\ UNCHANGED <<open, statements, nested, enclosed, grouped>>

(* A query in parentheses is a statement too, where the one before it ends *)
(* with a parenthesis: after a name it would be taken for arguments.       *)
GroupedQuery ==
  /\ open = <<>> /\ at = "filtered"
  /\ Write(<<"(", "SELECT", "a", ")">>, "filtered")
  /\ grouped' = grouped + 1
  /\ UNCHANGED <<open, statements, changes, nested, enclosed>>

(* A separator, at the start as well.                                      *)
Separate ==
  /\ open = <<>>
  /\ at \in StatementEnds \/ text = <<>>
  /\ \E separator \in {Semicolon, "GO"} : Clause(<<separator>>, "start")

----------------------------------------------------------------------------

Next ==
  \/ Select \/ SelectInto \/ From \/ FromQuery \/ FromChange \/ WhereQuery
  \/ SetOperation \/ QueryInParentheses \/ Close \/ Option
  \/ With \/ AndWith
  \/ Insert \/ InsertValues \/ InsertQuery \/ InsertQueryInParentheses
  \/ Update \/ Delete \/ Merge \/ MergeWhen \/ Output
  \/ OtherStatement \/ InsertExec \/ GroupedQuery \/ Separate

Spec == Init /\ [][Next]_textVars

----------------------------------------------------------------------------

(* Complete: SQL Server would run the text as it stands.                   *)
Complete == open = <<>> /\ at \in StatementEnds \cup {"start"}

(* Whatever a text is made of, what db_read accepts (README: "exactly one  *)
(* SELECT statement") only reads, and is one statement but for queries in  *)
(* parentheses that may follow it.                                         *)
ReadsOnlyRead ==
  Complete /\ Allowed(text, "read") =>
    statements = <<Reading>> /\ changes = 0 /\ nested = 0

(* What db_write accepts (README: "exactly one INSERT, UPDATE, DELETE, or  *)
(* MERGE") begins with a statement that changes rows and, but for what is  *)
(* nested in a FROM, changes and runs nothing else.  It is one statement   *)
(* but for queries: those in parentheses, and one after an INSERT of a     *)
(* query in parentheses, taken for the rows of the INSERT.                 *)
WritesChangeOnce ==
  Complete /\ Allowed(text, "write") =>
    /\ statements[1] \in Writing /\ changes = 1
    /\ Len(statements) = 1 \/ (enclosed /\ statements = <<"INSERT", Reading>>)

(* The guard refuses nothing it need not: a complete text without GO that  *)
(* holds one statement is accepted in its mode, with all the keywords that *)
(* are also those of other statements.                                     *)
SingleStatementsPass ==
  /\ Complete
  /\ Len(statements) = 1 /\ grouped = 0
  /\ \A i \in DOMAIN text : text[i] # "GO"
  => /\ statements = <<Reading>> /\ changes = 0 /\ nested = 0 => Allowed(text, "read")
     /\ statements[1] \in Writing /\ changes = 1 => Allowed(text, "write")

=============================================================================
