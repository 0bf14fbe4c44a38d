-------------------------- MODULE MCColumnEvidence --------------------------
(* The instance of ColumnEvidence that TLC checks: three values fit for an *)
(* enumeration, of which one, of 17 to 20 characters, is too long for a    *)
(* status; one like a name; and a long text with a phone number.  An ISO   *)
(* date also has the form of a code.  The cap and the limits of the        *)
(* promotion are scaled down so that few queries reach them.               *)
EXTENDS ColumnEvidence

MCValues == {"flag", "date", "phrase", "Name", "text"}
MCFlags == {"flag"}
MCDates == {"date"}
MCTitleCase == {"Name"}
MCTexts == {"text"}
MCPhrases == {"phrase", "text"}

=============================================================================
