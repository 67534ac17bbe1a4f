------------------------------- MODULE Command ------------------------------
(***************************************************************************)
(* One run of the krx program: args.rs says which command lines it takes,  *)
(* output.rs makes the calls of the SDK and turns what they answer into    *)
(* output and an exit status, main.rs catches what goes wrong in between.  *)
(* A call is one step here, whose answer is that of Completeness; Composite*)
(* has its interleavings.                                                  *)
(*                                                                         *)
(* Left out: layout (--output, --fields, --sort, --verbose) and what is    *)
(* printed besides rows.  "select" stands for the flags that may drop rows *)
(* (--code, --filter, --offset, --limit); "local" for the commands that do *)
(* one local operation of the SDK; "probe" for auth status and auth check. *)
(***************************************************************************)
EXTENDS Completeness

CONSTANTS
    CmDays,    \* bound: days of a range
    CmOutcome  \* bound: the outcomes of a unit considered

ASSUME CommandConstants ==
    CmDays \in Nat /\ CmOutcome \subseteq Found \cup ToSet(COMPOSITE_PRIORITY)

VARIABLES
    cmLine,    \* the command line
    cmPc,      \* "line", "calling", "adding" or "done"
    cmCall,    \* the units of the call made
    cmOutcome, \* what each unit found, in order
    cmMatches, \* rows of a search that match
    cmAsked,   \* a KRX request was observed
    cmShown,   \* the units whose rows are output, in order
    cmAdded,   \* an entry went into the watchlist
    cmCaught,  \* a panic was caught
    cmNotice,  \* the note on a newer release came out
    cmExit     \* exit status

cmVars == <<cmLine, cmPc, cmCall, cmOutcome, cmMatches, cmAsked, cmShown,
            cmAdded, cmCaught, cmNotice, cmExit>>

Endpoint == {"list", "info"}

Flag == {"date", "from", "to", "offline", "noCache", "refresh", "retries",
         "dryRun", "select", "save"}

Line == [command : Endpoint \cup {"search", "summary", "show", "add",
                                  "local", "probe"},
         flags : SUBSET Flag]

NoCall == [command |-> "none", units |-> <<>>, closed |-> {}]

CommandInit ==
    /\ cmLine \in Line
    /\ cmPc = "line"
    /\ cmCall = NoCall
    /\ cmOutcome = <<>>
    /\ cmMatches = 0
    /\ cmShown = <<>>
    /\ cmAsked = FALSE /\ cmAdded = FALSE /\ cmCaught = FALSE /\ cmNotice = FALSE
    /\ cmExit = 0

-----------------------------------------------------------------------------
(* The command line                                                        *)

\* The flags a command takes: Cli::scope and the table of validate_policy.
Allowed(command) ==
    CASE command = "list" -> Flag
      [] command = "info" -> Flag \ {"date"}
      [] command = "search" -> {"offline"}
      [] command \in {"summary", "show"} -> {"date", "noCache", "refresh", "offline"}
      [] OTHER -> {}

\* validate_policy, validate_command_inputs
Accepted(line) ==
    /\ line.flags \subseteq Allowed(line.command)
    /\ "offline" \in line.flags =>
          line.flags \cap {"refresh", "noCache", "dryRun", "retries"} = {}
    /\ ~({"refresh", "noCache"} \subseteq line.flags)
    /\ "from" \in line.flags <=> "to" \in line.flags
    /\ ~({"retries", "from"} \subseteq line.flags)
    /\ line.command = "list" => line.flags \cap {"date", "from"} # {}

Exits(status) == cmPc' = "done" /\ cmExit' = status

RejectLine ==
    /\ cmPc = "line" /\ ~Accepted(cmLine)
    /\ Exits(2)
    /\ UNCHANGED <<cmLine, cmCall, cmOutcome, cmMatches, cmAsked, cmShown,
                   cmAdded, cmCaught, cmNotice>>

\* Before any call: the client cannot be built, or no recent session is known;
\* call_options: without a policy on the line one may stand in the environment,
\* as a number of hours that is none.
FailsBeforeCall ==
    /\ cmPc = "line" /\ Accepted(cmLine)
    /\ \/ Exits(1)
       \/ /\ cmLine.command \notin {"local", "probe"}
          /\ cmLine.flags \cap {"offline", "noCache", "refresh", "dryRun"} = {}
          /\ Exits(2)
    /\ UNCHANGED <<cmLine, cmCall, cmOutcome, cmMatches, cmAsked, cmShown,
                   cmAdded, cmCaught, cmNotice>>

\* watchlist show of an empty list asks for no prices.
NothingToShow ==
    /\ cmPc = "line" /\ Accepted(cmLine) /\ cmLine.command = "show"
    /\ Exits(0)
    /\ UNCHANGED <<cmLine, cmCall, cmOutcome, cmMatches, cmAsked, cmShown,
                   cmAdded, cmCaught, cmNotice>>

\* A dry run shows the request it would make, to who has a credential.
DryRun ==
    /\ cmPc = "line" /\ Accepted(cmLine) /\ "dryRun" \in cmLine.flags
    /\ \E configured \in BOOLEAN : Exits(IF configured THEN 0 ELSE 4)
    /\ UNCHANGED <<cmLine, cmCall, cmOutcome, cmMatches, cmAsked, cmShown,
                   cmAdded, cmCaught, cmNotice>>

-----------------------------------------------------------------------------
(* The call and its answer                                                 *)

\* impl From<KrxError> for Failure; errors of one unit that keep their kind.
ExitOf(kind) == IF kind = "approval" THEN 6 ELSE 1

\* execute_auth, execute_cache, execute_schema, watchlist list and remove: what
\* the SDK finds missing exits 4 or 3.
LocalCommand ==
    /\ cmPc = "line" /\ Accepted(cmLine)
    /\ cmLine.command \in {"local", "probe"}
    /\ cmAsked' \in IF cmLine.command = "probe" THEN BOOLEAN ELSE {FALSE}
    /\ \E status \in {0, 1, 2, 3, 4} : Exits(status)
    /\ UNCHANGED <<cmLine, cmCall, cmOutcome, cmMatches, cmShown, cmAdded,
                   cmCaught, cmNotice>>

\* A line may ask for a range, raw or adjusted, for one day, or for components.
CallsOf(line) ==
    CASE line.command \in Endpoint /\ "from" \in line.flags -> RangeCalls(CmDays)
      [] line.command \in Endpoint /\ "from" \notin line.flags ->
            {[command |-> "direct", units |-> <<1>>, closed |-> {}]}
      [] line.command \in {"search", "add"} ->
            {[command |-> "search", units |-> Components("search"), closed |-> {}]}
      [] line.command = "summary" ->
            {[command |-> "summary", units |-> Components("summary"), closed |-> {}]}
      [] line.command = "show" ->
            {[command |-> "prices", units |-> Components("prices"), closed |-> {}]}

\* The call ends; render_sdk_observations notes whether it sent a request.
CallEnds ==
    /\ cmPc = "line" /\ Accepted(cmLine)
    /\ cmLine.command \notin {"local", "probe"} /\ "dryRun" \notin cmLine.flags
    /\ cmCall' \in CallsOf(cmLine)
    /\ cmOutcome' \in [1..Len(Fanout(cmCall')) -> CmOutcome]
    /\ cmMatches' \in
          LET found == {i \in DOMAIN cmOutcome' : cmOutcome'[i] = "match"}
          IN  IF cmLine.command = "add" /\ found # {}
              THEN {Cardinality(found), Cardinality(found) + 1} ELSE {0}
    /\ cmAsked' \in IF "offline" \in cmLine.flags THEN {FALSE} ELSE BOOLEAN
    /\ cmPc' = "calling"
    /\ UNCHANGED <<cmLine, cmShown, cmAdded, cmCaught, cmNotice, cmExit>>

Outcomes == [i \in DOMAIN cmOutcome |->
                [unit |-> Fanout(cmCall)[i], outcome |-> cmOutcome[i]]]

\* What the SDK answers; a direct query has rows or an error.
Answer(consistent) ==
    IF cmCall.command # "direct" THEN Reduced(cmCall, Outcomes, consistent)
    ELSE IF cmOutcome[1] \notin Found THEN CallError(cmOutcome[1])
    ELSE [state |-> "complete",
          data |-> IF cmOutcome[1] = "empty" THEN <<>> ELSE <<1>>]

\* composite_exit, envelope_exit
ExitOfResult(state, result) ==
    CASE state = "complete" -> 0
      [] state = "partial" -> 7
      [] state = "empty" -> 3
      [] state = "failed" -> ExitOf(result.error)

\* Variant: the exit status does not look at what was filtered away.
StateOfAnswer(state, rows) == state

\* execute_endpoint: a complete answer of which no row is left is empty.
StateOfRows(state, rows) ==
    IF rows = <<>> /\ state = "complete" THEN "empty" ELSE state

\* matches_code, apply_pipeline
Pipelines(data) ==
    IF "select" \in cmLine.flags
    THEN {ItemsAt(data, kept) : kept \in SUBSET DOMAIN data}
    ELSE {data}

CallFails ==
    /\ cmPc = "calling"
    /\ \E consistent \in BOOLEAN :
          LET answer == Answer(consistent)
          IN  answer.state = "error" /\ Exits(ExitOf(answer.error))
    /\ UNCHANGED <<cmLine, cmCall, cmOutcome, cmMatches, cmAsked, cmShown,
                   cmAdded, cmCaught, cmNotice>>

\* The rows go out, to a file when asked, which may fail; nothing goes out of a
\* day that has none.
ReportEndpoint ==
    /\ cmPc = "calling" /\ cmLine.command \in Endpoint
    /\ \E consistent, saved \in BOOLEAN :
          LET answer == Answer(consistent)
          IN  /\ answer.state # "error"
              /\ \E rows \in Pipelines(answer.data) :
                    LET status == ExitOfResult(StateOfRows(answer.state, rows), answer)
                        written == \/ "save" \notin cmLine.flags \/ saved
                                   \/ cmCall.command = "direct" /\ rows = <<>>
                    IN  /\ Exits(IF written THEN status ELSE 1)
                        /\ cmShown' = IF written THEN rows ELSE <<>>
    /\ UNCHANGED <<cmLine, cmCall, cmOutcome, cmMatches, cmAsked, cmAdded,
                   cmCaught, cmNotice>>

ReportComposite ==
    /\ cmPc = "calling" /\ cmLine.command \in {"search", "summary", "show"}
    /\ LET answer == Answer(TRUE)
       IN  /\ answer.state # "error"
           /\ Exits(ExitOfResult(answer.state, answer))
           /\ cmShown' = answer.data
    /\ UNCHANGED <<cmLine, cmCall, cmOutcome, cmMatches, cmAsked, cmAdded,
                   cmCaught, cmNotice>>

\* Variant: one match is enough, whatever the other market says.
OneMatch(answer) == cmMatches = 1

\* watchlist add: both markets answered, and one row of them matches.
UniqueMatch(answer) == answer.state = "complete" /\ cmMatches = 1

AddLooksUp ==
    /\ cmPc = "calling" /\ cmLine.command = "add"
    /\ LET answer == Answer(TRUE)
       IN  /\ answer.state # "error"
           /\ cmShown' = answer.data
           /\ IF UniqueMatch(answer)
              THEN cmPc' = "adding" /\ UNCHANGED cmExit
              ELSE Exits(IF answer.state = "complete" THEN 2
                         ELSE ExitOfResult(answer.state, answer))
    /\ UNCHANGED <<cmLine, cmCall, cmOutcome, cmMatches, cmAsked, cmAdded,
                   cmCaught, cmNotice>>

\* Watchlist::add: the entry may be there already, or the list full, or out of
\* reach.
AddEntry ==
    /\ cmPc = "adding"
    /\ \/ Exits(0) /\ cmAdded' \in BOOLEAN
       \/ \E status \in {1, 2} : Exits(status) /\ UNCHANGED cmAdded
    /\ UNCHANGED <<cmLine, cmCall, cmOutcome, cmMatches, cmAsked, cmShown,
                   cmCaught, cmNotice>>

-----------------------------------------------------------------------------
(* The process                                                             *)

\* process_boundary
Panic ==
    /\ cmPc # "done"
    /\ cmCaught' = TRUE
    /\ Exits(1)
    /\ UNCHANGED <<cmLine, cmCall, cmOutcome, cmMatches, cmAsked, cmShown,
                   cmAdded, cmNotice>>

\* execute: only a success that asked KRX looks for a newer release; the status
\* stays what it is.
Notice ==
    /\ cmPc = "done" /\ cmExit = 0 /\ cmAsked /\ ~cmNotice
    /\ cmNotice' = TRUE
    /\ UNCHANGED <<cmLine, cmPc, cmCall, cmOutcome, cmMatches, cmAsked, cmShown,
                   cmAdded, cmCaught, cmExit>>

CommandNext ==
    \/ RejectLine \/ FailsBeforeCall \/ NothingToShow \/ DryRun \/ LocalCommand
    \/ CallEnds \/ CallFails \/ ReportEndpoint \/ ReportComposite
    \/ AddLooksUp \/ AddEntry \/ Panic \/ Notice

CommandSpec == CommandInit /\ [][CommandNext]_cmVars

-----------------------------------------------------------------------------
(* Properties                                                              *)

Failed == {i \in DOMAIN cmOutcome : cmOutcome[i] \notin Found}

\* The exit status of a command that called KRX tells a script what it may rely
\* on: 0, that every day or market answered and rows came out (or the entry is
\* on the watchlist); 3, that all of them answered and there is nothing; 7,
\* that some failed and some did not; any other, that no result came out but
\* one that is marked as failed or ambiguous.
ExitTellsTheOutcome ==
    cmPc = "done" /\ cmCall # NoCall /\ ~cmCaught =>
        /\ cmExit = 0 => Failed = {} /\ cmShown # <<>>
        /\ cmExit = 3 => Failed = {} /\ cmShown = <<>>
        /\ cmExit = 7 => Failed # {} /\ Cardinality(Failed) < Len(cmCall.units)
        /\ cmExit = 6 => \E i \in DOMAIN cmOutcome : cmOutcome[i] = "approval"
        /\ cmExit = 2 => cmLine.command = "add"
        /\ cmExit \in {1, 6} => cmShown = <<>> \/ cmLine.command = "add"

\* An entry is added only for the one row that matches in both markets, all of
\* which answered: not for a row whose rival was in the market that failed.
AddsOnlyTheUniqueMatch ==
    cmAdded => Failed = {} /\ cmMatches = 1
=============================================================================
