----------------------------- MODULE MCForward -----------------------------
(***************************************************************************)
(* The plain forwards of MCPlainForward; and, from a server where nothing  *)
(* has happened yet, a command line typed token by token and a name typed  *)
(* character by character, so that TLC goes through all of them.           *)
(***************************************************************************)
EXTENDS MCPlainForward

Validate == INSTANCE Names

CONSTANTS
    MaxTokens, \* bound: length of a command line
    MaxChars   \* bound: length of a name

VARIABLES
    line, \* what has been typed of a command line,
    name  \* or of a name

typed == <<line, name>>

TypedInit == Init /\ line = <<>> /\ name = <<>>

Untouched == started = 0 /\ oobs = 0 /\ bin = EmptyBin

TypeToken ==
    /\ Untouched /\ name = <<>> /\ Len(line) < MaxTokens
    /\ \E token \in Tokens : line' = Append(line, token)
    /\ UNCHANGED <<vars, name>>

TypeCharacter ==
    /\ Untouched /\ line = <<>> /\ Len(name) < MaxChars
    /\ \E char \in Validate!Chars : name' = Append(name, char)
    /\ UNCHANGED <<vars, line>>

\* Command lines run as PlainForward has them, by their readings.
Forward == typed = <<<<>>, <<>>>> /\ Next /\ UNCHANGED typed

TypedNext == TypeToken \/ TypeCharacter \/ Forward
TypedSpec == TypedInit /\ [][TypedNext]_<<vars, typed>>

----------------------------------------------------------------------------
(* The properties of Arguments and Names                                   *)

\* uvctl never takes an option's value for the package (ReadsNoOther).
NeverMisreads == ReadsNoOther(line)

\* Joined values never hide the package from it (ReadsJoined).
AlwaysReads == ReadsJoined(line)

\* uv gets the line without uvctl's own tokens, and nothing else (ForwardsTheRest).
ForwardedVerbatim == ForwardsTheRest(line)

\* Validated parts make validated names (JoinedStaysInside).
LinksStayInside == Validate!JoinedStaysInside(name)

\* One project has one key (IsStable).
KeysAreStable == Validate!IsStable(name)
=============================================================================
