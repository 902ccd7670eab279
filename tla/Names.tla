------------------------------- MODULE Names -------------------------------
(***************************************************************************)
(* The names uvctl makes paths of (validate.py).  A name is a sequence of  *)
(* character classes, the classes the rules tell apart.                    *)
(***************************************************************************)
EXTENDS Naturals, Sequences

\* "plus" stands for + and @, "sep" for the underscore, "other" for whatever no
\* rule allows (brackets, a NUL byte, ...), a backslash included in "slash".
Chars == {"lower", "upper", "dot", "dash", "sep", "plus", "slash", "space", "other"}

\* _NAME_CHARSET
InCharset(name) ==
    name # <<>> /\ \A i \in 1..Len(name) :
                      name[i] \in {"lower", "upper", "dot", "dash", "sep", "plus"}

Reserved == {<<"dot">>, <<"dot", "dot">>}

\* Variants: reserved names, or two dots in a row, are not looked for.
ValidWithoutReserved(name) == InCharset(name) /\ name[1] # "dash"

InCharsetUpTo32(suffix) == InCharset(suffix) /\ Len(suffix) <= 32

\* validate_executable_name()
ValidExecutable(name) ==
    InCharset(name) /\ name \notin Reserved /\ name[1] # "dash"

HasDoubleDot(name) ==
    \E i \in 1..(Len(name) - 1) : name[i] = "dot" /\ name[i + 1] = "dot"

\* validate_suffix()
ValidSuffix(suffix) ==
    InCharset(suffix) /\ Len(suffix) <= 32 /\ ~ HasDoubleDot(suffix)

----------------------------------------------------------------------------
(* normalize_requirement_name()                                            *)

Alnum      == {"lower", "upper"}
Separators == {"dot", "dash", "sep"}

\* The length of the leading name, behind white space; 0 if there is none.
Blanks(spec) ==
    CHOOSE k \in 0..Len(spec) :
        /\ \A i \in 1..k : spec[i] = "space"
        /\ k < Len(spec) => spec[k + 1] # "space"

LeadingName(spec) ==
    LET start == Blanks(spec) + 1
        end   == CHOOSE k \in (start - 1)..Len(spec) :
                    /\ \A i \in start..k : spec[i] \in Alnum \cup Separators
                    /\ k < Len(spec) => spec[k + 1] \notin Alnum \cup Separators
    IN  IF start > Len(spec) \/ (start <= Len(spec) /\ spec[start] \notin Alnum)
        THEN <<>> ELSE SubSeq(spec, start, end)

\* Variant: separators are replaced one by one.
Dash(name) == [ i \in 1..Len(name) |->
                  CASE name[i] \in Separators -> "dash"
                    [] name[i] = "upper"      -> "lower"
                    [] OTHER                  -> name[i] ]

\* A run of separators becomes one dash, capitals become small.
Collapse(name) ==
    LET from[i \in 1..(Len(name) + 1)] ==
          IF i > Len(name) THEN <<>>
          ELSE IF /\ i < Len(name)
                  /\ name[i] \in Separators /\ name[i + 1] \in Separators
               THEN from[i + 1]
               ELSE <<Dash(name)[i]>> \o from[i + 1]
    IN  from[1]

\* <<>> stands for the ValidationError.
NormalizeRequirementName(spec) == Collapse(LeadingName(spec))

----------------------------------------------------------------------------
(* Properties of a name                                                    *)

\* A path component that is an entry of its directory, and no option.
StaysInside(name) ==
    /\ name # <<>> /\ name \notin {<<"dot">>, <<"dot", "dot">>}
    /\ name[1] # "dash"
    /\ \A i \in 1..Len(name) : name[i] \notin {"slash", "other"}

\* What install() joins is a name again, wherever the parts meet: an executable
\* and a suffix that both pass make a link inside bin_dir that is no option and
\* no reserved name, and a package and a suffix make a directory inside
\* .suffixed.
JoinedStaysInside(joined) ==
    \A i \in 0..Len(joined) :
        LET name   == SubSeq(joined, 1, i)
            suffix == SubSeq(joined, i + 1, Len(joined))
            key    == NormalizeRequirementName(name)
        IN  ValidSuffix(suffix) =>
                /\ ValidExecutable(name) => StaysInside(joined)
                /\ key # <<>> => StaysInside(key \o suffix)

\* The key of an install is found again: a name does not change when it is read
\* again, and specifications that differ in case, in runs of separators or in
\* what follows the name have one key ("resolve identically").
IsStable(spec) ==
    LET name == NormalizeRequirementName(spec) IN
    name # <<>> =>
        /\ NormalizeRequirementName(name) = name
        /\ \A c \in {"other", "plus", "space"} :
              NormalizeRequirementName(LeadingName(spec) \o <<c>>) = name
        /\ \A c \in Separators, i \in 1..Len(name) : name[i] = "dash" =>
              NormalizeRequirementName(
                  SubSeq(name, 1, i) \o <<c>> \o SubSeq(name, i + 1, Len(name))) = name
=============================================================================
