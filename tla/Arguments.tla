----------------------------- MODULE Arguments -----------------------------
(***************************************************************************)
(* How uvctl reads a command line it shares with uv: it takes its own      *)
(* options out (cli.py), and tells the package an install is about         *)
(* (suffix.py), without knowing uv's options.                              *)
(*                                                                         *)
(* A command line is a sequence of tokens.  A word is a token without a    *)
(* leading dash; "--suffix=" and "--from=" have their value joined.        *)
(***************************************************************************)
EXTENDS Naturals, Sequences, FiniteSets

CONSTANTS
    Words,     \* words to explore
    Options,   \* options uvctl knows nothing of, joined with a value or bare
    Joined,    \* the value of "--suffix="
    Ambiguous, \* no package can be told
    NoSuffix   \* no --suffix

\* Options that uvctl reads itself, and those it reads as uv does.
OwnFlags  == {"--as-root", "--no-verify"}
OwnTokens == OwnFlags \cup {"--suffix", "--suffix=", "--from", "--from=", "--"}

ASSUME ArgumentsAssumption ==
    /\ Words \cap Options = {} /\ Ambiguous \notin Words /\ NoSuffix \notin Words
    /\ OwnTokens \cap (Words \cup Options) = {}

Tokens == Words \cup Options \cup OwnTokens

\* Command lines of at most n tokens.
Lines(n) == UNION { [1..k -> Tokens] : k \in 0..n }

Dashed(token) == token \notin Words

----------------------------------------------------------------------------
(* cmd_forward()                                                           *)

\* [a for a in argv if a not in flags]
Without(flags, argv) ==
    LET from[i \in 1..(Len(argv) + 1)] ==
          IF i > Len(argv) THEN <<>>
          ELSE IF argv[i] \in flags THEN from[i + 1] ELSE <<argv[i]>> \o from[i + 1]
    IN  from[1]

\* Variant: the value of a "--suffix" stays on the line.
SplitSuffixOnly(args) ==
    LET own == {"--suffix", "--suffix="} IN
    [ suffix |-> IF \E i \in 1..Len(args) : args[i] \in own THEN Joined ELSE NoSuffix,
      rest   |-> SelectSeq(args, LAMBDA a : a \notin own), bad |-> FALSE ]

\* split_suffix(), from some token on.  The last --suffix wins; one without a
\* value is a CliError.
SplitSuffix(args) ==
    LET from[i \in 1..(Len(args) + 2)] ==
          IF i > Len(args)
          THEN [suffix |-> NoSuffix, rest |-> <<>>, bad |-> FALSE]
          ELSE LET isPair == args[i] = "--suffix"
                   later  == from[IF isPair THEN i + 2 ELSE i + 1]
                   own(value) == [later EXCEPT !.suffix =
                                     IF @ = NoSuffix THEN value ELSE @]
               IN  CASE isPair /\ i = Len(args) -> [later EXCEPT !.bad = TRUE]
                     [] isPair /\ i < Len(args) -> own(args[i + 1])
                     [] args[i] = "--suffix="   -> own(Joined)
                     [] OTHER -> [later EXCEPT !.rest = <<args[i]>> \o @]
    IN  from[1]

\* What is left of a command line for uv, or to route by.
Forwarded(argv) == SplitSuffix(Without(OwnFlags, argv))

IsToolInstallOrUninstall(args) ==
    Len(args) >= 2 /\ args[1] = "tool" /\ args[2] \in {"install", "uninstall"}

Route(argv) ==
    LET f == Forwarded(argv) IN
    CASE f.bad -> "error"
      [] ~ f.bad /\ f.suffix # NoSuffix ->
            IF IsToolInstallOrUninstall(f.rest) THEN "suffixed" ELSE "error"
      [] OTHER -> IF IsToolInstallOrUninstall(f.rest) THEN "plain" ELSE "other"

----------------------------------------------------------------------------
(* extract_package_spec()                                                  *)

\* Variant: --from is an option like any other.
PositionalsAfterFrom(args) == SelectSeq(args, LAMBDA a : ~ Dashed(a))

Positionals(args) ==
    LET from[i \in 1..(Len(args) + 2)] ==
          IF i > Len(args) THEN <<>>
          ELSE CASE args[i] = "--from" -> from[i + 2]
                 [] args[i] # "--from" /\ Dashed(args[i]) -> from[i + 1]
                 [] OTHER -> <<args[i]>> \o from[i + 1]
    IN  from[1]

\* Variant: the first candidate will do.
FirstPositional(args) ==
    IF Positionals(args) = <<>> THEN Ambiguous ELSE Positionals(args)[1]

\* Exactly one candidate must remain.
ExtractPackageSpec(args) ==
    IF Len(Positionals(args)) = 1 THEN Positionals(args)[1] ELSE Ambiguous

----------------------------------------------------------------------------
(* uv's own reading                                                        *)

\* The packages uv finds on the line if the options of `takes', and --from,
\* take the next token as their value; `ok' is FALSE where it refuses the line.
\* A value never begins with a dash, nor does a package after "--".
UvReads(args, takes) ==
    LET refused == [ok |-> FALSE, packages |-> <<>>]
        from[i \in 1..(Len(args) + 2)] ==
          IF i > Len(args) THEN [ok |-> TRUE, packages |-> <<>>]
          ELSE CASE args[i] \in takes \cup {"--from"} ->
                        IF i < Len(args) /\ args[i + 1] \in Words
                        THEN from[i + 2] ELSE refused
                 [] args[i] = "--" ->
                        LET after == SubSeq(args, i + 1, Len(args)) IN
                        IF \E k \in 1..Len(after) : Dashed(after[k])
                        THEN refused ELSE [ok |-> TRUE, packages |-> after]
                 [] Dashed(args[i]) /\ args[i] \notin takes \cup {"--from", "--"} ->
                        from[i + 1]
                 [] OTHER -> [from[i + 1] EXCEPT !.packages = <<args[i]>> \o @]
    IN  from[1]

----------------------------------------------------------------------------
(* Properties of a command line                                            *)

\* uvctl never takes a value for the package: where it names one and uv accepts
\* the line, uv installs that one, whichever of its options take a value
\* (extract_package_spec: "fail closed").
ReadsNoOther(args) ==
    \A takes \in SUBSET Options :
        LET uv == UvReads(args, takes) IN
        ExtractPackageSpec(args) # Ambiguous /\ uv.ok /\ uv.packages # <<>>
            => uv.packages = <<ExtractPackageSpec(args)>>

\* And it names the package wherever the values of options are joined to them,
\* --from excepted, so that such an install is monitored.
ReadsJoined(args) ==
    LET uv == UvReads(args, {}) IN
    uv.ok /\ Len(uv.packages) = 1 => ExtractPackageSpec(args) = uv.packages[1]

\* uv gets every token but uvctl's own, each behind those before it: the flags,
\* "--suffix=" and each "--suffix" with the token after it, which may be one too.
ForwardsTheRest(argv) ==
    LET kept   == Without(OwnFlags, argv)
        \* how many "--suffix" stand right before token i
        run(i) == CHOOSE k \in 0..(i - 1) :
                     /\ \A j \in (i - k)..(i - 1) : kept[j] = "--suffix"
                     /\ i - k > 1 => kept[i - k - 1] # "--suffix"
        uvs    == { i \in 1..Len(kept) :
                     run(i) % 2 = 0 /\ kept[i] \notin {"--suffix", "--suffix="} }
        rest   == Forwarded(argv).rest
    IN  ~ Forwarded(argv).bad =>
            /\ Len(rest) = Cardinality(uvs)
            /\ \A i \in uvs : rest[Cardinality({ j \in uvs : j <= i })] = kept[i]
=============================================================================
