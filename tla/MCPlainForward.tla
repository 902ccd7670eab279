--------------------------- MODULE MCPlainForward ---------------------------
(***************************************************************************)
(* Small instances of PlainForward for TLC, with the command lines that    *)
(* Arguments reads.                                                        *)
(***************************************************************************)
EXTENDS PlainForward, Arguments

\* Releases that drop and add an executable; the two packages share one.
MCProvides == [pkg \in Packages |-> {{1}, {1, 2}}]

\* What a word is for uvctl, whose rule takes the leading name of a URL for the
\* package's, and for uv.
KeyOf(word)   == IF word = "git+https://host/black" THEN "git" ELSE word
Project(word) == IF word = "git+https://host/black" THEN "black" ELSE word

\* The arguments of every line of at most three that routes to a plain forward,
\* with every choice of the options that take a value, which uv reads as about
\* one package.
PlainLines ==
    LET onward(args) == LET rest == Forwarded(<<"tool", "install">> \o args).rest IN
                        SubSeq(rest, 3, Len(rest))
        plain == { args \in Lines(3) : Route(<<"tool", "install">> \o args) = "plain" }
    IN  { l \in { onward(args) : args \in plain } \X SUBSET Options :
             UvReads(l[1], l[2]).ok /\ Len(UvReads(l[1], l[2]).packages) = 1 }

\* What _plain_name() tells of those lines, and the package uv works on.
PlainName(args) ==
    LET spec == ExtractPackageSpec(args) IN
    IF spec = Ambiguous THEN Unknown ELSE KeyOf(spec)

Read == { <<PlainName(l[1]), Project(UvReads(l[1], l[2]).packages[1])>> :
             l \in PlainLines }

MCReadings == { r \in [name : Packages \cup {"git", Unknown}, pkg : Packages] :
                   <<r.name, r.pkg>> \in Read }
=============================================================================
