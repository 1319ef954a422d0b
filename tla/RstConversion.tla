---------------------------- MODULE RstConversion ----------------------------
(***************************************************************************)
(* The conversion of reStructuredText to Markdown (to_markdown in          *)
(* formats/rst.rs), which goes through the lines with a cursor and takes   *)
(* one of its forms at a time.                                             *)
(*                                                                         *)
(* A line is [kind, deep]: what the code tells lines apart by, and whether *)
(* the line is indented.  "hash" and "fence" are lines of text that begin  *)
(* with a number sign or a fence, "." is a line of dots, which is a run of *)
(* punctuation; "comment" is a line that begins with two dots and has no   *)
(* directive, "other" a directive without a form of its own.               *)
(* A line of the output is [mark, level, of]: what Markdown will take it   *)
(* for, and the number of the source line it shows, or 0.                  *)
(***************************************************************************)
EXTENDS Integers, Sequences, SequencesExt

CONSTANTS
    RstLines,       \* the lines a text may consist of
    MaxRst          \* bound on their number

Punctuation == {"=", "-", "."}
Texts       == {"text", "hash", "fence", "item"}
Directives  == {"code", "note", "other", "comment"}

ASSUME RstAssumption ==
    /\ MaxRst \in Nat
    /\ RstLines \subseteq
          [kind : {"blank"} \union Punctuation, deep : {FALSE}]
             \union [kind : Texts \union Directives, deep : BOOLEAN]

VARIABLES
    rst,            \* the lines of the document
    cursor,         \* i: the next line to look at
    out,            \* the Markdown so far
    sections        \* section_levels: the underlines in the order of their first use

rstVars == <<rst, cursor, out, sections>>

Is(i, kinds) == i \in DOMAIN rst /\ rst[i].kind \in kinds

Blank(i)    == Is(i, {"blank"})
Punct(i)    == Is(i, Punctuation)
Indented(i) == i \in DOMAIN rst /\ rst[i].deep

RstInit ==
    /\ rst \in UNION {[1..n -> RstLines] : n \in 0..MaxRst}
    /\ cursor = 1
    /\ out = <<>>
    /\ sections = <<>>

-----------------------------------------------------------------------------
Md(mark, of)         == [mark |-> mark, level |-> 0, of |-> of]
MdHeading(level, of) == [mark |-> "heading", level |-> level, of |-> of]

(* A line that is written as it is, and what Markdown makes of it.         *)
AsItIs(i) ==
    IF Blank(i) THEN Md("blank", 0)
    ELSE IF Is(i, {"hash"}) THEN MdHeading(1, i)
    ELSE Md(IF Is(i, {"fence"}) THEN "fence" ELSE "text", i)

Quoted(i) == Md("quote", IF Blank(i) THEN 0 ELSE i)

(* consume_indented: the last line of the indented block from i on; blank  *)
(* lines belong to it only where an indented line follows.                 *)
BlockEnd(i) ==
    Max({i - 1} \union
        {k \in i..Len(rst) : Indented(k) /\ \A m \in i..k : Indented(m) \/ Blank(m)})

Quote(i)   == [k \in 1..(BlockEnd(i) - i + 1) |-> Quoted(i + k - 1)]
Literal(i) == [k \in 1..(BlockEnd(i) - i + 1) |-> AsItIs(i + k - 1)]
Fenced(i)  == <<Md("fence", 0)>> \o Literal(i) \o <<Md("fence", 0)>>

-----------------------------------------------------------------------------
(* The forms, with guards that exclude one another in the order of the     *)
(* code's tests.                                                           *)

Take(lines, i) ==
    /\ out' = out \o lines
    /\ cursor' = i
    /\ UNCHANGED rst

Keep(lines, i) == Take(lines, i) /\ UNCHANGED sections

BlankLine ==
    /\ Blank(cursor)
    /\ Keep(<<Md("blank", 0)>>, cursor + 1)

Overlined ==
    /\ Punct(cursor)
    /\ cursor + 2 <= Len(rst)
    /\ ~Blank(cursor + 1)
    /\ Is(cursor + 2, {rst[cursor].kind})

(* emit_title: the level is the place of its underline among those used.   *)
EmitTitle_Forgets(i, ch, next) ==
    LET used == IF Contains(sections, ch) THEN sections ELSE <<ch>>
        level == Min({6, CHOOSE k \in DOMAIN used : used[k] = ch})
    IN /\ sections' = used
       /\ Take(<<MdHeading(level, i)>>, next)

EmitTitle(i, ch, next) ==
    LET used == IF Contains(sections, ch) THEN sections ELSE Append(sections, ch)
        level == Min({6, CHOOSE k \in DOMAIN used : used[k] = ch})
    IN /\ sections' = used
       /\ Take(<<MdHeading(level, i)>>, next)

OverlinedTitle ==
    /\ Overlined
    /\ EmitTitle(cursor + 1, rst[cursor].kind, cursor + 3)

Transition ==
    /\ Punct(cursor)
    /\ ~Overlined
    /\ Keep(<<Md("blank", 0)>>, cursor + 1)

UnderlinedTitle ==
    /\ cursor \in DOMAIN rst
    /\ ~Blank(cursor) /\ ~Punct(cursor) /\ ~Indented(cursor)
    /\ Punct(cursor + 1)
    /\ EmitTitle(cursor, rst[cursor + 1].kind, cursor + 2)

(* No title: only now it matters what the line itself is.                  *)
Body(kinds) == Is(cursor, kinds) /\ (Indented(cursor) \/ ~Punct(cursor + 1))

(* handle_directive, at any indentation: a comment takes all indented lines*)
(* that follow with it, be it indented itself or not; a directive without a*)
(* form leaves them to the next pass.                                      *)
Comment ==
    /\ Body({"comment"})
    /\ Keep(<<>>, BlockEnd(cursor + 1) + 1)

CodeDirective ==
    /\ Body({"code"})
    /\ Keep(Fenced(cursor + 1), BlockEnd(cursor + 1) + 1)

Admonition ==
    /\ Body({"note"})
    /\ Keep(<<Md("quote", 0)>> \o Quote(cursor + 1), BlockEnd(cursor + 1) + 1)

OtherDirective ==
    /\ Body({"other"})
    /\ Keep(<<>>, cursor + 1)

ListItem ==
    /\ Body({"item"})
    /\ Keep(<<Md("text", cursor)>>, cursor + 1)

(* A quote after an empty line of the output, else literal text.           *)
IndentedBlock ==
    /\ Body({"text", "hash", "fence"})
    /\ Indented(cursor)
    /\ Keep(IF out = <<>> \/ Last(out).mark = "blank" THEN Quote(cursor) ELSE Fenced(cursor),
            BlockEnd(cursor) + 1)

Paragraph ==
    /\ Body({"text", "hash", "fence"})
    /\ ~Indented(cursor)
    /\ Keep(<<AsItIs(cursor)>>, cursor + 1)

Convert ==
    \/ BlankLine \/ OverlinedTitle \/ Transition \/ UnderlinedTitle
    \/ Comment \/ CodeDirective \/ Admonition \/ OtherDirective
    \/ ListItem \/ IndentedBlock \/ Paragraph

(* The result: without the empty lines at its end.                         *)
Converted == cursor > Len(rst)

Markdown ==
    SubSeq(out, 1, Max({0} \union {k \in DOMAIN out : out[k].mark /= "blank"}))

-----------------------------------------------------------------------------
(* What reStructuredText means by a title: a line with a run of punctuation*)
(* below it; an indented line only if the same run is above it, and is not *)
(* the underline of the title before.                                      *)
Titled[i \in Int] ==
    /\ i \in DOMAIN rst /\ ~Blank(i) /\ ~Punct(i)
    /\ Punct(i + 1)
    /\ Indented(i) => Is(i - 1, {rst[i + 1].kind}) /\ ~Titled[i - 2]

(* The level of a title: the number of different underlines up to the first*)
(* use of its own, counting it.                                            *)
TitleLevel(i) ==
    LET first == Min({k \in DOMAIN rst : Titled[k] /\ rst[k + 1] = rst[i + 1]})
    IN Cardinality({rst[k + 1] : k \in {m \in 1..first : Titled[m]}})

(* A line of text is contents, unless it belongs to a comment.             *)
Hidden(i) ==
    \E c \in 1..(i - 1) :
        /\ Is(c, {"comment"}) /\ ~Titled[c]
        /\ \A m \in (c + 1)..i : Indented(m) \/ Blank(m)

LinesThat(Holds(_)) == SelectSeq([i \in DOMAIN rst |-> i], Holds)

(* Runs of punctuation have other lines between them, as transitions must. *)
RunsApart == \A i \in DOMAIN rst : ~(Punct(i) /\ Punct(i + 1))

=============================================================================
