------------------------------- MODULE Outline -------------------------------
(***************************************************************************)
(* From a text to its table of contents and back to its lines: the         *)
(* structure of a Markdown, Python or Rust text (formats/*.rs), that of a  *)
(* reStructuredText document after its conversion, and docs_get, which     *)
(* returns the lines of a heading or of a truncated text (mcp/tools.rs).   *)
(* A source text grows by a line per step, with the scanner at its end; a  *)
(* document is converted form by form and then scanned as Markdown.        *)
(***************************************************************************)
EXTENDS SourceScan, RstConversion, FiniteSets

CONSTANTS
    PythonLines,    \* lines of Python and Rust
    RustLines,
    MaxSource,      \* bound on the lines of a source text
    MaxLines        \* AUTO_TRUNCATE_LINES

ASSUME OutlineAssumption ==
    /\ MaxSource \in Nat /\ MaxLines \in Nat
    /\ PythonLines \subseteq [kind : {"class", "def", "other"}, depth : Nat]

VARIABLES
    format,         \* of the text
    source,         \* the lines of a Python or Rust text
    scan            \* the scanner's state after them

vars == <<format, source, scan, rstVars>>

Init ==
    \/ /\ format \in {"python", "rust"}
       /\ source = <<>>
       /\ scan = IF format = "python" THEN PythonStart ELSE RustStart
       /\ rst = <<>> /\ cursor = 1 /\ out = <<>> /\ sections = <<>>
    \/ /\ format = "rst"
       /\ source = <<>>
       /\ scan = PythonStart
       /\ RstInit

ScanPython(line) ==
    /\ format = "python" /\ Len(source) < MaxSource
    /\ source' = Append(source, line)
    /\ scan' = PythonLine(scan, line)
    /\ UNCHANGED <<format, rstVars>>

ScanRust(line) ==
    /\ format = "rust" /\ Len(source) < MaxSource
    /\ source' = Append(source, line)
    /\ scan' = RustLine(scan, line)
    /\ UNCHANGED <<format, rstVars>>

ConvertRst ==
    /\ format = "rst"
    /\ Convert
    /\ UNCHANGED <<format, source, scan>>

Next ==
    \/ \E line \in PythonLines : ScanPython(line)
    \/ \E line \in RustLines : ScanRust(line)
    \/ ConvertRst

Spec == Init /\ [][Next]_vars

-----------------------------------------------------------------------------
(* markdown::structure: headings outside of fences.                        *)
MarkdownLine(s, line) ==
    [total |-> s.total + 1,
     inCode |-> IF line.mark = "fence" THEN ~s.inCode ELSE s.inCode,
     headings |-> IF line.mark = "heading" /\ ~s.inCode
                  THEN Append(s.headings, [start |-> s.total + 1, level |-> line.level])
                  ELSE s.headings]

MarkdownStart == [total |-> 0, inCode |-> FALSE, headings |-> <<>>]

ScanMarkdown(lines) ==
    LET after[n \in 0..Len(lines)] ==
            IF n = 0 THEN MarkdownStart ELSE MarkdownLine(after[n - 1], lines[n])
    IN after[Len(lines)]

(* FileTextData::structure.                                                *)
Structure == IF format = "rst" THEN ScanMarkdown(Markdown) ELSE scan

(* build_heading_items: a heading's lines go up to the next heading.       *)
HeadingItems(s) ==
    [k \in DOMAIN s.headings |->
        [start |-> s.headings[k].start,
         end |-> IF k < Len(s.headings) THEN s.headings[k + 1].start - 1 ELSE s.total]]

(* docs_get with a range; without an end, to the end of the text.          *)
NoEnd == -1

Slice_Exclusive(lines, start, end) ==
    LET first == Max({start, 1})
        last == IF end = NoEnd THEN Len(lines) ELSE Min({end - 1, Len(lines)})
    IN SubSeq(lines, first, last)

Slice(lines, start, end) ==
    LET first == Max({start, 1})
        last == IF end = NoEnd THEN Len(lines) ELSE Min({end, Len(lines)})
    IN SubSeq(lines, first, last)

(* docs_get without one.                                                   *)
Truncated(lines) == SubSeq(lines, 1, Min({MaxLines, Len(lines)}))

-----------------------------------------------------------------------------
(* What the levels should be.  In Python, an item is in another one if it  *)
(* is indented deeper and so are all lines between them.                   *)
PythonIn(i, j) ==
    /\ i < j /\ source[i].kind /= "other"
    /\ \A m \in (i + 1)..j : source[m].depth > source[i].depth

(* Only classes and functions have blocks: no if, with or try.             *)
OnlyItemsIndent ==
    \A i \in DOMAIN source :
        /\ i = 1 => source[i].depth = 0
        /\ i > 1 /\ source[i].depth > source[i - 1].depth => source[i - 1].kind /= "other"

(* In Rust, an item owns the block that is opened next after it, and is in *)
(* the items whose blocks are still open.                                  *)
Tokens == FlattenSeq([i \in DOMAIN source |-> Append(source[i], "newline")])

(* Before each token: the scanner's mode, and the number of open blocks.   *)
Places(tokens) ==
    FoldLeft(LAMBDA places, token :
                 LET p == Last(places)
                 IN Append(places,
                           [mode |-> IF token = "newline"
                                     THEN IF p.mode = "rest" THEN "code" ELSE p.mode
                                     ELSE Mode(p.mode, token),
                            depth |-> p.depth + IF p.mode = "code" THEN Brace(token) ELSE 0]),
             <<[mode |-> "code", depth |-> 0]>>, tokens)

RustOutline ==
    LET tokens == Tokens
        places == Places(tokens)
        live   == {t \in DOMAIN tokens : places[t].mode = "code" /\ tokens[t] /= "newline"}
        items  == {t \in live : tokens[t] \in Items}
        opens  == {t \in live : tokens[t] = "{"}
        After(i, S) == {t \in live : /\ t > i /\ tokens[t] \in S
                                     /\ \A u \in live \cap (i + 1)..(t - 1) : tokens[u] \notin S}
        OwnBlock(i) == opens \cap After(i, Items \union {"{", "}", ";", "x"})
        around == [j \in items |->
                      {i \in items : i < j /\ \E t \in OwnBlock(i) :
                          t < j /\ \A u \in (t + 1)..j : places[u].depth > places[t].depth}]
        KindsOf(S) == [k \in 1..Cardinality(S) |-> tokens[SetToSortSeq(S, <)[k]]]
    IN [levels |-> [k \in 1..Cardinality(items) |->
                       LET j == SetToSortSeq(items, <)[k]
                       IN RustLevel(KindsOf(around[j]), tokens[j])],
        regular |->
            /\ \A t \in live : tokens[t] /= "*/" /\ places[t + 1].depth >= 0
            /\ \A i \in items : opens \cap After(i, Items \union {"{", "}"}) \subseteq OwnBlock(i)]

Levels == [k \in DOMAIN scan.headings |-> scan.headings[k].level]

(* The scanners' level of a class, function or item is the one its nesting *)
(* gives it, although they look at a line at a time.  In Python (python.rs:*)
(* 16): the headings are the classes and functions, a class is a level     *)
(* below all that it is in, a function below the functions it is in; for   *)
(* texts in which only classes and functions have blocks, and levels that  *)
(* fit their type.                                                         *)
PythonLevelsFollowNesting ==
    format = "python" /\ OnlyItemsIndent =>
        LET items == {i \in DOMAIN source : source[i].kind /= "other"}
            Around(j, kinds) == {i \in items : PythonIn(i, j) /\ source[i].kind \in kinds}
        IN /\ {scan.headings[k].start : k \in DOMAIN scan.headings} = items
           /\ \A k, m \in DOMAIN scan.headings :
                 k < m => scan.headings[k].start < scan.headings[m].start
           /\ \A k \in DOMAIN scan.headings :
                 LET j == scan.headings[k].start
                     level == IF source[j].kind = "class"
                              THEN Cardinality(Around(j, {"class", "def"})) + 1
                              ELSE Cardinality(Around(j, {"def"})) + 2
                 IN level < 256 => scan.headings[k].level = level

(* In Rust (rust.rs:30): for texts whose braces match and whose items      *)
(* without a block are not followed by the block of something else.        *)
RustLevelsFollowNesting ==
    format = "rust" /\ RustOutline.regular => Levels = RustOutline.levels

(* Every line of the contents of a converted document is there, once and in*)
(* its place, and those of comments are not.  The document has the headings*)
(* of its titles, at their levels: no fence stays open and none opens in   *)
(* the wrong place.  The exceptions are in the premises, for the code does *)
(* not look at what it writes and at how deep a comment is indented: an    *)
(* indented comment may take its neighbours with it, a paragraph line that *)
(* begins with # is a heading of its own, and one line that begins with a  *)
(* fence leaves nothing to say about the headings.                         *)
ConversionKeeps ==
    format = "rst" /\ Converted /\ RunsApart =>
        LET s == Structure
            Contents(i) == Titled[i] \/ Is(i, Texts)
            shown == SelectSeq(Markdown, LAMBDA l : Contents(l.of))
            Heads(i) == Titled[i] \/ (Is(i, {"hash"}) /\ ~Indented(i))
            heads == LinesThat(Heads)
        IN /\ (\A i \in DOMAIN rst : Is(i, {"comment"}) /\ Indented(i) => Titled[i]) =>
                  [k \in DOMAIN shown |-> shown[k].of]
                     = LinesThat(LAMBDA i : Contents(i) /\ (Titled[i] \/ ~Hidden(i)))
           /\ (\A i \in DOMAIN rst : Is(i, {"fence"}) => Titled[i]) =>
                  /\ ~s.inCode
                  /\ [k \in DOMAIN s.headings |->
                        <<Markdown[s.headings[k].start].of, s.headings[k].level>>]
                      = [k \in DOMAIN heads |->
                           <<heads[k], IF Titled[heads[k]] THEN TitleLevel(heads[k]) ELSE 1>>]

(* Whoever follows docs_headings with docs_get sees every line once: those *)
(* before the first heading and those of each heading make up the text; and*)
(* a truncated answer goes on where it says it does (tools.rs:260).        *)
SlicesPartition ==
    LET s == Structure
        lines == [k \in 1..s.total |-> k]
        items == HeadingItems(s)
        before == IF items = <<>> THEN s.total ELSE items[1].start - 1
    IN /\ Slice(lines, 1, before)
              \o FlattenSeq([k \in DOMAIN items |-> Slice(lines, items[k].start, items[k].end)])
             = lines
       /\ Truncated(lines)
              \o (IF s.total > MaxLines THEN Slice(lines, MaxLines + 1, NoEnd) ELSE <<>>)
             = lines

=============================================================================
