------------------------------ MODULE SourceScan ------------------------------
(***************************************************************************)
(* The scanners that find the classes, functions and items of a Python or  *)
(* Rust text without parsing it (formats/python.rs, formats/rust.rs): one  *)
(* operator per language, which takes the scanner's state and a line and   *)
(* gives the next state.                                                   *)
(*                                                                         *)
(* A Python line is [kind, depth]: "class", "def" or "other", and a quarter*)
(* of its leading spaces.  A Rust line is the sequence of the tokens the   *)
(* scanner tells apart: the keywords of Items, braces, "//", "/*", "*/",   *)
(* "quote", ";" and "x" for anything else.  A heading is [start, level].   *)
(***************************************************************************)
EXTENDS Integers, Sequences, SequencesExt, FiniteSets

(* Both keep a stack of open blocks, [kind, at]: what kind of block it is  *)
(* and at which depth it was opened.  A block at the depth d or deeper is  *)
(* popped when a line is at the depth d.                                   *)
PopClosed_Deeper(stack, d) ==
    SubSeq(stack, 1, Max({0} \union {k \in DOMAIN stack : stack[k].at <= d}))

PopClosed(stack, d) ==
    SubSeq(stack, 1, Max({0} \union {k \in DOMAIN stack : stack[k].at < d}))

Push(stack, kind, d) == Append(stack, [kind |-> kind, at |-> d])

Count(kinds, S) == Cardinality({k \in DOMAIN kinds : kinds[k] \in S})

Kinds(stack) == [k \in DOMAIN stack |-> stack[k].kind]

(* Levels are of the type u8.                                              *)
U8(n) == n % 256

Heading(s, level) == Append(s.headings, [start |-> s.total + 1, level |-> level])

-----------------------------------------------------------------------------
(* Python: the level of a class counts the blocks around it, that of a     *)
(* function the functions around it.                                       *)

PythonLevel(kinds, kind) ==
    U8(IF kind = "class" THEN Len(kinds) + 1 ELSE Count(kinds, {"def"}) + 2)

PythonStart == [total |-> 0, headings |-> <<>>, stack |-> <<>>]

PythonLine(s, line) ==
    LET open == PopClosed(s.stack, line.depth)
    IN IF line.kind = "other" THEN [s EXCEPT !.total = @ + 1]
       ELSE [total |-> s.total + 1,
             headings |-> Heading(s, PythonLevel(Kinds(open), line.kind)),
             stack |-> Push(open, line.kind, line.depth)]

-----------------------------------------------------------------------------
(* Rust.                                                                   *)

Items == {"mod", "struct", "trait", "impl", "fn"}

(* compute_level; impl is always at 2, and a module counts for nothing.    *)
RustLevel(kinds, kind) ==
    CASE kind = "mod"                 -> 1
      [] kind \in {"struct", "trait"} -> U8(Count(kinds, {"struct", "trait"}) + 2)
      [] kind = "impl"                -> 2
      [] kind = "fn" -> U8((IF Count(kinds, {"impl", "trait", "struct"}) > 0 THEN 3 ELSE 2)
                               + Count(kinds, {"fn"}))

(* Where the scanner is after a token: in code, in a comment that runs to  *)
(* the end of the line, in a block comment, in a string.                   *)
Mode(mode, token) ==
    CASE mode = "code"   -> (CASE token = "//"    -> "rest"
                               [] token = "/*"    -> "block"
                               [] token = "quote" -> "string"
                               [] OTHER           -> "code")
      [] mode = "block"  -> IF token = "*/" THEN "code" ELSE "block"
      [] mode = "string" -> IF token = "quote" THEN "code" ELSE "string"
      [] mode = "rest"   -> "rest"

Brace(token) == CASE token = "{" -> 1 [] token = "}" -> -1 [] OTHER -> 0

(* count_brace_delta.                                                      *)
BraceDelta(line, inComment) ==
    FoldLeft(LAMBDA d, token :
                 [mode |-> Mode(d.mode, token),
                  delta |-> d.delta + (IF d.mode = "code" THEN Brace(token) ELSE 0)],
             [mode |-> IF inComment THEN "block" ELSE "code", delta |-> 0], line)

(* What follows the end of the comment the line begins in.                 *)
AfterComment(line) ==
    LET ends == {k \in DOMAIN line : line[k] = "*/"}
    IN IF ends = {} THEN <<>> ELSE SubSeq(line, Min(ends) + 1, Len(line))

RustStart ==
    [total |-> 0, headings |-> <<>>, stack |-> <<>>, braces |-> 0,
     inComment |-> FALSE, pending |-> <<>>]

(* A line that begins with an item: its block is opened on this line, on a *)
(* later one (pending), or opened and closed here.                         *)
RustItem(s, line, kind, braces) ==
    [s EXCEPT !.headings = Heading(s, RustLevel(Kinds(s.stack), kind)),
              !.stack = IF braces > s.braces THEN Push(@, kind, s.braces) ELSE @,
              !.pending = IF braces <= s.braces /\ ~Contains(line, "{")
                          THEN Push(<<>>, kind, s.braces) ELSE <<>>]

RustOther_NothingCloses(s, braces) ==
    IF s.pending = <<>> THEN s
    ELSE [s EXCEPT
             !.stack = IF braces > s.pending[1].at THEN @ \o s.pending ELSE @,
             !.pending = IF braces = s.pending[1].at THEN @ ELSE <<>>]

(* Any other line closes blocks and may open the one an item waits for.    *)
RustOther(s, braces) ==
    LET open == PopClosed(s.stack, braces)
    IN IF s.pending = <<>> THEN [s EXCEPT !.stack = open]
       ELSE [s EXCEPT
                !.stack = IF braces > s.pending[1].at THEN open \o s.pending ELSE open,
                !.pending = IF braces = s.pending[1].at THEN @ ELSE <<>>]

RustLine(s, line) ==
    LET code == IF s.inComment THEN AfterComment(line) ELSE line
        scan == BraceDelta(line, s.inComment)
        braces == Max({0, s.braces + scan.delta})
        next == IF code /= <<>> /\ Head(code) \in Items
                THEN RustItem(s, line, Head(code), braces)
                ELSE RustOther(s, braces)
    IN [next EXCEPT !.total = @ + 1,
                    !.braces = braces,
                    !.inComment = (scan.mode = "block")]

=============================================================================
