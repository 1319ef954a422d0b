---------------------------- MODULE OutlineProofs ----------------------------
(***************************************************************************)
(* Proofs about Outline for texts of any length: the line ranges of the    *)
(* headings make up the text, and the scanner of Python texts finds the    *)
(* nesting of its classes and functions.                                   *)
(***************************************************************************)
EXTENDS Outline, SequenceTheorems, FiniteSetTheorems, WellFoundedInduction, TLAPS

-----------------------------------------------------------------------------
(* Numbers and lists.                                                      *)

\* Induction, with a set in the place of the formula.
LEMMA SetInduction ==
    ASSUME NEW T, 0 \in T, \A n \in Nat : n \in T => n + 1 \in T
    PROVE  \A n \in Nat : n \in T
<1> DEFINE Out == {n \in Nat : n \notin T}
<1>1. ASSUME NEW n \in Out, \A m \in Out : ~ (<<m, n>> \in OpToRel(<, Nat))
      PROVE  FALSE
    <2>1. n # 0 /\ n \in Nat
        OBVIOUS
    <2>2. n - 1 \in Nat /\ n - 1 < n
        BY <2>1
    <2>3. n - 1 \in T
        <3>1. <<n - 1, n>> \in OpToRel(<, Nat)
            BY <2>1, <2>2 DEF OpToRel
        <3> QED BY <1>1, <2>2, <3>1
    <2> QED BY <2>1, <2>2, <2>3
<1>2. Out = {}
    <2> HIDE DEF Out
    <2>1. Out \subseteq Nat
        BY DEF Out
    <2> QED BY <1>1, <2>1, WFMin, NatLessThanWellFounded
<1> QED BY <1>2

\* A set of integers with a bound has a greatest one.
LEMMA MaxExists ==
    ASSUME NEW S, S \subseteq Int, S # {}, NEW b \in Int, \A x \in S : x <= b
    PROVE  Max(S) \in S /\ \A x \in S : x <= Max(S)
<1> DEFINE D == {n \in Nat : b - n \in S}
<1>1. D \subseteq Nat /\ D # {}
    <2>1. PICK x \in S : TRUE
        OBVIOUS
    <2>2. b - x \in Nat /\ b - (b - x) = x
        BY <2>1
    <2>3. b - x \in D
        BY <2>1, <2>2
    <2> QED BY <2>3
<1>2. PICK n \in D : \A m \in D : ~ (<<m, n>> \in OpToRel(<, Nat))
    <2> HIDE DEF D
    <2> QED BY <1>1, WFMin, NatLessThanWellFounded
<1>3. ASSUME NEW x \in S PROVE x <= b - n
    <2>1. b - x \in Nat /\ b - (b - x) = x
        OBVIOUS
    <2>2. b - x \in D
        BY <2>1
    <2>3. ~ (<<b - x, n>> \in OpToRel(<, Nat))
        BY <1>2, <2>2
    <2>4. ~ (b - x < n)
        BY <1>2, <2>1, <2>3 DEF OpToRel
    <2>5. n \in Nat /\ x \in Int
        BY <1>2
    <2> HIDE DEF D
    <2> QED BY <2>4, <2>5
<1>4. b - n \in S
    BY <1>2
<1>5. \E x \in S : \A y \in S : x >= y
    <2>1. \A y \in S : b - n >= y
        BY <1>2, <1>3
    <2> QED BY <1>4, <2>1
<1>6. Max(S) \in S /\ \A y \in S : Max(S) >= y
    <2> HIDE DEF D
    <2> QED BY <1>5 DEF Max
<1> QED BY <1>6

\* The greater of two integers.
LEMMA MaxOfTwo == \A a, b \in Int : Max({a, b}) = IF a < b THEN b ELSE a
<1> SUFFICES ASSUME NEW a \in Int, NEW b \in Int
             PROVE  Max({a, b}) = IF a < b THEN b ELSE a
    OBVIOUS
<1> DEFINE M == IF a < b THEN b ELSE a
<1>1. Max({a, b}) \in {a, b} /\ \A x \in {a, b} : x <= Max({a, b})
    <2>1. {a, b} \subseteq Int /\ {a, b} # {} /\ M \in Int /\ \A x \in {a, b} : x <= M
        OBVIOUS
    <2> QED BY <2>1, MaxExists
<1> QED BY <1>1

\* The lesser of two integers.
LEMMA MinOfTwo == \A a, b \in Int : Min({a, b}) = IF a < b THEN a ELSE b
<1> SUFFICES ASSUME NEW a \in Int, NEW b \in Int
             PROVE  Min({a, b}) = IF a < b THEN a ELSE b
    OBVIOUS
<1>1. \E x \in {a, b} : \A y \in {a, b} : x =< y
    <2>1. CASE a < b
        BY <2>1
    <2>2. CASE ~ (a < b)
        BY <2>2
    <2> QED BY <2>1, <2>2
<1>2. Min({a, b}) \in {a, b} /\ \A y \in {a, b} : Min({a, b}) =< y
    BY <1>1 DEF Min
<1> QED BY <1>2

\* A sequence, of whatever.
IsList(s) == \E S : s \in Seq(S)

\* The length and the prefixes of a list.
LEMMA ListFacts ==
    ASSUME NEW s, IsList(s)
    PROVE  /\ Len(s) \in Nat /\ DOMAIN s = 1 .. Len(s)
           /\ \A n \in Nat : n <= Len(s) => IsList(SubSeq(s, 1, n)) /\ Len(SubSeq(s, 1, n)) = n
<1>1. PICK S : s \in Seq(S)
    BY DEF IsList
<1>2. Len(s) \in Nat /\ DOMAIN s = 1 .. Len(s)
    BY <1>1, LenProperties
<1>3. ASSUME NEW n \in Nat, n <= Len(s)
      PROVE  IsList(SubSeq(s, 1, n)) /\ Len(SubSeq(s, 1, n)) = n
    <2>1. \A i \in 1 .. n : s[i] \in S
        <3>1. \A i \in 1 .. n : i \in 1 .. Len(s)
            BY <1>2, <1>3
        <3> QED BY <1>1, <3>1, ElementOfSeq
    <2>2. SubSeq(s, 1, n) \in Seq(S) /\ Len(SubSeq(s, 1, n)) = IF 1 <= n THEN n - 1 + 1 ELSE 0
        BY <2>1, SubSeqProperties
    <2>3. Len(SubSeq(s, 1, n)) = n
        BY <2>2
    <2> QED BY <2>2, <2>3 DEF IsList
<1> QED BY <1>2, <1>3

\* A list with an element more.
LEMMA ListAppend ==
    ASSUME NEW s, IsList(s), NEW e
    PROVE  /\ IsList(Append(s, e)) /\ Len(Append(s, e)) = Len(s) + 1
           /\ \A i \in 1 .. Len(s) : Append(s, e)[i] = s[i]
           /\ Append(s, e)[Len(s) + 1] = e
<1>1. PICK S : s \in Seq(S)
    BY DEF IsList
<1> DEFINE T == S \cup {e}
<1>2. s \in Seq(T)
    BY <1>1, SeqMonotonic
<1>3. e \in T
    OBVIOUS
<1> HIDE DEF T
<1>4. /\ Append(s, e) \in Seq(T) /\ Len(Append(s, e)) = Len(s) + 1
      /\ \A i \in 1 .. Len(s) : Append(s, e)[i] = s[i]
      /\ Append(s, e)[Len(s) + 1] = e
    BY <1>2, <1>3, AppendProperties
<1> QED BY <1>4 DEF IsList

\* Two lists make a list.
LEMMA ListConcat ==
    ASSUME NEW s, IsList(s), NEW t, IsList(t)
    PROVE  IsList(s \o t)
<1>1. PICK S : s \in Seq(S)
    BY DEF IsList
<1>2. PICK T : t \in Seq(T)
    BY DEF IsList
<1> DEFINE U == S \cup T
<1>3. s \in Seq(U) /\ t \in Seq(U)
    BY <1>1, <1>2, SeqMonotonic
<1> HIDE DEF U
<1>4. s \o t \in Seq(U)
    BY <1>3, ConcatProperties
<1> QED BY <1>4 DEF IsList

\* A function on 1 .. n is a list of n elements.
LEMMA ListOf ==
    ASSUME NEW n \in Nat, NEW f, DOMAIN f = 1 .. n, f = [i \in 1 .. n |-> f[i]]
    PROVE  IsList(f) /\ Len(f) = n
<1> DEFINE S == {f[i] : i \in 1 .. n}
<1>1. f \in [1 .. n -> S]
    OBVIOUS
<1>2. f \in Seq(S)
    <2> HIDE DEF S
    <2> QED BY <1>1
<1>3. Len(f) = n
    <2> HIDE DEF S
    <2> QED BY <1>1, <1>2, LenProperties
<1> QED BY <1>2, <1>3 DEF IsList

-----------------------------------------------------------------------------
(* Every scanner's headings are in the order of their lines.               *)

InOrder(total, headings) ==
    /\ total \in Nat
    /\ IsList(headings)
    /\ \A k \in DOMAIN headings : headings[k].start \in 1 .. total
    /\ \A k, m \in DOMAIN headings : k < m => headings[k].start < headings[m].start

\* A line more, and a heading on it.
LEMMA NextInOrder ==
    ASSUME NEW total, NEW headings, InOrder(total, headings), NEW level
    PROVE  /\ InOrder(total + 1, headings)
           /\ InOrder(total + 1, Append(headings, [start |-> total + 1, level |-> level]))
<1> DEFINE new == [start |-> total + 1, level |-> level]
           more == Append(headings, new)
           n == Len(headings)
<1>1. /\ total \in Nat /\ IsList(headings)
      /\ \A k \in DOMAIN headings : headings[k].start \in 1 .. total
      /\ \A k, m \in DOMAIN headings : k < m => headings[k].start < headings[m].start
    BY DEF InOrder
<1>2. n \in Nat /\ DOMAIN headings = 1 .. n
    BY <1>1, ListFacts
<1>3. /\ IsList(more) /\ Len(more) = n + 1
      /\ \A i \in 1 .. n : more[i] = headings[i]
      /\ more[n + 1] = new
    BY <1>1, ListAppend
<1>4. DOMAIN more = 1 .. n + 1
    BY <1>3, ListFacts
<1>5. new.start = total + 1
    OBVIOUS
<1> HIDE DEF new, more, n
<1>6. InOrder(total + 1, headings)
    <2>1. \A k \in DOMAIN headings : headings[k].start \in 1 .. total + 1
        BY <1>1
    <2> QED BY <1>1, <2>1 DEF InOrder
<1>7. ASSUME NEW k \in 1 .. n + 1
      PROVE  /\ more[k].start \in 1 .. total + 1
             /\ k # n + 1 => more[k].start \in 1 .. total /\ more[k] = headings[k]
    <2>1. CASE k = n + 1
        BY <1>1, <1>3, <1>5, <2>1
    <2>2. CASE k # n + 1
        <3>1. k \in 1 .. n
            BY <1>2, <2>2
        <3>2. more[k] = headings[k] /\ headings[k].start \in 1 .. total
            BY <1>1, <1>2, <1>3, <3>1
        <3> QED BY <1>1, <2>2, <3>2
    <2> QED BY <2>1, <2>2
<1>8. ASSUME NEW k \in 1 .. n + 1, NEW m \in 1 .. n + 1, k < m
      PROVE  more[k].start < more[m].start
    <2>1. k \in 1 .. n /\ k # n + 1
        BY <1>2, <1>8
    <2>2. more[k].start \in 1 .. total /\ more[k] = headings[k]
        BY <1>7, <2>1
    <2>3. CASE m = n + 1
        BY <1>1, <1>3, <1>5, <2>2, <2>3
    <2>4. CASE m # n + 1
        <3>1. m \in 1 .. n /\ more[m] = headings[m]
            BY <1>2, <1>7, <2>4
        <3> QED BY <1>1, <1>2, <1>8, <2>1, <2>2, <3>1
    <2> QED BY <2>3, <2>4
<1>9. InOrder(total + 1, more)
    <2>1. total + 1 \in Nat
        BY <1>1
    <2> QED BY <1>3, <1>4, <1>7, <1>8, <2>1 DEF InOrder
<1> QED BY <1>6, <1>9 DEF more, new

\* The scanners start without headings.
LEMMA StartInOrder == InOrder(0, <<>>)
<1>1. <<>> \in Seq({})
    OBVIOUS
<1>2. IsList(<<>>) /\ DOMAIN <<>> = {}
    BY <1>1 DEF IsList
<1> QED BY <1>2 DEF InOrder

\* The records of the scanners.
PythonShape(s) == s = [total |-> s.total, headings |-> s.headings, stack |-> s.stack]

RustShape(s) ==
    s = [total |-> s.total, headings |-> s.headings, stack |-> s.stack,
         braces |-> s.braces, inComment |-> s.inComment, pending |-> s.pending]

\* A line of Python adds a heading at its own number at most.
LEMMA PythonInOrder ==
    ASSUME NEW s, PythonShape(s), InOrder(s.total, s.headings), NEW line
    PROVE  LET t == PythonLine(s, line) IN PythonShape(t) /\ InOrder(t.total, t.headings)
<1> DEFINE t == PythonLine(s, line)
<1>1. CASE line.kind = "other"
    <2>1. t = [total |-> s.total + 1, headings |-> s.headings, stack |-> s.stack]
        <3>1. t = [s EXCEPT !.total = @ + 1]
            BY <1>1 DEF PythonLine
        <3> QED BY <3>1 DEF PythonShape
    <2> HIDE DEF t
    <2>2. t.total = s.total + 1 /\ t.headings = s.headings /\ PythonShape(t)
        BY <2>1 DEF PythonShape
    <2> QED BY <2>2, NextInOrder DEF t
<1>2. CASE line.kind # "other"
    <2>1. PICK level, stack :
              t = [total |-> s.total + 1,
                   headings |-> Append(s.headings, [start |-> s.total + 1, level |-> level]),
                   stack |-> stack]
        BY <1>2 DEF PythonLine, Heading
    <2> HIDE DEF t
    <2>2. /\ t.total = s.total + 1 /\ PythonShape(t)
          /\ t.headings = Append(s.headings, [start |-> s.total + 1, level |-> level])
        BY <2>1 DEF PythonShape
    <2> QED BY <2>2, NextInOrder DEF t
<1> QED BY <1>1, <1>2

\* A line of Rust adds a heading at its own number at most.
LEMMA RustInOrder ==
    ASSUME NEW s, RustShape(s), InOrder(s.total, s.headings), NEW line
    PROVE  LET t == RustLine(s, line) IN RustShape(t) /\ InOrder(t.total, t.headings)
<1> DEFINE t == RustLine(s, line)
<1>1. PICK next, braces, inComment :
          /\ t = [next EXCEPT !.total = @ + 1, !.braces = braces, !.inComment = inComment]
          /\ \/ \E kind : next = RustItem(s, line, kind, braces)
             \/ next = RustOther(s, braces)
    <2> DEFINE code == IF s.inComment THEN AfterComment(line) ELSE line
               scan0 == BraceDelta(line, s.inComment)
               braces == Max({0, s.braces + scan0.delta})
               item == RustItem(s, line, Head(code), braces)
               next == IF code /= <<>> /\ Head(code) \in Items THEN item ELSE RustOther(s, braces)
               inComment == scan0.mode = "block"
    <2>1. t = [next EXCEPT !.total = @ + 1, !.braces = braces, !.inComment = inComment]
        BY DEF RustLine
    <2>2. \E kind : item = RustItem(s, line, kind, braces)
        OBVIOUS
    <2> HIDE DEF t, item, inComment, braces
    <2>3. next = item \/ next = RustOther(s, braces)
        OBVIOUS
    <2> HIDE DEF next
    <2> QED BY <2>1, <2>2, <2>3
<1>2. PICK headings, stack, pending :
          /\ next = [total |-> s.total, headings |-> headings, stack |-> stack,
                     braces |-> s.braces, inComment |-> s.inComment, pending |-> pending]
          /\ \/ headings = s.headings
             \/ \E level : headings = Append(s.headings, [start |-> s.total + 1, level |-> level])
    <2>1. CASE \E kind : next = RustItem(s, line, kind, braces)
        <3>1. PICK kind : next = RustItem(s, line, kind, braces)
            BY <2>1
        <3>2. PICK headings, stack, pending, level :
                  /\ next = [s EXCEPT !.headings = headings, !.stack = stack, !.pending = pending]
                  /\ headings = Append(s.headings, [start |-> s.total + 1, level |-> level])
            BY <3>1 DEF RustItem, Heading
        <3>3. next = [total |-> s.total, headings |-> headings, stack |-> stack,
                      braces |-> s.braces, inComment |-> s.inComment, pending |-> pending]
            BY <3>2 DEF RustShape
        <3> QED BY <3>2, <3>3
    <2>2. CASE next = RustOther(s, braces)
        <3>1. PICK stack, pending :
                  next = [s EXCEPT !.stack = stack, !.pending = pending]
            <4> DEFINE open == PopClosed(s.stack, braces)
                       stack == IF braces > s.pending[1].at THEN open \o s.pending ELSE open
                       pending == IF braces = s.pending[1].at THEN s.pending ELSE <<>>
            <4>1. CASE s.pending = <<>>
                <5>1. next = [s EXCEPT !.stack = open]
                    BY <2>2, <4>1 DEF RustOther
                <5> HIDE DEF open
                <5>2. next = [s EXCEPT !.stack = open, !.pending = s.pending]
                    BY <5>1 DEF RustShape
                <5> QED BY <5>2
            <4>2. CASE s.pending # <<>>
                <5>1. next = [s EXCEPT !.stack = stack, !.pending = pending]
                    BY <2>2, <4>2 DEF RustOther
                <5> HIDE DEF stack, pending
                <5> QED BY <5>1
            <4> QED BY <4>1, <4>2
        <3>2. next = [total |-> s.total, headings |-> s.headings, stack |-> stack,
                      braces |-> s.braces, inComment |-> s.inComment, pending |-> pending]
            BY <3>1 DEF RustShape
        <3> QED BY <3>2
    <2> QED BY <1>1, <2>1, <2>2
<1> HIDE DEF t
<1>3. t = [total |-> s.total + 1, headings |-> headings, stack |-> stack,
           braces |-> braces, inComment |-> inComment, pending |-> pending]
    BY <1>1, <1>2
<1>4. t.total = s.total + 1 /\ t.headings = headings /\ RustShape(t)
    BY <1>3 DEF RustShape
<1>5. InOrder(s.total + 1, headings)
    BY <1>2, NextInOrder
<1> QED BY <1>4, <1>5 DEF t

\* A line of Markdown adds a heading at its own number at most.
LEMMA MarkdownInOrder ==
    ASSUME NEW s, InOrder(s.total, s.headings), NEW line
    PROVE  LET t == MarkdownLine(s, line) IN InOrder(t.total, t.headings)
<1> DEFINE t == MarkdownLine(s, line)
<1>1. /\ t.total = s.total + 1
      /\ \/ t.headings = s.headings
         \/ \E level : t.headings = Append(s.headings, [start |-> s.total + 1, level |-> level])
    BY DEF MarkdownLine
<1> HIDE DEF t
<1>2. InOrder(s.total + 1, t.headings)
    BY <1>1, NextInOrder
<1> QED BY <1>1, <1>2 DEF t

\* The Markdown scan is what its recursive function says.
MarkdownAfter(lines) ==
    CHOOSE f : f = [n \in 0 .. Len(lines) |->
        IF n = 0 THEN MarkdownStart ELSE MarkdownLine(f[n - 1], lines[n])]

\* The recursive function of ScanMarkdown exists.
LEMMA MarkdownAfterDefined ==
    ASSUME NEW lines, Len(lines) \in Nat
    PROVE  MarkdownAfter(lines) = [n \in 0 .. Len(lines) |->
               IF n = 0 THEN MarkdownStart
               ELSE MarkdownLine(MarkdownAfter(lines)[n - 1], lines[n])]
<1> DEFINE Def(f, n) == f = [i \in 0 .. n |->
               IF i = 0 THEN MarkdownStart ELSE MarkdownLine(f[i - 1], lines[i])]
           T == {n \in Nat : \E f : Def(f, n)}
<1>1. 0 \in T
    <2>1. Def([i \in 0 .. 0 |-> MarkdownStart], 0)
        OBVIOUS
    <2> QED BY <2>1
<1>2. ASSUME NEW n \in Nat, NEW f, Def(f, n)
      PROVE  \E g : Def(g, n + 1)
    <2> DEFINE last == MarkdownLine(f[n], lines[n + 1])
               g == [i \in 0 .. n + 1 |-> IF i = n + 1 THEN last ELSE f[i]]
               h == [i \in 0 .. n + 1 |->
                        IF i = 0 THEN MarkdownStart ELSE MarkdownLine(g[i - 1], lines[i])]
    <2>1. g[0] = MarkdownStart
        BY <1>2
    <2>2. ASSUME NEW i \in 1 .. n + 1
          PROVE  g[i] = MarkdownLine(g[i - 1], lines[i])
        <3>1. CASE i = n + 1
            BY <3>1
        <3>2. CASE i # n + 1
            <4>1. i \in 0 .. n /\ i - 1 \in 0 .. n /\ i # 0
                BY <3>2
            <4>2. g[i] = f[i] /\ g[i - 1] = f[i - 1]
                BY <3>2, <4>1
            <4>3. f[i] = MarkdownLine(f[i - 1], lines[i])
                BY <1>2, <4>1
            <4> QED BY <4>2, <4>3
        <3> QED BY <3>1, <3>2
    <2>3. \A i \in 0 .. n + 1 : g[i] = h[i]
        <3> SUFFICES ASSUME NEW i \in 0 .. n + 1 PROVE g[i] = h[i]
            OBVIOUS
        <3>1. h[i] = IF i = 0 THEN MarkdownStart ELSE MarkdownLine(g[i - 1], lines[i])
            OBVIOUS
        <3> HIDE DEF g, h
        <3> QED BY <2>1, <2>2, <3>1
    <2>4. Def(g, n + 1)
        BY <2>3
    <2> QED BY <2>4
<1>3. \A n \in Nat : n \in T
    <2>1. \A n \in Nat : n \in T => n + 1 \in T
        <3> HIDE DEF Def
        <3> QED BY <1>2
    <2> HIDE DEF T
    <2> QED BY <1>1, <2>1, SetInduction
<1>4. \E f : Def(f, Len(lines))
    BY <1>3
<1>5. MarkdownAfter(lines) = CHOOSE f : Def(f, Len(lines))
    BY DEF MarkdownAfter
<1>6. Def(MarkdownAfter(lines), Len(lines))
    <2> HIDE DEF Def
    <2> QED BY <1>4, <1>5
<1> QED BY <1>6

\* The headings of a Markdown text are in the order of their lines.
LEMMA ScanMarkdownInOrder ==
    ASSUME NEW lines, Len(lines) \in Nat
    PROVE  InOrder(ScanMarkdown(lines).total, ScanMarkdown(lines).headings)
<1> DEFINE f == MarkdownAfter(lines)
           T == {n \in Nat : n <= Len(lines) => InOrder(f[n].total, f[n].headings)}
<1>1. f = [n \in 0 .. Len(lines) |->
              IF n = 0 THEN MarkdownStart ELSE MarkdownLine(f[n - 1], lines[n])]
    BY MarkdownAfterDefined
<1>2. ScanMarkdown(lines) = f[Len(lines)]
    BY DEF ScanMarkdown, MarkdownAfter
<1> HIDE DEF f
<1>3. 0 \in T
    <2>1. f[0] = MarkdownStart
        BY <1>1
    <2>2. f[0].total = 0 /\ f[0].headings = <<>>
        BY <2>1 DEF MarkdownStart
    <2> QED BY <2>2, StartInOrder
<1>4. ASSUME NEW n \in Nat, n \in T PROVE n + 1 \in T
    <2>1. CASE n + 1 <= Len(lines)
        <3>1. InOrder(f[n].total, f[n].headings)
            BY <1>4, <2>1
        <3>2. n + 1 \in 0 .. Len(lines) /\ n + 1 # 0 /\ (n + 1) - 1 = n
            BY <2>1
        <3>3. f[n + 1] = MarkdownLine(f[n], lines[n + 1])
            BY <1>1, <3>2
        <3>4. InOrder(f[n + 1].total, f[n + 1].headings)
            BY <3>1, <3>3, MarkdownInOrder
        <3> QED BY <3>4
    <2>2. CASE ~ (n + 1 <= Len(lines))
        BY <2>2
    <2> QED BY <2>1, <2>2
<1>5. \A n \in Nat : n \in T
    <2> HIDE DEF T
    <2> QED BY <1>3, <1>4, SetInduction
<1>6. InOrder(f[Len(lines)].total, f[Len(lines)].headings)
    BY <1>5
<1> QED BY <1>2, <1>6

-----------------------------------------------------------------------------
(* The state of the outline.                                               *)

\* A Python or Rust text has the scanner's record; a converted document is a
\* list of lines.
OutlineInv ==
    /\ format \in {"python", "rust", "rst"}
    /\ format = "python" => PythonShape(scan)
    /\ format = "rust" => RustShape(scan)
    /\ format # "rst" => InOrder(scan.total, scan.headings)
    /\ format = "rst" => Len(rst) \in Nat /\ cursor \in Nat /\ IsList(out)

\* The invariant holds at the start.
LEMMA OutlineInit == Init => OutlineInv
<1> SUFFICES ASSUME Init PROVE OutlineInv
    OBVIOUS
<1>1. PythonStart.total = 0 /\ PythonStart.headings = <<>> /\ PythonShape(PythonStart)
    BY DEF PythonStart, PythonShape
<1>2. RustStart.total = 0 /\ RustStart.headings = <<>> /\ RustShape(RustStart)
    BY DEF RustStart, RustShape
<1>3. CASE format = "rst"
    <2>1. RstInit
        BY <1>3 DEF Init
    <2>2. Len(rst) \in Nat
        <3>1. PICK n \in 0 .. MaxRst : rst \in [1 .. n -> RstLines]
            BY <2>1 DEF RstInit
        <3>2. rst \in Seq(RstLines)
            BY <3>1, RstAssumption
        <3> QED BY <3>2, LenProperties
    <2>3. IsList(<<>>)
        BY StartInOrder DEF InOrder
    <2> QED BY <1>3, <2>1, <2>2, <2>3 DEF OutlineInv, RstInit
<1>4. CASE format # "rst"
    <2>1. format \in {"python", "rust"} /\ scan = IF format = "python" THEN PythonStart ELSE RustStart
        BY <1>4 DEF Init
    <2> QED BY <1>1, <1>2, <1>4, <2>1, StartInOrder DEF OutlineInv
<1> QED BY <1>3, <1>4

\* The end of a block is a line number.
LEMMA BlockEndType ==
    ASSUME NEW i \in Nat, Len(rst) \in Nat
    PROVE  BlockEnd(i) \in Int /\ BlockEnd(i) >= i - 1
<1> DEFINE S == {k \in i .. Len(rst) : Indented(k) /\ \A m \in i .. k : Indented(m) \/ Blank(m)}
           A == {i - 1} \union S
<1>1. BlockEnd(i) = Max(A)
    BY DEF BlockEnd
<1>2. A \subseteq Int /\ A # {} /\ i - 1 \in A
    OBVIOUS
<1>3. \A x \in A : x <= i + Len(rst)
    OBVIOUS
<1>4. i + Len(rst) \in Int
    OBVIOUS
<1> HIDE DEF A
<1>5. Max(A) \in A /\ \A x \in A : x <= Max(A)
    BY <1>2, <1>3, <1>4, MaxExists
<1> QED BY <1>1, <1>2, <1>5

\* A block is a list of lines.
LEMMA BlockIsList ==
    ASSUME NEW i \in Nat, Len(rst) \in Nat
    PROVE  IsList(Quote(i)) /\ IsList(Literal(i))
<1>1. BlockEnd(i) \in Int /\ BlockEnd(i) >= i - 1
    BY BlockEndType
<1> DEFINE n == BlockEnd(i) - i + 1
           f == [k \in 1 .. n |-> Quoted(i + k - 1)]
           g == [k \in 1 .. n |-> AsItIs(i + k - 1)]
<1>2. n \in Nat
    BY <1>1
<1>3. Quote(i) = f /\ Literal(i) = g
    BY DEF Quote, Literal
<1> HIDE DEF n
<1>4. /\ DOMAIN f = 1 .. n /\ f = [k \in 1 .. n |-> f[k]]
      /\ DOMAIN g = 1 .. n /\ g = [k \in 1 .. n |-> g[k]]
    OBVIOUS
<1> HIDE DEF f, g
<1>5. IsList(f) /\ IsList(g)
    BY <1>2, <1>4, ListOf
<1> QED BY <1>3, <1>5

\* One line is a list.
LEMMA OneIsList == \A e : IsList(<<e>>)
<1> SUFFICES ASSUME NEW e PROVE IsList(<<e>>)
    OBVIOUS
<1>1. <<e>> \in Seq({e})
    OBVIOUS
<1> QED BY <1>1 DEF IsList

\* Every form appends a list of lines and moves the cursor.
LEMMA ConvertTakes ==
    ASSUME Convert, Len(rst) \in Nat, cursor \in Nat
    PROVE  \E lines, i : IsList(lines) /\ i \in Nat /\ Take(lines, i)
<1>1. ASSUME NEW lines, IsList(lines), NEW i \in Nat, Take(lines, i)
      PROVE  \E l, j : IsList(l) /\ j \in Nat /\ Take(l, j)
    BY <1>1
<1>2. /\ cursor + 1 \in Nat /\ cursor + 2 \in Nat /\ cursor + 3 \in Nat
      /\ BlockEnd(cursor + 1) + 1 \in Nat /\ BlockEnd(cursor) + 1 \in Nat
    <2>1. BlockEnd(cursor + 1) \in Int /\ BlockEnd(cursor + 1) >= (cursor + 1) - 1
        BY BlockEndType
    <2>2. BlockEnd(cursor) \in Int /\ BlockEnd(cursor) >= cursor - 1
        BY BlockEndType
    <2> QED BY <2>1, <2>2
<1>3. IsList(<<>>)
    BY StartInOrder DEF InOrder
<1>4. /\ IsList(Quote(cursor)) /\ IsList(Quote(cursor + 1))
      /\ IsList(Literal(cursor)) /\ IsList(Literal(cursor + 1))
    BY <1>2, BlockIsList
<1>5. IsList(Fenced(cursor)) /\ IsList(Fenced(cursor + 1))
    <2>1. ASSUME NEW i, IsList(Literal(i)) PROVE IsList(Fenced(i))
        <3> DEFINE e == <<Md("fence", 0)>>
                   b == Literal(i)
        <3>1. IsList(e) /\ IsList(b)
            BY <2>1, OneIsList
        <3>2. Fenced(i) = (e \o b) \o e \/ Fenced(i) = e \o (b \o e)
            BY DEF Fenced
        <3> HIDE DEF e, b
        <3>3. IsList((e \o b) \o e) /\ IsList(e \o (b \o e))
            <4>1. IsList(e \o b) /\ IsList(b \o e)
                BY <3>1, ListConcat
            <4> QED BY <3>1, <4>1, ListConcat
        <3> QED BY <3>2, <3>3
    <2> QED BY <1>4, <2>1
<1>6. IsList(<<Md("quote", 0)>> \o Quote(cursor + 1))
    <2>1. IsList(<<Md("quote", 0)>>)
        BY OneIsList
    <2> QED BY <1>4, <2>1, ListConcat
<1>7. CASE BlankLine \/ Transition \/ ListItem \/ Paragraph
    <2>1. PICK e : Take(<<e>>, cursor + 1)
        BY <1>7 DEF BlankLine, Transition, ListItem, Paragraph, Keep
    <2> QED BY <1>1, <1>2, <2>1, OneIsList
<1>8. CASE OverlinedTitle \/ UnderlinedTitle
    <2>1. ASSUME NEW i, NEW ch, NEW next, EmitTitle(i, ch, next)
          PROVE  \E e : Take(<<e>>, next)
        BY <2>1 DEF EmitTitle
    <2>2. (\E e : Take(<<e>>, cursor + 2)) \/ (\E e : Take(<<e>>, cursor + 3))
        BY <1>8, <2>1 DEF OverlinedTitle, UnderlinedTitle
    <2> QED BY <1>1, <1>2, <2>2, OneIsList
<1>9. CASE Comment \/ OtherDirective
    <2>1. PICK i \in {BlockEnd(cursor + 1) + 1, cursor + 1} : Take(<<>>, i)
        BY <1>9 DEF Comment, OtherDirective, Keep
    <2> QED BY <1>1, <1>2, <1>3, <2>1
<1>10. CASE CodeDirective
    BY <1>1, <1>2, <1>5, <1>10 DEF CodeDirective, Keep
<1>11. CASE Admonition
    BY <1>1, <1>2, <1>6, <1>11 DEF Admonition, Keep
<1>12. CASE IndentedBlock
    <2>1. PICK lines \in {Quote(cursor), Fenced(cursor)} :
              Take(lines, BlockEnd(cursor) + 1)
        BY <1>12 DEF IndentedBlock, Keep
    <2> QED BY <1>1, <1>2, <1>4, <1>5, <2>1
<1> QED BY <1>7, <1>8, <1>9, <1>10, <1>11, <1>12 DEF Convert

\* Every step of a scanner or of the conversion keeps the invariant.
LEMMA OutlineStep == OutlineInv /\ [Next]_vars => OutlineInv'
<1> SUFFICES ASSUME OutlineInv, [Next]_vars PROVE OutlineInv'
    OBVIOUS
<1>1. ASSUME NEW line, ScanPython(line) PROVE OutlineInv'
    <2>1. format = "python" /\ format' = format /\ scan' = PythonLine(scan, line)
        BY <1>1 DEF ScanPython
    <2>2. PythonShape(scan) /\ InOrder(scan.total, scan.headings)
        BY <2>1 DEF OutlineInv
    <2>3. PythonShape(scan') /\ InOrder(scan'.total, scan'.headings)
        BY <2>1, <2>2, PythonInOrder
    <2> QED BY <2>1, <2>3 DEF OutlineInv
<1>2. ASSUME NEW line, ScanRust(line) PROVE OutlineInv'
    <2>1. format = "rust" /\ format' = format /\ scan' = RustLine(scan, line)
        BY <1>2 DEF ScanRust
    <2>2. RustShape(scan) /\ InOrder(scan.total, scan.headings)
        BY <2>1 DEF OutlineInv
    <2>3. RustShape(scan') /\ InOrder(scan'.total, scan'.headings)
        BY <2>1, <2>2, RustInOrder
    <2> QED BY <2>1, <2>3 DEF OutlineInv
<1>3. CASE ConvertRst
    <2>1. format = "rst" /\ format' = format /\ Convert
        BY <1>3 DEF ConvertRst
    <2>2. Len(rst) \in Nat /\ cursor \in Nat /\ IsList(out)
        BY <2>1 DEF OutlineInv
    <2>3. PICK lines, i : IsList(lines) /\ i \in Nat /\ Take(lines, i)
        BY <2>1, <2>2, ConvertTakes
    <2>4. out' = out \o lines /\ cursor' = i /\ rst' = rst
        BY <2>3 DEF Take
    <2>5. IsList(out')
        BY <2>2, <2>3, <2>4, ListConcat
    <2> QED BY <2>1, <2>2, <2>3, <2>4, <2>5 DEF OutlineInv
<1>4. CASE UNCHANGED vars
    BY <1>4 DEF vars, rstVars, OutlineInv
<1> QED BY <1>1, <1>2, <1>3, <1>4 DEF Next

-----------------------------------------------------------------------------
(* The slices of the headings make up the text.                            *)

FlattenUpTo(seqs) ==
    CHOOSE f : f = [i \in 1 .. Len(seqs) |-> IF i = 1 THEN seqs[i] ELSE f[i - 1] \o seqs[i]]

\* The recursive function of FlattenSeq exists.
LEMMA FlattenDefined ==
    ASSUME NEW seqs, Len(seqs) \in Nat
    PROVE  FlattenUpTo(seqs) = [i \in 1 .. Len(seqs) |->
               IF i = 1 THEN seqs[i] ELSE FlattenUpTo(seqs)[i - 1] \o seqs[i]]
<1> DEFINE Def(f, n) == f = [i \in 1 .. n |->
               IF i = 1 THEN seqs[i] ELSE f[i - 1] \o seqs[i]]
           T == {n \in Nat : \E f : Def(f, n)}
<1>1. 0 \in T
    <2>1. 1 .. 0 = {}
        OBVIOUS
    <2>2. Def([i \in 1 .. 0 |-> seqs], 0)
        BY <2>1
    <2> QED BY <2>2
<1>2. ASSUME NEW n \in Nat, NEW f, Def(f, n)
      PROVE  \E g : Def(g, n + 1)
    <2> DEFINE last == IF n = 0 THEN seqs[1] ELSE f[n] \o seqs[n + 1]
               g == [i \in 1 .. n + 1 |-> IF i = n + 1 THEN last ELSE f[i]]
               h == [i \in 1 .. n + 1 |-> IF i = 1 THEN seqs[i] ELSE g[i - 1] \o seqs[i]]
    <2>1. ASSUME NEW i \in 1 .. n + 1
          PROVE  g[i] = h[i]
        <3>0. h[i] = IF i = 1 THEN seqs[i] ELSE g[i - 1] \o seqs[i]
            OBVIOUS
        <3>1. CASE i = n + 1
            <4>1. g[i] = last
                BY <3>1
            <4>2. n # 0 => g[i - 1] = f[n]
                BY <3>1
            <4> HIDE DEF g, h
            <4> QED BY <3>0, <3>1, <4>1, <4>2
        <3>2. CASE i # n + 1
            <4>1. i \in 1 .. n
                BY <3>2
            <4>2. g[i] = f[i] /\ (i # 1 => g[i - 1] = f[i - 1])
                BY <3>2, <4>1
            <4>3. f[i] = IF i = 1 THEN seqs[i] ELSE f[i - 1] \o seqs[i]
                BY <1>2, <4>1
            <4> HIDE DEF g, h
            <4> QED BY <3>0, <4>2, <4>3
        <3> QED BY <3>1, <3>2
    <2>2. Def(g, n + 1)
        BY <2>1
    <2> QED BY <2>2
<1>3. \A n \in Nat : n \in T
    <2>1. \A n \in Nat : n \in T => n + 1 \in T
        <3> HIDE DEF Def
        <3> QED BY <1>2
    <2> HIDE DEF T
    <2> QED BY <1>1, <2>1, SetInduction
<1>4. \E f : Def(f, Len(seqs))
    BY <1>3
<1>5. FlattenUpTo(seqs) = CHOOSE f : Def(f, Len(seqs))
    BY DEF FlattenUpTo
<1>6. Def(FlattenUpTo(seqs), Len(seqs))
    <2> HIDE DEF Def
    <2> QED BY <1>4, <1>5
<1> QED BY <1>6

\* Adjacent ranges of a text, the last one to its end.
Ranges(lines, n, parts, starts) ==
    /\ \E S : lines \in Seq(S)
    /\ n \in Nat /\ n > 0 /\ IsList(parts) /\ Len(parts) = n
    /\ starts \in [1 .. n + 1 -> 1 .. Len(lines) + 1]
    /\ \A k \in 1 .. n : starts[k] <= starts[k + 1]
    /\ \A k \in 1 .. n : parts[k] = SubSeq(lines, starts[k], starts[k + 1] - 1)

\* Adjacent ranges, flattened, are the range from the first to the last.
LEMMA RangesMakeUp ==
    ASSUME NEW lines, NEW n, NEW parts, NEW starts, Ranges(lines, n, parts, starts)
    PROVE  FlattenSeq(parts) = SubSeq(lines, starts[1], starts[n + 1] - 1)
<1> DEFINE f == FlattenUpTo(parts)
           From(k) == SubSeq(lines, starts[1], starts[k + 1] - 1)
           T == {k \in Nat : k < n => starts[1] <= starts[k + 2] /\ f[k + 1] = From(k + 1)}
<1>a. PICK S : lines \in Seq(S)
    BY DEF Ranges
<1>b. /\ n \in Nat /\ n > 0 /\ IsList(parts) /\ Len(parts) = n
      /\ starts \in [1 .. n + 1 -> 1 .. Len(lines) + 1]
      /\ \A k \in 1 .. n : starts[k] <= starts[k + 1]
      /\ \A k \in 1 .. n : parts[k] = SubSeq(lines, starts[k], starts[k + 1] - 1)
    BY DEF Ranges
<1> USE <1>a, <1>b
<1>1. f = [i \in 1 .. n |-> IF i = 1 THEN parts[i] ELSE f[i - 1] \o parts[i]]
    BY FlattenDefined
<1>2. FlattenSeq(parts) = f[n]
    BY DEF FlattenSeq, FlattenUpTo
<1>3. Len(lines) \in Nat /\ \A k \in 1 .. n + 1 : starts[k] \in 1 .. Len(lines) + 1
    BY LenProperties
<1> HIDE DEF f
<1>4. 0 \in T
    <2>1. 1 \in 1 .. n /\ f[1] = parts[1]
        BY <1>1
    <2>2. parts[1] = SubSeq(lines, starts[1], starts[1 + 1] - 1) /\ starts[1] <= starts[1 + 1]
        BY <2>1
    <2>3. 0 + 1 = 1 /\ 1 + 1 = 2 /\ 0 + 2 = 2
        OBVIOUS
    <2>4. f[0 + 1] = From(0 + 1) /\ starts[1] <= starts[0 + 2]
        BY <2>1, <2>2, <2>3
    <2> QED BY <2>4
<1>5. ASSUME NEW k \in Nat, k \in T PROVE k + 1 \in T
    <2>1. CASE k + 1 < n
        <3>1. starts[1] <= starts[k + 2] /\ f[k + 1] = From(k + 1)
            BY <1>5, <2>1
        <3>2. /\ k + 2 \in 1 .. n /\ k + 2 # 1 /\ (k + 2) - 1 = k + 1
              /\ k + 2 \in 1 .. n + 1 /\ k + 3 \in 1 .. n + 1 /\ 1 \in 1 .. n + 1
              /\ (k + 2) + 1 = k + 3 /\ (k + 1) + 1 = k + 2 /\ (k + 1) + 2 = k + 3
            BY <2>1
        <3>3. f[k + 2] = f[k + 1] \o parts[k + 2]
            BY <1>1, <3>2
        <3>4. /\ parts[k + 2] = SubSeq(lines, starts[k + 2], starts[k + 3] - 1)
              /\ starts[k + 2] <= starts[k + 3]
            <4>1. /\ parts[k + 2] = SubSeq(lines, starts[k + 2], starts[(k + 2) + 1] - 1)
                  /\ starts[k + 2] <= starts[(k + 2) + 1]
                BY <3>2
            <4> QED BY <3>2, <4>1
        <3> DEFINE a == starts[1]
                   b == starts[k + 2]
                   c == starts[k + 3]
        <3>5. a \in 1 .. Len(lines) + 1 /\ b \in 1 .. Len(lines) + 1 /\ c \in 1 .. Len(lines) + 1
              /\ a <= b /\ b <= c
            BY <1>3, <3>1, <3>2, <3>4
        <3>6. f[k + 2] = SubSeq(lines, a, b - 1) \o SubSeq(lines, b, c - 1)
            <4>1. f[k + 1] = SubSeq(lines, starts[1], starts[k + 2] - 1)
                BY <3>1, <3>2
            <4> QED BY <3>3, <3>4, <4>1
        <3> HIDE DEF a, b, c
        <3>7. SubSeq(lines, a, b - 1) \o SubSeq(lines, (b - 1) + 1, c - 1) = SubSeq(lines, a, c - 1)
            <4>1. b - 1 \in a - 1 .. Len(lines) /\ c - 1 \in b - 1 .. Len(lines)
                BY <1>3, <3>5
            <4> QED BY <3>5, <4>1, ConcatAdjacentSubSeq
        <3>8. (b - 1) + 1 = b
            BY <3>5
        <3>9. f[k + 2] = SubSeq(lines, a, c - 1) /\ a <= c
            <4>1. a <= c
                BY <1>3, <3>5
            <4>2. f[k + 2] = SubSeq(lines, a, c - 1)
                BY <3>6, <3>7, <3>8
            <4> QED BY <4>1, <4>2
        <3>10. k + 1 < n => starts[1] <= starts[(k + 1) + 2] /\ f[(k + 1) + 1] = From((k + 1) + 1)
            BY <3>2, <3>9 DEF a, c
        <3> QED BY <3>10
    <2>2. CASE ~ (k + 1 < n)
        BY <2>2
    <2> QED BY <2>1, <2>2
<1>6. \A k \in Nat : k \in T
    <2> HIDE DEF T
    <2> QED BY <1>4, <1>5, SetInduction
<1>7. f[n] = From(n)
    <2>1. n - 1 \in Nat /\ n - 1 < n /\ (n - 1) + 1 = n
        OBVIOUS
    <2> QED BY <1>6, <2>1
<1> QED BY <1>2, <1>7

\* A range inside the text.
LEMMA SliceIs ==
    ASSUME NEW lines, Len(lines) \in Nat, NEW a \in Nat, a > 0
    PROVE  /\ \A b \in 0 .. Len(lines) : Slice(lines, a, b) = SubSeq(lines, a, b)
           /\ Slice(lines, a, NoEnd) = SubSeq(lines, a, Len(lines))
<1>1. Max({a, 1}) = a
    <2>1. Max({a, 1}) = IF a < 1 THEN 1 ELSE a
        BY MaxOfTwo
    <2> QED BY <2>1
<1>2. ASSUME NEW b \in 0 .. Len(lines)
      PROVE  Slice(lines, a, b) = SubSeq(lines, a, b)
    <2>1. Min({b, Len(lines)}) = b
        <3>1. Min({b, Len(lines)}) = IF b < Len(lines) THEN b ELSE Len(lines)
            BY MinOfTwo
        <3> QED BY <3>1
    <2>2. b # NoEnd
        BY DEF NoEnd
    <2> QED BY <1>1, <2>1, <2>2 DEF Slice
<1>3. Slice(lines, a, NoEnd) = SubSeq(lines, a, Len(lines))
    BY <1>1 DEF Slice
<1> QED BY <1>2, <1>3

\* The lines before the first heading and the ranges of the headings are the text.
LEMMA SlicesMakeUp ==
    ASSUME NEW s, InOrder(s.total, s.headings), NEW lines, lines = [k \in 1 .. s.total |-> k]
    PROVE  LET items == HeadingItems(s)
               before == IF items = <<>> THEN s.total ELSE items[1].start - 1
           IN Slice(lines, 1, before)
                 \o FlattenSeq([k \in DOMAIN items |-> Slice(lines, items[k].start, items[k].end)])
              = lines
<1> DEFINE n == Len(s.headings)
           items == HeadingItems(s)
           before == IF items = <<>> THEN s.total ELSE items[1].start - 1
           parts == [k \in DOMAIN items |-> Slice(lines, items[k].start, items[k].end)]
<1>1. /\ s.total \in Nat /\ IsList(s.headings)
      /\ n \in Nat /\ DOMAIN s.headings = 1 .. n
      /\ \A k \in 1 .. n : s.headings[k].start \in 1 .. s.total
      /\ \A k, m \in 1 .. n : k < m => s.headings[k].start < s.headings[m].start
    <2>1. /\ s.total \in Nat /\ IsList(s.headings)
          /\ \A k \in DOMAIN s.headings : s.headings[k].start \in 1 .. s.total
          /\ \A k, m \in DOMAIN s.headings : k < m => s.headings[k].start < s.headings[m].start
        BY DEF InOrder
    <2>2. n \in Nat /\ DOMAIN s.headings = 1 .. n
        BY <2>1, ListFacts
    <2> QED BY <2>1, <2>2
<1>2. lines \in Seq(Nat) /\ Len(lines) = s.total
    <2>1. lines \in [1 .. s.total -> Nat]
        BY <1>1
    <2>2. lines \in Seq(Nat)
        BY <1>1, <2>1
    <2> QED BY <1>1, <2>1, <2>2, LenProperties
<1>3. items = [k \in 1 .. n |->
                  [start |-> s.headings[k].start,
                   end |-> IF k < n THEN s.headings[k + 1].start - 1 ELSE s.total]]
    BY <1>1 DEF HeadingItems
<1> HIDE DEF n, items
<1>4. DOMAIN items = 1 .. n /\ IsList(items) /\ Len(items) = n
    <2>1. DOMAIN items = 1 .. n /\ items = [k \in 1 .. n |-> items[k]]
        BY <1>3
    <2> QED BY <1>1, <2>1, ListOf
<1>5. CASE n = 0
    <2>1. items = <<>>
        <3>1. PICK S : items \in Seq(S)
            BY <1>4 DEF IsList
        <3> QED BY <1>4, <1>5, <3>1, EmptySeq
    <2>2. before = s.total
        BY <2>1
    <2>3. parts = <<>>
        BY <2>1
    <2>4. FlattenSeq(<<>>) = <<>>
        <3>1. Len(<<>>) = 0
            BY EmptySeq
        <3> QED BY <3>1 DEF FlattenSeq
    <2>5. Slice(lines, 1, s.total) = lines
        <3>1. s.total \in 0 .. Len(lines) /\ Len(lines) \in Nat /\ 1 \in Nat /\ 1 > 0
            BY <1>1, <1>2
        <3>2. Slice(lines, 1, s.total) = SubSeq(lines, 1, s.total)
            BY <3>1, SliceIs
        <3> QED BY <1>2, <3>2, SubSeqFull
    <2>6. lines \o <<>> = lines
        BY <1>2, ConcatEmptySeq
    <2>7. Slice(lines, 1, before) \o FlattenSeq(parts) = lines
        BY <2>2, <2>3, <2>4, <2>5, <2>6
    <2> QED BY <2>7 DEF items
<1>6. CASE n # 0
    <2> DEFINE starts == [k \in 1 .. n + 1 |->
                             IF k <= n THEN s.headings[k].start ELSE s.total + 1]
    <2>1. starts \in [1 .. n + 1 -> 1 .. Len(lines) + 1]
        <3>1. ASSUME NEW k \in 1 .. n + 1
              PROVE  (IF k <= n THEN s.headings[k].start ELSE s.total + 1) \in 1 .. s.total + 1
            <4>1. k <= n => k \in 1 .. n
                BY <1>1
            <4> QED BY <1>1, <4>1
        <3> QED BY <1>2, <3>1
    <2>2. /\ \A k \in 1 .. n : starts[k] = s.headings[k].start
          /\ \A k \in 1 .. n : k < n => starts[k + 1] = s.headings[k + 1].start
          /\ starts[n + 1] = s.total + 1
        BY <1>1
    <2> HIDE DEF starts
    <2>3. ASSUME NEW k \in 1 .. n
          PROVE  /\ starts[k] <= starts[k + 1]
                 /\ items[k].start = starts[k] /\ items[k].end = starts[k + 1] - 1
                 /\ starts[k] \in 1 .. s.total /\ starts[k + 1] - 1 \in 0 .. s.total
        <3>1. starts[k] = s.headings[k].start /\ starts[k] \in 1 .. s.total
            BY <1>1, <2>2
        <3>2. items[k].start = starts[k]
            BY <1>3, <3>1
        <3>3. CASE k < n
            <4>1. k + 1 \in 1 .. n
                BY <1>1, <3>3
            <4>2. /\ starts[k + 1] = s.headings[k + 1].start /\ starts[k + 1] \in 1 .. s.total
                  /\ starts[k] < starts[k + 1]
                <5>1. starts[k + 1] = s.headings[k + 1].start
                    BY <2>2, <3>3
                <5>2. s.headings[k].start < s.headings[k + 1].start
                    BY <1>1, <4>1
                <5> QED BY <1>1, <3>1, <4>1, <5>1, <5>2
            <4>3. items[k].end = starts[k + 1] - 1
                BY <1>3, <3>3, <4>2
            <4> QED BY <1>1, <3>1, <3>2, <4>2, <4>3
        <3>4. CASE k = n
            <4>1. starts[k + 1] = s.total + 1
                BY <2>2, <3>4
            <4>2. items[k].end = s.total
                BY <1>1, <1>3, <3>4
            <4> QED BY <1>1, <3>1, <3>2, <4>1, <4>2
        <3> QED BY <1>1, <3>3, <3>4
    <2>4. ASSUME NEW k \in 1 .. n
          PROVE  parts[k] = SubSeq(lines, starts[k], starts[k + 1] - 1)
        <3>1. parts[k] = Slice(lines, starts[k], starts[k + 1] - 1)
            BY <1>4, <2>3
        <3>2. starts[k] \in Nat /\ starts[k] > 0 /\ starts[k + 1] - 1 \in 0 .. Len(lines)
              /\ Len(lines) \in Nat
            <4>1. starts[k] \in 1 .. s.total /\ starts[k + 1] - 1 \in 0 .. s.total
                BY <2>3
            <4>2. s.total \in Nat /\ Len(lines) = s.total
                BY <1>1, <1>2
            <4> HIDE DEF parts
            <4> QED BY <4>1, <4>2
        <3> HIDE DEF parts
        <3> QED BY <3>1, <3>2, SliceIs
    <2>5. IsList(parts) /\ Len(parts) = n
        <3>1. DOMAIN parts = 1 .. n /\ parts = [k \in 1 .. n |-> parts[k]]
            BY <1>4
        <3> HIDE DEF parts
        <3> QED BY <1>1, <3>1, ListOf
    <2> HIDE DEF parts
    <2>6. FlattenSeq(parts) = SubSeq(lines, starts[1], starts[n + 1] - 1)
        <3>1. \A k \in 1 .. n : starts[k] <= starts[k + 1]
            BY <2>3
        <3>2. n \in Nat /\ n > 0
            BY <1>1, <1>6
        <3>3. \A k \in 1 .. n : parts[k] = SubSeq(lines, starts[k], starts[k + 1] - 1)
            BY <2>4
        <3>4. lines \in Seq(Nat)
            BY <1>2
        <3>5. Ranges(lines, n, parts, starts)
            BY <2>1, <2>5, <3>1, <3>2, <3>3, <3>4 DEF Ranges
        <3> QED BY <3>5, RangesMakeUp
    <2>7. starts[n + 1] - 1 = Len(lines)
        BY <1>1, <1>2, <2>2
    <2>8. 1 \in 1 .. n /\ items # <<>>
        <3>1. 1 \in 1 .. n
            BY <1>1, <1>6
        <3> QED BY <1>4, <3>1
    <2>9. before = starts[1] - 1 /\ starts[1] \in 1 .. s.total
        BY <2>3, <2>8
    <2>10. Slice(lines, 1, starts[1] - 1) = SubSeq(lines, 1, starts[1] - 1)
        <3>1. starts[1] - 1 \in 0 .. Len(lines) /\ Len(lines) \in Nat /\ 1 \in Nat /\ 1 > 0
            BY <1>1, <1>2, <2>9
        <3> HIDE DEF before
        <3> QED BY <3>1, SliceIs
    <2>11. SubSeq(lines, 1, starts[1] - 1) \o SubSeq(lines, (starts[1] - 1) + 1, Len(lines))
               = SubSeq(lines, 1, Len(lines))
        <3>1. /\ 1 \in 1 .. Len(lines) + 1 /\ starts[1] - 1 \in 1 - 1 .. Len(lines)
              /\ Len(lines) \in starts[1] - 1 .. Len(lines)
            BY <1>1, <1>2, <2>9
        <3> QED BY <1>2, <3>1, ConcatAdjacentSubSeq
    <2>12. (starts[1] - 1) + 1 = starts[1]
        BY <2>9
    <2>13. SubSeq(lines, 1, Len(lines)) = lines
        BY <1>2, SubSeqFull
    <2> HIDE DEF before
    <2>14. Slice(lines, 1, before) \o FlattenSeq(parts) = lines
        BY <2>6, <2>7, <2>9, <2>10, <2>11, <2>12, <2>13
    <2> QED BY <2>14 DEF before, parts, items
<1> QED BY <1>5, <1>6

\* A truncated answer and the rest are the text (tools.rs, docs_get).
LEMMA TruncatedGoesOn ==
    ASSUME NEW S, NEW lines \in Seq(S)
    PROVE  Truncated(lines)
              \o (IF Len(lines) > MaxLines THEN Slice(lines, MaxLines + 1, NoEnd) ELSE <<>>)
           = lines
<1>1. Len(lines) \in Nat /\ MaxLines \in Nat
    BY LenProperties, OutlineAssumption DEF OutlineAssumption
<1>2. Min({MaxLines, Len(lines)}) = IF MaxLines < Len(lines) THEN MaxLines ELSE Len(lines)
    BY <1>1, MinOfTwo
<1>3. SubSeq(lines, 1, Len(lines)) = lines
    BY SubSeqFull
<1>4. CASE Len(lines) > MaxLines
    <2>1. Truncated(lines) = SubSeq(lines, 1, MaxLines)
        BY <1>1, <1>2, <1>4 DEF Truncated
    <2>2. Slice(lines, MaxLines + 1, NoEnd) = SubSeq(lines, MaxLines + 1, Len(lines))
        <3>1. MaxLines + 1 \in Nat /\ MaxLines + 1 > 0
            BY <1>1
        <3> QED BY <1>1, <3>1, SliceIs
    <2>3. SubSeq(lines, 1, MaxLines) \o SubSeq(lines, MaxLines + 1, Len(lines))
              = SubSeq(lines, 1, Len(lines))
        <3>1. /\ 1 \in 1 .. Len(lines) + 1 /\ MaxLines \in 1 - 1 .. Len(lines)
              /\ Len(lines) \in MaxLines .. Len(lines)
            BY <1>1, <1>4
        <3> QED BY <3>1, ConcatAdjacentSubSeq
    <2> QED BY <1>3, <1>4, <2>1, <2>2, <2>3
<1>5. CASE ~ (Len(lines) > MaxLines)
    <2>1. Truncated(lines) = lines
        BY <1>1, <1>2, <1>3, <1>5 DEF Truncated
    <2>2. lines \o <<>> = lines
        BY ConcatEmptySeq
    <2> QED BY <1>5, <2>1, <2>2
<1> QED BY <1>4, <1>5

\* The greatest number of a set within 0 .. n.
LEMMA MaxWithin ==
    ASSUME NEW n \in Nat, NEW A, A \subseteq 0 .. n, A # {}
    PROVE  Max(A) \in 0 .. n
<1>1. A \subseteq Int /\ n \in Int /\ \A x \in A : x <= n
    OBVIOUS
<1>2. Max(A) \in A
    BY <1>1, MaxExists
<1> QED BY <1>2

\* The headings of every format are in the order of their lines.
LEMMA StructureInOrder ==
    ASSUME OutlineInv
    PROVE  InOrder(Structure.total, Structure.headings)
<1>1. CASE format = "rst"
    <2>1. IsList(out)
        BY <1>1 DEF OutlineInv
    <2> DEFINE A == {0} \union {k \in DOMAIN out : out[k].mark /= "blank"}
    <2>2. Len(out) \in Nat /\ DOMAIN out = 1 .. Len(out)
        BY <2>1, ListFacts
    <2>3. A \subseteq 0 .. Len(out) /\ A # {}
        BY <2>2
    <2>4. \A n \in 0 .. Len(out) : Len(SubSeq(out, 1, n)) \in Nat
        BY <2>1, <2>2, ListFacts
    <2>5. Max(A) \in 0 .. Len(out)
        <3> HIDE DEF A
        <3> QED BY <2>2, <2>3, MaxWithin
    <2>6. Markdown = SubSeq(out, 1, Max(A))
        BY DEF Markdown
    <2>8. Len(Markdown) \in Nat
        <3> HIDE DEF A
        <3> QED BY <2>4, <2>5, <2>6
    <2>9. Structure = ScanMarkdown(Markdown)
        BY <1>1 DEF Structure
    <2> QED BY <2>8, <2>9, ScanMarkdownInOrder
<1>2. CASE format # "rst"
    BY <1>2 DEF OutlineInv, Structure
<1> QED BY <1>1, <1>2

\* The invariant implies SlicesPartition.
LEMMA InvPartitions == OutlineInv => SlicesPartition
<1> SUFFICES ASSUME OutlineInv PROVE SlicesPartition
    OBVIOUS
<1> DEFINE s == Structure
           lines == [k \in 1 .. s.total |-> k]
<1>1. InOrder(s.total, s.headings)
    BY StructureInOrder
<1>2. s.total \in Nat
    BY <1>1 DEF InOrder
<1> HIDE DEF s
<1>3. lines \in Seq(Nat) /\ Len(lines) = s.total
    <2>1. lines \in [1 .. s.total -> Nat]
        BY <1>2
    <2>2. lines \in Seq(Nat)
        BY <1>2, <2>1
    <2> HIDE DEF lines
    <2> QED BY <1>2, <2>1, <2>2, LenProperties
<1>4. LET items == HeadingItems(s)
          before == IF items = <<>> THEN s.total ELSE items[1].start - 1
      IN Slice(lines, 1, before)
            \o FlattenSeq([k \in DOMAIN items |-> Slice(lines, items[k].start, items[k].end)])
         = lines
    BY <1>1, SlicesMakeUp
<1>5. Truncated(lines)
         \o (IF s.total > MaxLines THEN Slice(lines, MaxLines + 1, NoEnd) ELSE <<>>) = lines
    <2> HIDE DEF lines
    <2>1. Truncated(lines)
             \o (IF Len(lines) > MaxLines THEN Slice(lines, MaxLines + 1, NoEnd) ELSE <<>>) = lines
        BY <1>3, TruncatedGoesOn
    <2> QED BY <1>3, <2>1
<1> QED BY <1>4, <1>5 DEF SlicesPartition, s

\* Whoever follows the headings sees every line once, in texts of any length
\* and all their formats.
THEOREM SlicesMakeUpText == Spec => []SlicesPartition
<1> QED BY OutlineInit, OutlineStep, InvPartitions, PTL DEF Spec

-----------------------------------------------------------------------------
(* Texts of Python.                                                        *)

IsPython(src) == src \in Seq([kind : {"class", "def", "other"}, depth : Nat])

ItemsOf(src) == {i \in DOMAIN src : src[i].kind # "other"}

\* All items after i up to j are deeper: what the scanner takes for "in i".
InItem(src, i, j) == \A m \in ItemsOf(src) : i < m /\ m <= j => src[m].depth > src[i].depth

Around(src, j, S) == {i \in ItemsOf(src) : src[i].kind \in S /\ i < j /\ InItem(src, i, j)}

LevelOf(src, j) ==
    IF src[j].kind = "class" THEN U8(Cardinality(Around(src, j, {"class", "def"})) + 1)
    ELSE U8(Cardinality(Around(src, j, {"def"})) + 2)

\* A line more changes nothing between the lines before it.
LEMMA LineAdded ==
    ASSUME NEW src, IsPython(src),
           NEW line \in [kind : {"class", "def", "other"}, depth : Nat]
    PROVE  LET new == Append(src, line)
               n == Len(src)
           IN /\ n \in Nat /\ IsPython(new) /\ Len(new) = n + 1
              /\ ItemsOf(src) \subseteq 1 .. n
              /\ ItemsOf(new) = ItemsOf(src) \cup (IF line.kind = "other" THEN {} ELSE {n + 1})
              /\ line.kind = "other" => ItemsOf(new) = ItemsOf(src)
              /\ new[n + 1] = line
              /\ \A i \in ItemsOf(src) : new[i] = src[i] /\ src[i].kind \in {"class", "def"}
                                                        /\ src[i].depth \in Nat
<1> DEFINE new == Append(src, line)
           n == Len(src)
           Lines == [kind : {"class", "def", "other"}, depth : Nat]
<1>1. src \in Seq(Lines) /\ line \in Lines
    BY DEF IsPython
<1> HIDE DEF Lines
<1>2. n \in Nat /\ DOMAIN src = 1 .. n /\ \A i \in 1 .. n : src[i] \in Lines
    BY <1>1, LenProperties, ElementOfSeq
<1>3. /\ new \in Seq(Lines) /\ Len(new) = n + 1
      /\ \A i \in 1 .. n : new[i] = src[i]
      /\ new[n + 1] = line
    BY <1>1, AppendProperties
<1>4. DOMAIN new = 1 .. n + 1
    BY <1>3, LenProperties
<1> HIDE DEF new, n
<1>5. ItemsOf(src) \subseteq 1 .. n
    BY <1>2 DEF ItemsOf
<1>6. ItemsOf(new) = ItemsOf(src) \cup (IF line.kind = "other" THEN {} ELSE {n + 1})
    <2>1. ASSUME NEW i \in 1 .. n + 1
          PROVE  i \in ItemsOf(new)
                     <=> i \in ItemsOf(src) \cup (IF line.kind = "other" THEN {} ELSE {n + 1})
        <3>1. CASE i = n + 1
            <4>1. i \notin ItemsOf(src)
                BY <1>2, <1>5, <3>1
            <4>2. i \in ItemsOf(new) <=> line.kind # "other"
                BY <1>3, <1>4, <3>1 DEF ItemsOf
            <4> QED BY <3>1, <4>1, <4>2
        <3>2. CASE i # n + 1
            <4>1. i \in 1 .. n
                BY <1>2, <3>2
            <4>2. i \in ItemsOf(new) <=> i \in ItemsOf(src)
                BY <1>2, <1>3, <1>4, <4>1 DEF ItemsOf
            <4> QED BY <3>2, <4>2
        <3> QED BY <3>1, <3>2
    <2>2. ItemsOf(new) \subseteq 1 .. n + 1
        BY <1>4 DEF ItemsOf
    <2>3. ItemsOf(src) \subseteq 1 .. n + 1 /\ n + 1 \in 1 .. n + 1
        BY <1>2, <1>5
    <2> QED BY <2>1, <2>2, <2>3
<1>7. \A i \in ItemsOf(src) : new[i] = src[i] /\ src[i].kind \in {"class", "def"}
                                             /\ src[i].depth \in Nat
    <2>1. ASSUME NEW i \in ItemsOf(src)
          PROVE  new[i] = src[i] /\ src[i].kind \in {"class", "def"} /\ src[i].depth \in Nat
        <3>1. i \in 1 .. n /\ src[i].kind # "other"
            BY <1>5 DEF ItemsOf
        <3> QED BY <1>2, <1>3, <3>1 DEF Lines
    <2> QED BY <2>1
<1>8. IsPython(new)
    BY <1>3 DEF IsPython, Lines
<1>9. line.kind = "other" => ItemsOf(new) = ItemsOf(src)
    BY <1>6
<1> QED BY <1>2, <1>3, <1>5, <1>6, <1>7, <1>8, <1>9 DEF new, n

\* An item stays open if the added line is no item or a deeper one.
LEMMA InItemAdded ==
    ASSUME NEW src, IsPython(src),
           NEW line \in [kind : {"class", "def", "other"}, depth : Nat],
           NEW i \in ItemsOf(src)
    PROVE  LET new == Append(src, line)
               n == Len(src)
           IN /\ \A j \in 1 .. n : InItem(new, i, j) <=> InItem(src, i, j)
              /\ InItem(new, i, n + 1)
                     <=> InItem(src, i, n) /\ (line.kind # "other" => src[i].depth < line.depth)
<1> DEFINE new == Append(src, line)
           n == Len(src)
<1>1. /\ n \in Nat /\ ItemsOf(src) \subseteq 1 .. n
      /\ ItemsOf(new) = ItemsOf(src) \cup (IF line.kind = "other" THEN {} ELSE {n + 1})
      /\ new[n + 1] = line
      /\ \A m \in ItemsOf(src) : new[m] = src[m] /\ src[m].depth \in Nat
    BY LineAdded
<1>2. line.depth \in Nat
    OBVIOUS
<1> HIDE DEF new, n
<1>3. \A m \in ItemsOf(src) : m <= n /\ m \in Nat /\ m # n + 1
    BY <1>1
<1>4. ASSUME NEW j \in 1 .. n
      PROVE  InItem(new, i, j) <=> InItem(src, i, j)
    <2>1. ~ (n + 1 <= j) /\ new[i] = src[i]
        BY <1>1
    <2> QED BY <1>1, <2>1 DEF InItem
<1>5. InItem(new, i, n + 1)
          <=> InItem(src, i, n) /\ (line.kind # "other" => src[i].depth < line.depth)
    <2>1. new[i] = src[i] /\ i < n + 1 /\ i \in Nat /\ n + 1 \in Nat /\ n + 1 <= n + 1
        BY <1>1, <1>3
    <2>2. \A m \in ItemsOf(src) : m <= n + 1 /\ m <= n
        BY <1>1, <1>3
    <2>3. InItem(new, i, n + 1)
              <=> \A m \in ItemsOf(new) : i < m => new[m].depth > src[i].depth
        <3>1. \A m \in ItemsOf(new) : m <= n + 1
            BY <1>1, <2>1, <2>2
        <3> QED BY <2>1, <3>1 DEF InItem
    <2>4. InItem(src, i, n) <=> \A m \in ItemsOf(src) : i < m => src[m].depth > src[i].depth
        BY <2>2 DEF InItem
    <2>5. (\A m \in ItemsOf(new) : i < m => new[m].depth > src[i].depth)
              <=> /\ \A m \in ItemsOf(src) : i < m => src[m].depth > src[i].depth
                  /\ line.kind # "other" => line.depth > src[i].depth
        BY <1>1, <2>1
    <2>6. line.depth > src[i].depth <=> src[i].depth < line.depth
        BY <1>1, <1>2
    <2> QED BY <2>3, <2>4, <2>5, <2>6
<1> QED BY <1>4, <1>5 DEF new, n

\* A line more does not change the level of an item before it.
LEMMA LevelStays ==
    ASSUME NEW src, IsPython(src),
           NEW line \in [kind : {"class", "def", "other"}, depth : Nat],
           NEW j \in ItemsOf(src)
    PROVE  LevelOf(Append(src, line), j) = LevelOf(src, j)
<1> DEFINE new == Append(src, line)
           n == Len(src)
<1>1. /\ n \in Nat /\ j \in 1 .. n /\ n + 1 \in Nat
      /\ ItemsOf(new) = ItemsOf(src) \cup (IF line.kind = "other" THEN {} ELSE {n + 1})
      /\ \A i \in ItemsOf(src) : new[i] = src[i]
    BY LineAdded
<1>2. \A i \in ItemsOf(src) : InItem(new, i, j) <=> InItem(src, i, j)
    BY <1>1, InItemAdded
<1>3. ~ (n + 1 < j)
    BY <1>1
<1> HIDE DEF new, n
<1>4. ASSUME NEW S PROVE Around(new, j, S) = Around(src, j, S)
    BY <1>1, <1>2, <1>3 DEF Around
<1>5. new[j] = src[j]
    BY <1>1
<1>6. LevelOf(new, j) = LevelOf(src, j)
    BY <1>4, <1>5 DEF LevelOf
<1> QED BY <1>6 DEF new

\* The stack holds the items that everything since is in, p says which.
StackShows(src, stack, p) ==
    /\ IsList(stack)
    /\ p \in [1 .. Len(stack) -> ItemsOf(src)]
    /\ \A k, m \in 1 .. Len(stack) : k < m => p[k] < p[m]
    /\ \A k \in 1 .. Len(stack) : stack[k].kind = src[p[k]].kind /\ stack[k].at = src[p[k]].depth
    /\ \A k \in 1 .. Len(stack) : InItem(src, p[k], Len(src))
    /\ \A i \in ItemsOf(src) : InItem(src, i, Len(src)) => \E k \in 1 .. Len(stack) : p[k] = i

\* The first M blocks are left, those that were opened before the depth d.
Popped(stack, d, M, open) ==
    /\ M \in 0 .. Len(stack) /\ IsList(open) /\ Len(open) = M
    /\ \A k \in 1 .. M : open[k] = stack[k]
    /\ \A k \in 1 .. Len(stack) : k <= M <=> stack[k].at < d

\* What is popped from a stack of blocks that are opened deeper and deeper.
LEMMA PopIs ==
    ASSUME NEW stack, IsList(stack), NEW d \in Nat,
           \A k \in 1 .. Len(stack) : stack[k].at \in Nat,
           \A k, m \in 1 .. Len(stack) : k < m => stack[k].at < stack[m].at
    PROVE  \E M : Popped(stack, d, M, PopClosed(stack, d))
<1> DEFINE A == {0} \union {k \in DOMAIN stack : stack[k].at < d}
           n == Len(stack)
           M == Max(A)
<1>1. n \in Nat /\ DOMAIN stack = 1 .. n
    BY ListFacts
<1>2. A \subseteq Int /\ A # {} /\ n \in Int /\ \A x \in A : x <= n
    BY <1>1
<1>3. M \in A /\ \A x \in A : x <= M
    <2> HIDE DEF A
    <2> QED BY <1>2, MaxExists
<1>4. PopClosed(stack, d) = SubSeq(stack, 1, M)
    BY DEF PopClosed
<1> HIDE DEF M
<1>5. M \in 0 .. n
    BY <1>1, <1>3
<1>6. ASSUME NEW k \in 1 .. n PROVE k <= M <=> stack[k].at < d
    <2>1. stack[k].at < d => k <= M
        BY <1>1, <1>3
    <2>2. ASSUME k <= M PROVE stack[k].at < d
        <3>1. M \in 1 .. n /\ stack[M].at < d
            BY <1>1, <1>3, <1>5, <2>2
        <3>2. k < M => stack[k].at < stack[M].at
            BY <1>1, <3>1
        <3>3. stack[k].at \in Nat /\ stack[M].at \in Nat
            BY <3>1
        <3>4. k = M \/ k < M
            BY <1>1, <2>2, <3>1
        <3>5. CASE k = M
            BY <3>1, <3>5
        <3>6. CASE k < M
            <4> HIDE DEF A, n
            <4> QED BY <3>1, <3>2, <3>3, <3>6
        <3> QED BY <3>4, <3>5, <3>6
    <2> QED BY <2>1, <2>2
<1>7. IsList(SubSeq(stack, 1, M)) /\ Len(SubSeq(stack, 1, M)) = M
    <2>1. M \in Nat /\ M <= Len(stack)
        BY <1>1, <1>5
    <2> QED BY <2>1, ListFacts
<1>8. \A k \in 1 .. M : SubSeq(stack, 1, M)[k] = stack[k]
    <2>1. PICK S : stack \in Seq(S)
        BY DEF IsList
    <2>2. \A i \in 1 .. M : stack[i] \in S
        <3>1. \A i \in 1 .. M : i \in 1 .. n
            BY <1>1, <1>5
        <3> QED BY <2>1, <3>1, ElementOfSeq
    <2>3. \A i \in 1 .. M - 1 + 1 : SubSeq(stack, 1, M)[i] = stack[1 + i - 1]
        <3>1. 1 \in Int /\ M \in Int
            BY <1>1, <1>5
        <3> HIDE DEF A, n
        <3> QED BY <2>2, <3>1, SubSeqProperties
    <2>4. \A k \in 1 .. M : k \in 1 .. M - 1 + 1 /\ 1 + k - 1 = k
        BY <1>1, <1>5
    <2> QED BY <2>3, <2>4
<1> QED BY <1>4, <1>5, <1>6, <1>7, <1>8 DEF Popped

\* The blocks on the stack are deeper and deeper.
LEMMA StackDeepens ==
    ASSUME NEW src, IsPython(src), NEW stack, NEW p, StackShows(src, stack, p)
    PROVE  /\ Len(src) \in Nat /\ ItemsOf(src) \subseteq 1 .. Len(src)
           /\ \A k \in 1 .. Len(stack) :
                 /\ p[k] \in ItemsOf(src) /\ p[k] \in 1 .. Len(src)
                 /\ stack[k].at \in Nat /\ stack[k].kind \in {"class", "def"}
           /\ \A k, m \in 1 .. Len(stack) : k < m => stack[k].at < stack[m].at
<1>0. [kind |-> "other", depth |-> 0] \in [kind : {"class", "def", "other"}, depth : Nat]
    OBVIOUS
<1>1. /\ Len(src) \in Nat /\ ItemsOf(src) \subseteq 1 .. Len(src)
      /\ \A i \in ItemsOf(src) : src[i].kind \in {"class", "def"} /\ src[i].depth \in Nat
    BY <1>0, LineAdded
<1>2. \A k \in 1 .. Len(stack) :
          /\ p[k] \in ItemsOf(src) /\ p[k] \in 1 .. Len(src)
          /\ stack[k].at \in Nat /\ stack[k].kind \in {"class", "def"}
    BY <1>1 DEF StackShows
<1>3. ASSUME NEW k \in 1 .. Len(stack), NEW m \in 1 .. Len(stack), k < m
      PROVE  stack[k].at < stack[m].at
    <2>1. p[k] < p[m] /\ InItem(src, p[k], Len(src))
        BY <1>3 DEF StackShows
    <2>2. p[m] \in ItemsOf(src) /\ p[m] <= Len(src)
        BY <1>1, <1>2
    <2>3. src[p[m]].depth > src[p[k]].depth
        BY <2>1, <2>2 DEF InItem
    <2>4. stack[k].at = src[p[k]].depth /\ stack[m].at = src[p[m]].depth
        BY DEF StackShows
    <2>5. stack[k].at \in Nat /\ stack[m].at \in Nat
        BY <1>2
    <2> QED BY <2>3, <2>4, <2>5
<1> QED BY <1>1, <1>2, <1>3

\* A line that is not an item leaves the stack.
LEMMA StackStays ==
    ASSUME NEW src, IsPython(src), NEW stack, NEW p, StackShows(src, stack, p),
           NEW line \in [kind : {"class", "def", "other"}, depth : Nat], line.kind = "other"
    PROVE  StackShows(Append(src, line), stack, p)
<1> DEFINE new == Append(src, line)
           n == Len(src)
<1>1. /\ Len(new) = n + 1 /\ ItemsOf(new) = ItemsOf(src)
      /\ \A i \in ItemsOf(src) : new[i] = src[i]
    BY LineAdded
<1>2. \A i \in ItemsOf(src) : InItem(new, i, n + 1) <=> InItem(src, i, n)
    BY InItemAdded
<1>3. \A k \in 1 .. Len(stack) : p[k] \in ItemsOf(src)
    BY DEF StackShows
<1>4. /\ IsList(stack)
      /\ p \in [1 .. Len(stack) -> ItemsOf(src)]
      /\ \A k, m \in 1 .. Len(stack) : k < m => p[k] < p[m]
      /\ \A k \in 1 .. Len(stack) : stack[k].kind = src[p[k]].kind /\ stack[k].at = src[p[k]].depth
      /\ \A k \in 1 .. Len(stack) : InItem(src, p[k], n)
      /\ \A i \in ItemsOf(src) : InItem(src, i, n) => \E k \in 1 .. Len(stack) : p[k] = i
    BY DEF StackShows
<1> HIDE DEF new, n
<1>5. \A k \in 1 .. Len(stack) : stack[k].kind = new[p[k]].kind /\ stack[k].at = new[p[k]].depth
    BY <1>1, <1>3, <1>4
<1>6. \A k \in 1 .. Len(stack) : InItem(new, p[k], n + 1)
    BY <1>2, <1>3, <1>4
<1>7. \A i \in ItemsOf(new) : InItem(new, i, n + 1) => \E k \in 1 .. Len(stack) : p[k] = i
    BY <1>1, <1>2, <1>4
<1>8. StackShows(new, stack, p)
    BY <1>1, <1>4, <1>5, <1>6, <1>7 DEF StackShows
<1> QED BY <1>8 DEF new

\* An item closes the blocks that are as deep and opens its own.
LEMMA StackPushed ==
    ASSUME NEW src, IsPython(src), NEW stack, NEW p, StackShows(src, stack, p),
           NEW line \in [kind : {"class", "def", "other"}, depth : Nat], line.kind # "other",
           NEW M, NEW open, Popped(stack, line.depth, M, open)
    PROVE  \E q : StackShows(Append(src, line), Push(open, line.kind, line.depth), q)
<1>0. /\ M \in 0 .. Len(stack) /\ IsList(open) /\ Len(open) = M
      /\ \A k \in 1 .. M : open[k] = stack[k]
      /\ \A k \in 1 .. Len(stack) : k <= M <=> stack[k].at < line.depth
    BY DEF Popped
<1> USE <1>0
<1> DEFINE new == Append(src, line)
           n == Len(src)
           entry == [kind |-> line.kind, at |-> line.depth]
           pushed == Push(open, line.kind, line.depth)
           q == [k \in 1 .. M + 1 |-> IF k = M + 1 THEN n + 1 ELSE p[k]]
<1>1. /\ n \in Nat /\ Len(new) = n + 1 /\ ItemsOf(src) \subseteq 1 .. n
      /\ ItemsOf(new) = ItemsOf(src) \cup {n + 1}
      /\ new[n + 1] = line
      /\ \A i \in ItemsOf(src) : new[i] = src[i]
    BY LineAdded
<1>2. \A i \in ItemsOf(src) :
          InItem(new, i, n + 1) <=> InItem(src, i, n) /\ src[i].depth < line.depth
    BY InItemAdded
<1>3. /\ Len(stack) \in Nat /\ M \in Nat
      /\ \A k \in 1 .. M : k \in 1 .. Len(stack) /\ k \in 1 .. M + 1 /\ k # M + 1
      /\ M + 1 \in 1 .. M + 1
      /\ \A k \in 1 .. M + 1 : k # M + 1 => k \in 1 .. M
    <2>1. IsList(stack)
        BY DEF StackShows
    <2>2. Len(stack) \in Nat
        BY <2>1, ListFacts
    <2> QED BY <2>2
<1>4. /\ IsList(pushed) /\ Len(pushed) = M + 1
      /\ \A k \in 1 .. M : pushed[k] = stack[k]
      /\ pushed[M + 1] = entry
    BY ListAppend DEF Push
<1>5. entry.kind = line.kind /\ entry.at = line.depth
    OBVIOUS
<1>6. \A k \in 1 .. Len(stack) :
          /\ p[k] \in ItemsOf(src) /\ p[k] \in 1 .. n
          /\ stack[k].kind = src[p[k]].kind /\ stack[k].at = src[p[k]].depth
          /\ InItem(src, p[k], n)
    <2>1. \A k \in 1 .. Len(stack) : p[k] \in ItemsOf(src) /\ p[k] \in 1 .. n
        BY StackDeepens
    <2>2. \A k \in 1 .. Len(stack) :
              /\ stack[k].kind = src[p[k]].kind /\ stack[k].at = src[p[k]].depth
              /\ InItem(src, p[k], n)
        BY DEF StackShows
    <2> QED BY <2>1, <2>2
<1>7. q[M + 1] = n + 1 /\ \A k \in 1 .. M : q[k] = p[k]
    BY <1>3
<1>8. q \in [1 .. M + 1 -> ItemsOf(new)]
    BY <1>1, <1>3, <1>6
<1> HIDE DEF new, n, entry, pushed, q
<1>9. ASSUME NEW k \in 1 .. M + 1
      PROVE  /\ pushed[k].kind = new[q[k]].kind /\ pushed[k].at = new[q[k]].depth
             /\ InItem(new, q[k], n + 1)
    <2>1. CASE k = M + 1
        <3>1. pushed[k] = entry /\ q[k] = n + 1 /\ new[q[k]] = line
            BY <1>1, <1>4, <1>7, <2>1
        <3>2. InItem(new, n + 1, n + 1)
            <4>1. \A m \in ItemsOf(new) : m \in 1 .. n + 1
                BY <1>1
            <4> QED BY <1>1, <4>1 DEF InItem
        <3> QED BY <1>5, <3>1, <3>2
    <2>2. CASE k # M + 1
        <3>1. k \in 1 .. M /\ k \in 1 .. Len(stack) /\ q[k] = p[k] /\ pushed[k] = stack[k] /\ k <= M
            BY <1>3, <1>4, <1>7, <2>2
        <3>2. p[k] \in ItemsOf(src) /\ new[p[k]] = src[p[k]] /\ InItem(src, p[k], n)
              /\ stack[k].kind = src[p[k]].kind /\ stack[k].at = src[p[k]].depth
            BY <1>1, <1>6, <3>1
        <3>3. stack[k].at < line.depth
            BY <3>1
        <3> QED BY <1>2, <3>1, <3>2, <3>3
    <2> QED BY <2>1, <2>2
<1>10. ASSUME NEW k \in 1 .. M + 1, NEW m \in 1 .. M + 1, k < m
       PROVE  q[k] < q[m]
    <2>1. k \in 1 .. M /\ k \in 1 .. Len(stack) /\ q[k] = p[k] /\ p[k] \in 1 .. n
        <3>1. k # M + 1
            BY <1>3, <1>10
        <3> QED BY <1>3, <1>6, <1>7, <3>1
    <2>2. CASE m = M + 1
        BY <1>1, <1>7, <2>1, <2>2
    <2>3. CASE m # M + 1
        <3>1. m \in 1 .. M /\ m \in 1 .. Len(stack) /\ q[m] = p[m]
            BY <1>3, <1>7, <2>3
        <3>2. p[k] < p[m]
            BY <1>10, <2>1, <3>1 DEF StackShows
        <3> QED BY <2>1, <3>1, <3>2
    <2> QED BY <2>2, <2>3
<1>11. ASSUME NEW i \in ItemsOf(new), InItem(new, i, n + 1)
       PROVE  \E k \in 1 .. M + 1 : q[k] = i
    <2>1. CASE i = n + 1
        BY <1>3, <1>7, <2>1
    <2>2. CASE i # n + 1
        <3>1. i \in ItemsOf(src)
            BY <1>1, <2>2
        <3>2. InItem(src, i, n) /\ src[i].depth < line.depth
            BY <1>2, <1>11, <3>1
        <3>3. PICK k \in 1 .. Len(stack) : p[k] = i
            BY <3>1, <3>2 DEF StackShows, n
        <3>4. stack[k].at < line.depth
            BY <1>6, <3>2, <3>3
        <3>5. k \in 1 .. M
            BY <1>3, <3>4
        <3> QED BY <1>3, <1>7, <3>3, <3>5
    <2> QED BY <2>1, <2>2
<1>12. StackShows(new, pushed, q)
    BY <1>1, <1>4, <1>8, <1>9, <1>10, <1>11 DEF StackShows
<1> QED BY <1>12 DEF new, pushed

\* The level of a new heading counts the items that the stack holds.
LEMMA NewLevel ==
    ASSUME NEW src, IsPython(src), NEW stack, NEW p, StackShows(src, stack, p),
           NEW line \in [kind : {"class", "def", "other"}, depth : Nat], line.kind # "other",
           NEW M, NEW open, Popped(stack, line.depth, M, open)
    PROVE  PythonLevel(Kinds(open), line.kind) = LevelOf(Append(src, line), Len(src) + 1)
<1>0. /\ M \in 0 .. Len(stack) /\ IsList(open) /\ Len(open) = M
      /\ \A k \in 1 .. M : open[k] = stack[k]
      /\ \A k \in 1 .. Len(stack) : k <= M <=> stack[k].at < line.depth
    BY DEF Popped
<1> USE <1>0
<1> DEFINE new == Append(src, line)
           n == Len(src)
           kinds == Kinds(open)
<1>1. /\ n \in Nat /\ ItemsOf(src) \subseteq 1 .. n
      /\ ItemsOf(new) = ItemsOf(src) \cup {n + 1}
      /\ new[n + 1] = line
      /\ \A i \in ItemsOf(src) : new[i] = src[i]
    BY LineAdded
<1>2. \A i \in ItemsOf(src) :
          InItem(new, i, n + 1) <=> InItem(src, i, n) /\ src[i].depth < line.depth
    BY InItemAdded
<1>3. /\ Len(stack) \in Nat /\ M \in Nat /\ \A k \in 1 .. M : k \in 1 .. Len(stack)
    <2>1. IsList(stack)
        BY DEF StackShows
    <2>2. Len(stack) \in Nat
        BY <2>1, ListFacts
    <2> QED BY <2>2
<1>4. \A k \in 1 .. Len(stack) :
          /\ p[k] \in ItemsOf(src) /\ p[k] \in 1 .. n
          /\ stack[k].kind = src[p[k]].kind /\ stack[k].at = src[p[k]].depth
          /\ stack[k].kind \in {"class", "def"}
          /\ InItem(src, p[k], n)
    <2>1. \A k \in 1 .. Len(stack) :
              /\ p[k] \in ItemsOf(src) /\ p[k] \in 1 .. n
              /\ stack[k].kind \in {"class", "def"}
        BY StackDeepens
    <2>2. \A k \in 1 .. Len(stack) :
              /\ stack[k].kind = src[p[k]].kind /\ stack[k].at = src[p[k]].depth
              /\ InItem(src, p[k], n)
        BY DEF StackShows
    <2> QED BY <2>1, <2>2
<1>5. /\ DOMAIN kinds = 1 .. M /\ Len(kinds) = M
      /\ \A k \in 1 .. M : kinds[k] = stack[k].kind
    <2>1. DOMAIN open = 1 .. M
        BY ListFacts
    <2>2. DOMAIN kinds = 1 .. M /\ kinds = [k \in 1 .. M |-> kinds[k]]
        BY <2>1 DEF Kinds
    <2>3. \A k \in 1 .. M : kinds[k] = stack[k].kind
        BY <2>1 DEF Kinds
    <2> HIDE DEF kinds
    <2> QED BY <1>3, <2>2, <2>3, ListOf
<1> HIDE DEF new, n, kinds
<1>6. ASSUME NEW S
      PROVE  Cardinality(Around(new, n + 1, S)) = Cardinality({k \in 1 .. M : stack[k].kind \in S})
    <2> DEFINE K == {k \in 1 .. M : stack[k].kind \in S}
               T == Around(new, n + 1, S)
               f == [k \in K |-> p[k]]
    <2>1. ASSUME NEW k \in K PROVE p[k] \in T
        <3>1. k \in 1 .. M /\ k \in 1 .. Len(stack) /\ stack[k].kind \in S /\ k <= M
            BY <1>3
        <3>2. p[k] \in ItemsOf(src) /\ p[k] \in 1 .. n /\ new[p[k]] = src[p[k]]
              /\ p[k] \in ItemsOf(new)
            BY <1>1, <1>4, <3>1
        <3>3. InItem(src, p[k], n) /\ src[p[k]].depth < line.depth /\ src[p[k]].kind \in S
            BY <1>4, <3>1
        <3>4. InItem(new, p[k], n + 1)
            BY <1>2, <3>2, <3>3
        <3>5. p[k] < n + 1
            BY <1>1, <3>2
        <3> QED BY <3>2, <3>3, <3>4, <3>5 DEF Around
    <2>2. ASSUME NEW i \in T PROVE \E k \in K : p[k] = i
        <3>1. i \in ItemsOf(new) /\ new[i].kind \in S /\ i < n + 1 /\ InItem(new, i, n + 1)
            BY DEF Around
        <3>2. i \in ItemsOf(src) /\ new[i] = src[i]
            BY <1>1, <3>1
        <3>3. InItem(src, i, n) /\ src[i].depth < line.depth
            BY <1>2, <3>1, <3>2
        <3>4. PICK k \in 1 .. Len(stack) : p[k] = i
            BY <3>2, <3>3 DEF StackShows, n
        <3>5. stack[k].at < line.depth /\ stack[k].kind \in S
            BY <1>4, <3>1, <3>2, <3>3, <3>4
        <3>6. k \in 1 .. M
            BY <1>3, <3>5
        <3> QED BY <3>4, <3>5, <3>6
    <2>3. ASSUME NEW k \in K, NEW m \in K, p[k] = p[m] PROVE k = m
        <3>1. k \in 1 .. Len(stack) /\ m \in 1 .. Len(stack)
            BY <1>3
        <3>2. p[k] \in 1 .. n /\ p[m] \in 1 .. n
            BY <1>4, <3>1
        <3>3. (k < m => p[k] < p[m]) /\ (m < k => p[m] < p[k])
            BY <3>1 DEF StackShows
        <3>4. p[k] \in Nat /\ ~ (p[k] < p[m]) /\ ~ (p[m] < p[k])
            BY <1>1, <2>3, <3>2
        <3>5. ~ (k < m) /\ ~ (m < k)
            BY <3>3, <3>4
        <3> HIDE DEF K
        <3> QED BY <1>3, <3>1, <3>5
    <2>4. IsFiniteSet(K)
        <3>1. IsFiniteSet(1 .. M)
            BY <1>3, FS_Interval
        <3>2. K \in SUBSET (1 .. M)
            OBVIOUS
        <3> QED BY <3>1, <3>2, FS_Subset
    <2> HIDE DEF K, T
    <2>5. f \in Bijection(K, T)
        <3>1. f \in [K -> T]
            BY <2>1
        <3>2. \A k, m \in K : f[k] = f[m] => k = m
            BY <2>3
        <3>3. \A i \in T : \E k \in K : f[k] = i
            BY <2>2
        <3> HIDE DEF f
        <3> QED BY <3>1, <3>2, <3>3 DEF Bijection, Injection, Surjection, IsInjective
    <2>6. ExistsBijection(K, T)
        <3> HIDE DEF f
        <3> QED BY <2>5 DEF ExistsBijection
    <2>7. Cardinality(T) = Cardinality(K)
        BY <2>4, <2>6, FS_Bijection
    <2> QED BY <2>7 DEF K, T
<1>7. {k \in 1 .. M : stack[k].kind \in {"class", "def"}} = 1 .. M
    BY <1>3, <1>4
<1>8. Cardinality(1 .. M) = M
    <2>1. Cardinality(1 .. M) = IF 1 > M THEN 0 ELSE M - 1 + 1
        BY <1>3, FS_Interval
    <2> QED BY <1>3, <2>1
<1>9. Count(kinds, {"def"}) = Cardinality({k \in 1 .. M : stack[k].kind \in {"def"}})
    <2>1. {k \in DOMAIN kinds : kinds[k] \in {"def"}} = {k \in 1 .. M : stack[k].kind \in {"def"}}
        BY <1>5
    <2> QED BY <2>1 DEF Count
<1>10. CASE line.kind = "class"
    <2>1. PythonLevel(kinds, line.kind) = U8(M + 1)
        BY <1>5, <1>10 DEF PythonLevel
    <2>2. LevelOf(new, n + 1) = U8(Cardinality(Around(new, n + 1, {"class", "def"})) + 1)
        BY <1>1, <1>10 DEF LevelOf
    <2>3. Cardinality(Around(new, n + 1, {"class", "def"})) = M
        BY <1>6, <1>7, <1>8
    <2> QED BY <2>1, <2>2, <2>3 DEF new, n, kinds
<1>11. CASE line.kind # "class"
    <2>1. PythonLevel(kinds, line.kind) = U8(Count(kinds, {"def"}) + 2)
        BY <1>11 DEF PythonLevel
    <2>2. LevelOf(new, n + 1) = U8(Cardinality(Around(new, n + 1, {"def"})) + 2)
        BY <1>1, <1>11 DEF LevelOf
    <2>3. Cardinality(Around(new, n + 1, {"def"})) = Count(kinds, {"def"})
        BY <1>6, <1>9
    <2> QED BY <2>1, <2>2, <2>3 DEF new, n, kinds
<1> QED BY <1>10, <1>11

\* Every item has a heading, at its level.
HeadingsShow(src, headings) ==
    /\ IsList(headings)
    /\ \A k \in 1 .. Len(headings) :
          /\ headings[k].start \in ItemsOf(src)
          /\ headings[k].level = LevelOf(src, headings[k].start)
    /\ \A i \in ItemsOf(src) : \E k \in 1 .. Len(headings) : headings[k].start = i

PythonShows(src, s) ==
    /\ IsPython(src) /\ s.total = Len(src)
    /\ \E p : StackShows(src, s.stack, p)
    /\ HeadingsShow(src, s.headings)

\* A line of Python keeps stack and headings true to the text.
LEMMA PythonLineShows ==
    ASSUME NEW src, NEW s, PythonShape(s), PythonShows(src, s),
           NEW line \in [kind : {"class", "def", "other"}, depth : Nat]
    PROVE  PythonShows(Append(src, line), PythonLine(s, line))
<1> DEFINE new == Append(src, line)
           n == Len(src)
           t == PythonLine(s, line)
<1>0. IsPython(src) /\ s.total = n /\ HeadingsShow(src, s.headings)
    BY DEF PythonShows
<1>a. PICK p : StackShows(src, s.stack, p)
    BY DEF PythonShows
<1>1. /\ n \in Nat /\ Len(new) = n + 1 /\ IsPython(new) /\ ItemsOf(src) \subseteq 1 .. n
      /\ ItemsOf(new) = ItemsOf(src) \cup (IF line.kind = "other" THEN {} ELSE {n + 1})
    BY <1>0, LineAdded
<1>2. \A j \in ItemsOf(src) : LevelOf(new, j) = LevelOf(src, j)
    BY <1>0, LevelStays
<1> DEFINE h == s.headings
<1>3. /\ IsList(h)
      /\ \A k \in 1 .. Len(h) : h[k].start \in ItemsOf(src) /\ h[k].level = LevelOf(src, h[k].start)
      /\ \A i \in ItemsOf(src) : \E k \in 1 .. Len(h) : h[k].start = i
    BY <1>0 DEF HeadingsShow
<1>4. CASE line.kind = "other"
    <2>1. t = [total |-> s.total + 1, headings |-> s.headings, stack |-> s.stack]
        <3>1. t = [s EXCEPT !.total = @ + 1]
            BY <1>4 DEF PythonLine
        <3> QED BY <3>1 DEF PythonShape
    <2> HIDE DEF t
    <2>2. t.total = n + 1 /\ t.headings = h /\ t.stack = s.stack
        BY <1>0, <2>1
    <2>3. StackShows(new, t.stack, p)
        BY <1>0, <1>a, <1>4, <2>2, StackStays
    <2> HIDE DEF new, n, h
    <2>4. ItemsOf(new) = ItemsOf(src)
        BY <1>1, <1>4
    <2>5. HeadingsShow(new, h)
        BY <1>2, <1>3, <2>4 DEF HeadingsShow
    <2>6. PythonShows(new, t)
        BY <1>1, <2>2, <2>3, <2>5 DEF PythonShows
    <2> QED BY <2>6 DEF new, t
<1>5. CASE line.kind # "other"
    <2> DEFINE open == PopClosed(s.stack, line.depth)
               level == PythonLevel(Kinds(open), line.kind)
               entry == [start |-> s.total + 1, level |-> level]
    <2>1. t = [total |-> s.total + 1, headings |-> Append(h, entry),
               stack |-> Push(open, line.kind, line.depth)]
        BY <1>5 DEF PythonLine, Heading
    <2>2. PICK M : Popped(s.stack, line.depth, M, open)
        <3>1. /\ \A k \in 1 .. Len(s.stack) : s.stack[k].at \in Nat
              /\ \A k, m \in 1 .. Len(s.stack) : k < m => s.stack[k].at < s.stack[m].at
            BY <1>0, <1>a, StackDeepens
        <3>2. IsList(s.stack) /\ line.depth \in Nat
            BY <1>a DEF StackShows
        <3> QED BY <3>1, <3>2, PopIs
    <2> HIDE DEF t, open
    <2>3. \E q : StackShows(new, Push(open, line.kind, line.depth), q)
        BY <1>0, <1>a, <1>5, <2>2, StackPushed
    <2>4. level = LevelOf(new, n + 1)
        BY <1>0, <1>a, <1>5, <2>2, NewLevel
    <2> HIDE DEF level
    <2>5. entry.start = n + 1 /\ entry.level = LevelOf(new, n + 1)
        BY <1>0, <2>4
    <2> DEFINE more == Append(h, entry)
    <2>6. /\ IsList(more) /\ Len(more) = Len(h) + 1
          /\ \A k \in 1 .. Len(h) : more[k] = h[k]
          /\ more[Len(h) + 1] = entry
        BY <1>3, ListAppend
    <2>7. /\ t.total = n + 1 /\ t.headings = more
          /\ t.stack = Push(open, line.kind, line.depth)
        BY <1>0, <2>1
    <2>8. Len(h) \in Nat
        BY <1>3, ListFacts
    <2>9. ItemsOf(new) = ItemsOf(src) \cup {n + 1}
        BY <1>1, <1>5
    <2> HIDE DEF new, n, h, more, entry
    <2>10. ASSUME NEW k \in 1 .. Len(h) + 1
           PROVE  more[k].start \in ItemsOf(new) /\ more[k].level = LevelOf(new, more[k].start)
        <3>1. CASE k = Len(h) + 1
            BY <2>5, <2>6, <2>9, <3>1
        <3>2. CASE k # Len(h) + 1
            <4>1. k \in 1 .. Len(h)
                BY <2>8, <3>2
            <4> QED BY <1>2, <1>3, <2>6, <2>9, <4>1
        <3> QED BY <3>1, <3>2
    <2>11. ASSUME NEW i \in ItemsOf(new)
           PROVE  \E k \in 1 .. Len(h) + 1 : more[k].start = i
        <3>1. CASE i = n + 1
            <4>1. Len(h) + 1 \in 1 .. Len(h) + 1
                BY <2>8
            <4> QED BY <2>5, <2>6, <3>1, <4>1
        <3>2. CASE i # n + 1
            <4>1. PICK k \in 1 .. Len(h) : h[k].start = i
                BY <1>3, <2>9, <3>2
            <4>2. k \in 1 .. Len(h) + 1
                BY <2>8
            <4> QED BY <2>6, <4>1, <4>2
        <3> QED BY <3>1, <3>2
    <2>12. HeadingsShow(new, more)
        BY <2>6, <2>10, <2>11 DEF HeadingsShow
    <2>13. PythonShows(new, t)
        BY <1>1, <2>3, <2>7, <2>12 DEF PythonShows
    <2> QED BY <2>13 DEF new, t
<1> QED BY <1>4, <1>5

-----------------------------------------------------------------------------
(* The levels of a Python text.                                            *)

PythonNesting == format = "python" => PythonShows(source, scan)

\* The empty text has neither.
LEMMA PythonNestingInit == Init => PythonNesting
<1> SUFFICES ASSUME Init, format = "python" PROVE PythonShows(source, scan)
    BY DEF PythonNesting
<1>1. source = <<>> /\ scan = PythonStart
    BY DEF Init
<1>2. PythonStart.total = 0 /\ PythonStart.headings = <<>> /\ PythonStart.stack = <<>>
    BY DEF PythonStart
<1>3. IsPython(<<>>) /\ IsList(<<>>)
    BY StartInOrder DEF IsPython, InOrder
<1>4. Len(<<>>) = 0 /\ 1 .. 0 = {} /\ DOMAIN <<>> = {}
    BY <1>3, ListFacts, EmptySeq
<1>5. ItemsOf(<<>>) = {}
    BY <1>4 DEF ItemsOf
<1>6. StackShows(<<>>, <<>>, <<>>)
    <2>1. <<>> \in [1 .. 0 -> ItemsOf(<<>>)]
        BY <1>4, <1>5
    <2> QED BY <1>3, <1>4, <1>5, <2>1 DEF StackShows
<1>7. HeadingsShow(<<>>, <<>>)
    BY <1>3, <1>4, <1>5 DEF HeadingsShow
<1>8. \E p : StackShows(<<>>, <<>>, p)
    BY <1>6
<1> QED BY <1>1, <1>2, <1>3, <1>4, <1>7, <1>8 DEF PythonShows

\* Every step keeps stack and headings true to the text.
LEMMA PythonNestingStep == OutlineInv /\ PythonNesting /\ [Next]_vars => PythonNesting'
<1> SUFFICES ASSUME OutlineInv, PythonNesting, [Next]_vars PROVE PythonNesting'
    OBVIOUS
<1>1. ASSUME NEW line \in PythonLines, ScanPython(line) PROVE PythonNesting'
    <2>1. /\ format = "python" /\ source' = Append(source, line)
          /\ scan' = PythonLine(scan, line)
        BY <1>1 DEF ScanPython
    <2>2. PythonShape(scan) /\ PythonShows(source, scan)
        BY <2>1 DEF OutlineInv, PythonNesting
    <2>3. line \in [kind : {"class", "def", "other"}, depth : Nat]
        BY OutlineAssumption DEF OutlineAssumption
    <2>4. PythonShows(Append(source, line), PythonLine(scan, line))
        BY <2>2, <2>3, PythonLineShows
    <2> QED BY <2>1, <2>4 DEF PythonNesting
<1>2. ASSUME NEW line, ScanRust(line) PROVE PythonNesting'
    BY <1>2 DEF ScanRust, PythonNesting
<1>3. CASE ConvertRst
    BY <1>3 DEF ConvertRst, PythonNesting
<1>4. CASE UNCHANGED vars
    BY <1>4 DEF vars, PythonNesting
<1> QED BY <1>1, <1>2, <1>3, <1>4 DEF Next

\* Where only items have blocks, the lines between two items are deeper than
\* the first one if the items between them are: the last line that is not
\* would have a block.
LEMMA OnlyItemsCount ==
    ASSUME IsPython(source), OnlyItemsIndent,
           NEW i \in ItemsOf(source), NEW j \in ItemsOf(source)
    PROVE  PythonIn(i, j) <=> i < j /\ InItem(source, i, j)
<1> DEFINE Lines == [kind : {"class", "def", "other"}, depth : Nat]
           n == Len(source)
           B == {m \in (i + 1) .. j : ~ (source[m].depth > source[i].depth)}
<1>1. n \in Nat /\ DOMAIN source = 1 .. n /\ \A k \in 1 .. n : source[k] \in Lines
    <2>1. source \in Seq(Lines)
        BY DEF IsPython
    <2> HIDE DEF Lines
    <2> QED BY <2>1, LenProperties, ElementOfSeq
<1>2. \A k \in 1 .. n : source[k].depth \in Nat
    BY <1>1
<1>3. /\ i \in 1 .. n /\ source[i].kind # "other" /\ j \in 1 .. n
      /\ ItemsOf(source) \subseteq 1 .. n
    BY <1>1 DEF ItemsOf
<1>4. ASSUME PythonIn(i, j) PROVE i < j /\ InItem(source, i, j)
    <2>1. i < j /\ \A m \in (i + 1) .. j : source[m].depth > source[i].depth
        BY <1>4 DEF PythonIn
    <2>2. ASSUME NEW m \in ItemsOf(source), i < m, m <= j
          PROVE  source[m].depth > source[i].depth
        <3>1. m \in (i + 1) .. j
            BY <1>3, <2>2
        <3> QED BY <2>1, <3>1
    <2> QED BY <2>1, <2>2 DEF InItem
<1>5. ASSUME i < j, InItem(source, i, j) PROVE PythonIn(i, j)
    <2>1. ASSUME NEW m \in (i + 1) .. j, m \in ItemsOf(source)
          PROVE  source[m].depth > source[i].depth
        <3>1. i < m /\ m <= j
            BY <1>3
        <3> QED BY <1>5, <2>1, <3>1 DEF InItem
    <2>2. B = {}
        <3> SUFFICES ASSUME B # {} PROVE FALSE
            OBVIOUS
        <3>1. B \subseteq Int /\ j \in Int /\ \A x \in B : x <= j
            BY <1>3
        <3>2. PICK m \in B : \A x \in B : x <= m
            <4> HIDE DEF B
            <4> QED BY <3>1, MaxExists
        <3>3. m \in (i + 1) .. j /\ ~ (source[m].depth > source[i].depth)
            OBVIOUS
        <3>4. m \notin ItemsOf(source)
            BY <2>1, <3>3
        <3>5. m # j /\ m + 1 \in (i + 1) .. j /\ m \in 1 .. n /\ m + 1 \in 1 .. n
              /\ m + 1 > 1 /\ (m + 1) - 1 = m /\ ~ (m + 1 <= m)
            BY <1>1, <1>3, <3>3, <3>4
        <3>6. m + 1 \notin B
            BY <3>2, <3>5
        <3>7. source[m + 1].depth > source[i].depth
            BY <3>5, <3>6
        <3>8. source[m].depth \in Nat /\ source[m + 1].depth \in Nat /\ source[i].depth \in Nat
            BY <1>2, <1>3, <3>5
        <3>9. source[m + 1].depth > source[m].depth
            <4> HIDE DEF B, n
            <4> QED BY <3>3, <3>7, <3>8
        <3>10. source[m].kind # "other"
            BY <1>1, <3>5, <3>9 DEF OnlyItemsIndent
        <3>11. m \in ItemsOf(source)
            BY <1>1, <3>5, <3>10 DEF ItemsOf
        <3> QED BY <3>4, <3>11
    <2> QED BY <1>3, <1>5, <2>2 DEF PythonIn
<1> QED BY <1>4, <1>5

\* The invariant implies PythonLevelsFollowNesting.
LEMMA NestingLevels == OutlineInv /\ PythonNesting => PythonLevelsFollowNesting
<1> SUFFICES ASSUME OutlineInv, PythonNesting, format = "python", OnlyItemsIndent
             PROVE  PythonLevelsFollowNesting
    BY DEF PythonLevelsFollowNesting
<1> DEFINE h == scan.headings
           items == {i \in DOMAIN source : source[i].kind /= "other"}
           In(j, kinds) == {i \in items : PythonIn(i, j) /\ source[i].kind \in kinds}
<1>1. IsPython(source) /\ HeadingsShow(source, h) /\ InOrder(scan.total, h)
    BY DEF OutlineInv, PythonNesting, PythonShows
<1>2. items = ItemsOf(source)
    BY DEF ItemsOf
<1>3. IsList(h) /\ DOMAIN h = 1 .. Len(h)
    <2>1. IsList(h)
        BY <1>1 DEF HeadingsShow
    <2> QED BY <2>1, ListFacts
<1>4. /\ \A k \in DOMAIN h : /\ h[k].start \in ItemsOf(source)
                             /\ h[k].level = LevelOf(source, h[k].start)
      /\ \A i \in ItemsOf(source) : \E k \in DOMAIN h : h[k].start = i
    BY <1>1, <1>3 DEF HeadingsShow
<1>5. \A k, m \in DOMAIN h : k < m => h[k].start < h[m].start
    BY <1>1 DEF InOrder
<1>6. ASSUME NEW j \in ItemsOf(source), NEW S
      PROVE  In(j, S) = Around(source, j, S)
    <2>1. \A i \in ItemsOf(source) : PythonIn(i, j) <=> i < j /\ InItem(source, i, j)
        BY <1>1, OnlyItemsCount
    <2> HIDE DEF items
    <2> QED BY <1>2, <2>1 DEF Around
<1> HIDE DEF items, In, h
<1>7. ASSUME NEW k \in DOMAIN h
      PROVE  LET j == h[k].start
                 level == IF source[j].kind = "class"
                          THEN Cardinality(In(j, {"class", "def"})) + 1
                          ELSE Cardinality(In(j, {"def"})) + 2
             IN level < 256 => h[k].level = level
    <2> DEFINE j == h[k].start
               level == IF source[j].kind = "class"
                        THEN Cardinality(In(j, {"class", "def"})) + 1
                        ELSE Cardinality(In(j, {"def"})) + 2
    <2>1. h[k].start \in ItemsOf(source) /\ h[k].level = LevelOf(source, h[k].start)
        BY <1>4
    <2>2. /\ In(h[k].start, {"class", "def"}) = Around(source, h[k].start, {"class", "def"})
          /\ In(h[k].start, {"def"}) = Around(source, h[k].start, {"def"})
        BY <1>6, <2>1
    <2>3. h[k].level = U8(level)
        <3> HIDE DEF j
        <3> QED BY <2>1, <2>2 DEF LevelOf, j
    <2>4. level \in Nat
        <3>1. ASSUME NEW S PROVE Cardinality(Around(source, j, S)) \in Nat
            <4>1. /\ Len(source) \in Nat /\ ItemsOf(source) \subseteq DOMAIN source
                  /\ DOMAIN source = 1 .. Len(source)
                BY <1>1, LenProperties DEF IsPython, ItemsOf
            <4>2. IsFiniteSet(1 .. Len(source))
                BY <4>1, FS_Interval
            <4>3. Around(source, j, S) \in SUBSET (1 .. Len(source))
                BY <4>1 DEF Around
            <4> QED BY <4>2, <4>3, FS_Subset, FS_CardinalityType
        <3>2. /\ Cardinality(In(j, {"class", "def"})) \in Nat
              /\ Cardinality(In(j, {"def"})) \in Nat
            BY <2>2, <3>1
        <3> QED BY <3>2
    <2> HIDE DEF level
    <2>5. level < 256 => h[k].level = level
        BY <2>3, <2>4 DEF U8
    <2> QED BY <2>5 DEF level, j
<1>8. {h[k].start : k \in DOMAIN h} = items
    BY <1>2, <1>4
<1> QED BY <1>5, <1>7, <1>8 DEF PythonLevelsFollowNesting, h, items, In

\* The scanner of Python texts, which looks at a line at a time, gives the
\* classes and functions of a text of any length the levels of their nesting.
THEOREM PythonLevelsAreNesting == Spec => []PythonLevelsFollowNesting
<1>1. Init => OutlineInv /\ PythonNesting
    BY OutlineInit, PythonNestingInit
<1>2. OutlineInv /\ PythonNesting /\ [Next]_vars => (OutlineInv /\ PythonNesting)'
    BY OutlineStep, PythonNestingStep
<1> QED BY <1>1, <1>2, NestingLevels, PTL DEF Spec
=============================================================================
