------------------------------- MODULE Texts --------------------------------
(***************************************************************************)
(* The functions on strings of package pkg, the newspaper formatter and    *)
(* the client address of api-gateway/observability.go, and below each the  *)
(* result it owes its caller.  A string is an ASCII text, the sequence of  *)
(* its characters, small numbers that only have the classes a function     *)
(* asks for.  A function that may panic yields <<>> then, and otherwise a  *)
(* tuple with its result.                                                  *)
(***************************************************************************)
EXTENDS Slices

\* LengthOfLongestSubstring.  Whether a character is in the window already.
\* Mutant: an occurrence that the window has left behind counts as well.
inWindow_Ever(st, ch) == ch \in DOMAIN st.charIndex

inWindow(st, ch) == ch \in DOMAIN st.charIndex /\ st.charIndex[ch] >= st.left

LengthOfLongestSubstring(s) ==
    LET step(st, right) ==
            LET left == IF inWindow(st, s[right]) THEN st.charIndex[s[right]] + 1 ELSE st.left
            IN  [left |-> left,
                 charIndex |-> Assign(st.charIndex, s[right], right),
                 maxLen |-> Max({st.maxLen, right - left + 1})]
    IN  FoldLeftDomain(step, [left |-> 1, charIndex |-> <<>>, maxLen |-> 0], s).maxLen

\* The length of the longest piece without a repetition.
LongestDistinct(s) ==
    Max({0} \union {p[2] - p[1] + 1 : p \in
            {p \in Pairs(s) : p[1] <= p[2] /\ IsInjective(SubSeq(s, p[1], p[2]))}})
-----------------------------------------------------------------------------
\* Convert: the row of the byte at index i, from 0.
row(i, numRows) ==
    LET cycle == 2 * numRows - 2
        mod   == i % cycle
    IN  IF mod < numRows THEN mod ELSE cycle - mod

Convert(s, numRows) ==
    LET step(rows, i) == [rows EXCEPT ![row(i - 1, numRows) + 1] = Append(@, s[i])]
    IN  IF numRows = 1 THEN s
        ELSE FlattenSeq(FoldLeftDomain(step, [r \in 1 .. numRows |-> <<>>], s))

\* The depth of place i below the nearest place where the zigzag is on top.
Depth(i, numRows) ==
    Min({IF i >= top THEN i - top ELSE top - i : top \in {k * (2 * numRows - 2) : k \in 0 .. i + 1}})

\* All places, by depth and then from left to right.
IsZigzag(places, n, numRows) ==
    /\ Len(places) = n /\ ToSet(places) = 0 .. n - 1
    /\ numRows > 1 => \A i \in 2 .. n :
          LET a == places[i - 1]
              b == places[i]
          IN  \/ Depth(a, numRows) < Depth(b, numRows)
              \/ Depth(a, numRows) = Depth(b, numRows) /\ a < b
-----------------------------------------------------------------------------
\* ReverseMiddle; an empty word has no first byte to look at.
Vowels == {1, 2}

middleReversed(word) ==
    IF {word[1], Last(word)} \subseteq Vowels THEN swapInward(word, 2, Len(word) - 1) ELSE word

ReverseMiddle(text) ==
    IF <<>> \in ToSet(text) THEN <<>> ELSE <<[i \in DOMAIN text |-> middleReversed(text[i])]>>

\* Every word keeps its length and its ends, and reads the same backwards in
\* between or, unless vowels bound it, is the word it was.
IsMiddleReversed(w, word) ==
    LET n == Len(word)
        bounded == word[1] \in Vowels /\ word[n] \in Vowels
    IN  w = [i \in 1 .. n |-> IF bounded /\ i \notin {1, n} THEN word[n + 1 - i] ELSE word[i]]
-----------------------------------------------------------------------------
\* CaseDiff; what is not an upper-case letter counts as lower case.
Upper == 1
Lower == 2

CaseDiff(typedText) ==
    FoldLeft(LAMBDA diff, ch : IF ch = Upper THEN diff + 1 ELSE diff - 1, 0, typedText)

\* "The difference between uppercase and lowercase letters".
LettersDiff(text) ==
    LET many(case) == Quantify(DOMAIN text, LAMBDA i : text[i] = case)
    IN  many(Upper) - many(Lower)
-----------------------------------------------------------------------------
\* remoteIP's first entry of X-Forwarded-For.
Comma == 0
Blank == 1

splitFirst(s, sep) ==
    LET at == {i \in DOMAIN s : s[i] = sep} IN IF at = {} THEN s ELSE SubSeq(s, 1, Min(at) - 1)

trimSpace(s) ==
    LET ink == {i \in DOMAIN s : s[i] # Blank}
    IN  IF ink = {} THEN <<>> ELSE SubSeq(s, Min(ink), Max(ink))

remoteIP(xff, addr) == IF xff # <<>> THEN trimSpace(splitFirst(xff, Comma)) ELSE addr

\* What is before the first comma is the address with only blanks around it;
\* the connection's address stands in for an empty header alone.
IsFirstEntry(r, xff, addr) ==
    IF xff = <<>> THEN r = addr
    ELSE /\ Comma \notin ToSet(r)
         /\ r # <<>> => Head(r) # Blank /\ Last(r) # Blank
         /\ \E left, right \in 0 .. Len(xff) :
               LET n     == left + Len(r) + right
                   blank == [i \in 1 .. n |-> Blank]
               IN  /\ n <= Len(xff)
                   /\ SubSeq(xff, 1, n) = SubSeq(blank, 1, left) \o r \o SubSeq(blank, 1, right)
                   /\ n < Len(xff) => xff[n + 1] = Comma
-----------------------------------------------------------------------------
\* formatNewspaper.  A word is its length; a line is a sequence of words with
\* single spaces between them.
Width(line) == IF line = <<>> THEN 0 ELSE Sum(line) + Len(line) - 1

wrap(para, width) ==
    LET step(st, word) ==
            IF Width(st.current) = 0 THEN [st EXCEPT !.current = <<word>>]
            ELSE IF Width(st.current) + 1 + word <= width
            THEN [st EXCEPT !.current = Append(@, word)]
            ELSE [lines |-> Append(st.lines, st.current), current |-> <<word>>]
        end == FoldLeft(step, [lines |-> <<>>, current |-> <<>>], para)
    IN  IF Width(end.current) # 0 THEN Append(end.lines, end.current) ELSE end.lines

\* strings.Repeat panics on a negative count, which a line that is too wide
\* always asks for.
center(line, width) ==
    LET leftover == width - Width(line)
        leading  == IF leftover >= 0 THEN leftover \div 2 ELSE - ((- leftover) \div 2)
    IN  [leading |-> leading, line |-> line, trailing |-> leftover - leading]

formatNewspaper(paragraphs, width) ==
    LET lines == FlattenSeq([p \in DOMAIN paragraphs |-> wrap(paragraphs[p], width)])
        page  == [i \in DOMAIN lines |-> center(lines[i], width)]
    IN  IF \E i \in DOMAIN page : page[i].leading < 0 \/ page[i].trailing < 0
        THEN <<>> ELSE <<page>>

\* Only a word wider than the page makes the function panic.  Otherwise every
\* line fills the page, centred with any odd blank behind; no word is lost,
\* reordered or carried over from one paragraph to the next; and no line ends
\* before a word of its paragraph that would still fit.
Ink(words) == SelectSeq(words, LAMBDA word : word > 0)
IsPage(r, paragraphs, width) ==
    IF \E p \in DOMAIN paragraphs : \E word \in ToSet(paragraphs[p]) : word > width
    THEN r = <<>>
    ELSE r # <<>> /\ \E cuts \in [DOMAIN paragraphs -> 0 .. Len(r[1])] :
        /\ cuts[Len(cuts)] = Len(r[1])
        /\ \A p \in DOMAIN paragraphs :
            LET from  == IF p = 1 THEN 1 ELSE cuts[p - 1] + 1
                lines == [i \in 1 .. cuts[p] - from + 1 |-> r[1][from + i - 1]]
            IN  /\ FlattenSeq([i \in DOMAIN lines |-> Ink(lines[i].line)]) = Ink(paragraphs[p])
                /\ \A i \in DOMAIN lines :
                    /\ lines[i].leading + Width(lines[i].line) + lines[i].trailing = width
                    /\ lines[i].trailing - lines[i].leading \in {0, 1}
                    /\ i > 1 => Width(lines[i - 1].line) + 1 + Head(lines[i].line) > width
=============================================================================
