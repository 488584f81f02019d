---------------------------- MODULE TextMatching ----------------------------
(***************************************************************************)
(* How the pattern of a content rule is read, and where it matches a text. *)
(* The matcher searches two views of the text: the canonical one, in which *)
(* invisible formatting is dropped and punctuation separates words, and,   *)
(* for a pattern that is one Latin word, the security view, in which what  *)
(* is inserted into a word to hide it is dropped.  Every character of a    *)
(* view keeps the range of the text it came from.                          *)
(* A character stands for those the code treats alike; compatibility       *)
(* forms, combining marks and masked links are left out.                   *)
(***************************************************************************)
EXTENDS Integers, Sequences, FiniteSets

CONSTANTS
    Letters,        \* Latin letters, folded
    Capital,        \* the letter a capital folds to
    Likeness,       \* the Latin letter a letter of another script looks like
    Enough          \* letters of a word the security view is searched for: 4 in the code

Greek == DOMAIN Likeness
Alphabetic == Letters \cup DOMAIN Capital \cup Greek
Dots == {"."}           \* punctuation a word is commonly hidden with: . - _ ~ | ` and the star
Invisible == {"zwsp"}   \* dropped from both views
Joiners == {"zwj"}      \* kept in the canonical view, where they end a word

ASSUME MatchingConstants ==
    /\ Capital \in [DOMAIN Capital -> Letters] /\ Likeness \in [Greek -> Letters]
    /\ DOMAIN Capital \cap Letters = {} /\ Greek \cap (Letters \cup DOMAIN Capital) = {}
    /\ Alphabetic \cap {".", "zwsp", "zwj", "*", "/", "?", "quote", " "} = {}
    /\ Enough \in Nat \ {0}

Separates(c) == c \in Dots \cup {"*", "/", "?", "quote", " "}
Fold(c) == IF c \in DOMAIN Capital THEN Capital[c] ELSE c
Latin(c) == c \in Letters \cup DOMAIN Capital

\* The numbers of a set up to n, in their order.
Ascending(S, n) ==
    LET Upto[k \in 0..n] ==
            IF k = 0 THEN <<>> ELSE IF k \in S THEN Append(Upto[k - 1], k) ELSE Upto[k - 1]
    IN  Upto[n]

(* ------------------------------ the views ------------------------------ *)
\* A view is a sequence of [c, from, to]: a character and the text it is of.
Text(view) == [i \in 1..Len(view) |-> view[i].c]

\* One more character of the text: what is read of it so far, and the separators
\* that were read since the last character that is kept.
Take(state, c, i) ==
    IF c \in Invisible THEN state
    ELSE IF Separates(c)
    THEN [view |-> state.view, gap |-> IF state.gap = <<>> THEN <<i, i>> ELSE <<state.gap[1], i>>]
    ELSE [view |-> state.view
            \o (IF state.gap # <<>> /\ state.view # <<>>
                THEN <<[c |-> " ", from |-> state.gap[1], to |-> state.gap[2]]>> ELSE <<>>)
            \o <<[c |-> Fold(c), from |-> i, to |-> i]>>,
          gap |-> <<>>]

\* Separators before the first character that is kept, and after the last, are dropped.
Canonical(s) ==
    LET Upto[i \in 0..Len(s)] ==
            IF i = 0 THEN [view |-> <<>>, gap |-> <<>>] ELSE Take(Upto[i - 1], s[i], i)
    IN  Upto[Len(s)].view

\* Slip: only the next character is looked at.
NeighbourOnly(s, kept, i, step, Skipped) ==
    IF i + step \in kept THEN s[i + step] ELSE "none"

\* What stands next to a character among those kept, past those that are skipped.
Neighbour(s, kept, i, step, Skipped) ==
    LET stands == {j \in kept : step * i < step * j /\ s[j] \notin Skipped}
    IN  IF stands = {} THEN "none" ELSE s[CHOOSE j \in stands : \A k \in stands : step * j <= step * k]

\* The positions that are left of those kept, when what is dropped is dropped
\* between characters of Side.
Compacted(s, kept, Dropped, Skipped, Side) ==
    {i \in kept : ~(/\ s[i] \in Dropped
                    /\ Neighbour(s, kept, i, 1, Skipped) \in Side
                    /\ Neighbour(s, kept, i, -1, Skipped) \in Side)}

\* A token of several scripts is read as the Latin word it looks like.
Unmixed(s, kept, i) ==
    LET Token == {j \in kept : \A k \in kept \cap (IF i < j THEN i..j ELSE j..i) : s[k] \in Alphabetic}
    IN  IF s[i] \in Greek /\ \E j \in Token : Latin(s[j]) THEN Likeness[s[i]] ELSE Fold(s[i])

Starred == Dots \cup {"*"}
LatinCharacters == Letters \cup DOMAIN Capital
SecurityKept(s) ==
    LET visible == {i \in 1..Len(s) : s[i] \notin Invisible}
        joined == Compacted(s, visible, Joiners, Joiners \cup Starred, LatinCharacters)
    IN  Compacted(s, joined, Starred, Starred, Alphabetic)
Security(s) ==
    LET kept == SecurityKept(s)
        order == Ascending(kept, Len(s))
    IN  [k \in 1..Len(order) |->
            [c |-> Unmixed(s, kept, order[k]), from |-> order[k], to |-> order[k]]]

(* ------------------------------- patterns ------------------------------ *)
Spaces == {" "}
Trim(s) ==
    LET inner == {i \in 1..Len(s) : s[i] \notin Spaces}
    IN  IF inner = {} THEN <<>>
        ELSE SubSeq(s, CHOOSE i \in inner : \A j \in inner : i <= j, CHOOSE i \in inner : \A j \in inner : i >= j)
Has(s, c) == \E i \in 1..Len(s) : s[i] = c
Unsupported(s) ==
    Has(s, "?") \/ \E i \in 1..Len(s) - 1 : <<s[i], s[i + 1]>> \in {<<".", "*">>, <<"*", ".">>}

Refused == [type |-> "REFUSED", text |-> <<>>]
TypeOf(leading, trailing) ==
    IF leading THEN IF trailing THEN "CONTAINS" ELSE "SUFFIX"
    ELSE IF trailing THEN "PREFIX" ELSE "EXACT_WORD"

ParsePhrase(input) ==
    LET phrase == Text(Canonical(SubSeq(input, 2, Len(input) - 1))) IN
    IF Cardinality({i \in 1..Len(input) : input[i] = "quote"}) # 2
         \/ Head(input) # "quote" \/ input[Len(input)] # "quote" \/ ~Has(phrase, " ")
    THEN Refused
    ELSE [type |-> "PHRASE", text |-> phrase]

\* A star alone begins and ends with one: the slice between them is out of
\* bounds, and the thread panics.
Panics == [type |-> "PANIC", text |-> <<>>]

ParseWord(input) ==
    LET leading == Head(input) = "*"
        trailing == input[Len(input)] = "*"
        word == SubSeq(input, IF leading THEN 2 ELSE 1, IF trailing THEN Len(input) - 1 ELSE Len(input))
        read == Text(Canonical(word))
    IN  IF Has(input, " ") \/ Unsupported(input) \/ Has(word, "*") \/ read = <<>>
        THEN Refused
        ELSE [type |-> TypeOf(leading, trailing), text |-> read]

Parse(pattern) ==
    LET input == Trim(pattern) IN
    IF input = <<>> THEN Refused
    ELSE IF Has(input, "quote") THEN ParsePhrase(input)
    ELSE IF input = <<"*">> THEN Panics
    ELSE ParseWord(input)

\* The word as it was authored: a star is taken off where the type has one.
AuthoredLiteral(pattern, type) ==
    LET first == IF type \in {"SUFFIX", "CONTAINS"} /\ Head(pattern) = "*" THEN 2 ELSE 1
        last == IF type \in {"PREFIX", "CONTAINS"} /\ pattern[Len(pattern)] = "*" THEN Len(pattern) - 1 ELSE Len(pattern)
    IN  SubSeq(pattern, first, last)

\* Only Latin letters, and enough of them.
Eligible(literal) == Len(literal) >= Enough /\ \A i \in 1..Len(literal) : Latin(literal[i])

(* ------------------------------- matching ------------------------------ *)
\* A word character next to a match makes it a part of a longer word.
LeftOK(view, i) == i = 1 \/ view[i - 1].c \notin Alphabetic
RightOK(view, j) == j = Len(view) \/ view[j + 1].c \notin Alphabetic
AtBoundary(view, i, j, type) ==
    /\ type \in {"EXACT_WORD", "PHRASE", "PREFIX"} => LeftOK(view, i)
    /\ type \in {"EXACT_WORD", "PHRASE", "SUFFIX"} => RightOK(view, j)

\* The ranges of the text in which a view matches.
MatchesOf(view, literal, type) ==
    {<<view[i].from, view[i + Len(literal) - 1].to>> :
        i \in {k \in 1..Len(view) - Len(literal) + 1 :
                 /\ SubSeq(Text(view), k, k + Len(literal) - 1) = literal
                 /\ AtBoundary(view, k, k + Len(literal) - 1, type)}}

MatchText(text, pattern) ==
    LET parsed == Parse(pattern)
        literal == AuthoredLiteral(pattern, parsed.type)
    IN  MatchesOf(Canonical(text), Text(Canonical(pattern)), parsed.type)
          \cup (IF parsed.type # "PHRASE" /\ Eligible(literal)
                THEN MatchesOf(Security(text), Text(Security(literal)), parsed.type)
                ELSE {})

(* ------------------------------ the states ----------------------------- *)
VARIABLES
    text, pattern,
    found,          \* the ranges of the text the pattern matched
    answer          \* what became of the pattern
matchVars == <<text, pattern, found, answer>>

MatchInitWith(texts, patterns) ==
    text \in texts /\ pattern \in patterns /\ found = {} /\ answer = ""

\* A pattern that cannot be parsed is refused when its policy is written.
Refuse ==
    /\ answer = "" /\ Parse(pattern) \in {Refused, Panics}
    /\ answer' = Parse(pattern).type
    /\ UNCHANGED <<text, pattern, found>>

Match ==
    /\ answer = "" /\ Parse(pattern) \notin {Refused, Panics}
    /\ answer' = "MATCHED"
    /\ found' = MatchText(text, pattern)
    /\ UNCHANGED <<text, pattern>>

MatchNext == Refuse \/ Match
MatchSpec(texts, patterns) == MatchInitWith(texts, patterns) /\ [][MatchNext]_matchVars

(* ------------------------------ properties ----------------------------- *)
\* A pattern that is one word.
Word ==
    LET kept == Ascending({i \in 1..Len(pattern) : pattern[i] # "*"}, Len(pattern))
    IN  [n \in 1..Len(kept) |-> pattern[kept[n]]]
IsWord == Word # <<>> /\ \A i \in 1..Len(Word) : Word[i] \in Alphabetic

\* No letter next to a range, past what is hidden, where the type wants none.
Ends(type, Hidden, from, to) ==
    LET before == {k \in 1..from - 1 : text[k] \notin Hidden}
        after == {k \in to + 1..Len(text) : text[k] \notin Hidden}
    IN  /\ type \in {"EXACT_WORD", "PREFIX"} =>
              \A k \in before : (\A l \in before : l <= k) => text[k] \notin Alphabetic
        /\ type \in {"EXACT_WORD", "SUFFIX"} =>
              \A k \in after : (\A l \in after : l >= k) => text[k] \notin Alphabetic

\* The ranges a reader takes for the word who does not see the Hidden
\* characters, and for whom the k-th one may be c if Alike(k, c).
Readings(type, Hidden, Alike(_, _)) ==
    {range \in (1..Len(text)) \X (1..Len(text)) :
        LET i == range[1]
            j == range[2]
            seen == Ascending({k \in i..j : text[k] \notin Hidden}, j)
        IN  /\ i <= j /\ {text[i], text[j]} \subseteq Alphabetic
            /\ Len(seen) = Len(Word)
            /\ \A n \in 1..Len(seen) : Alike(seen[n], Fold(Word[n]))
            /\ Ends(type, Hidden, i, j)}

\* A Latin letter in the same word, whatever is inserted between.
InLatin(k, Hidden) ==
    \E l \in 1..Len(text) :
        /\ Latin(text[l])
        /\ \A m \in (IF k < l THEN k..l ELSE l..k) : text[m] \in Alphabetic \cup Hidden

Plain(type) == Readings(type, Invisible, LAMBDA k, c : Fold(text[k]) = c)
Disguised(type) ==
    LET Hidden == Invisible \cup Joiners \cup Starred
        Alike(k, c) ==
            \/ Fold(text[k]) = c
            \/ text[k] \in Greek /\ Likeness[text[k]] = c /\ InLatin(k, Hidden)
    IN  Readings(type, Hidden, Alike)

\* A joiner shapes the letters of other scripts, and is not dropped next to one.
SeveralScriptsJoined ==
    \E i, j \in 1..Len(text) : text[i] \in Greek /\ text[j] \in Joiners

\* A pattern matches just where its word is read, at its ends where it has no
\* star: as it stands or, if it is a Latin word of enough letters, with
\* punctuation, joiners and letters of another script in it; and the range of
\* the text that is censored for it is that of the whole word.
FoundWhereItIsRead ==
    answer = "MATCHED" /\ IsWord /\ ~SeveralScriptsJoined =>
        LET type == Parse(pattern).type IN
        found = Plain(type) \cup (IF Eligible(Word) THEN Disguised(type) ELSE {})
=============================================================================
