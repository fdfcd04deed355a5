------------------------------ MODULE Tokenizer ------------------------------
(***************************************************************************)
(* The byte-level BPE tokenizer (src/src/tokenizer.rs): encode cuts special *)
(* tokens out of the text, splits the gaps between them into words, turns  *)
(* the bytes of a word into symbols, merges neighbours by rank and looks   *)
(* the symbols up.                                                         *)
(*                                                                         *)
(* A text is a sequence of code points.  A token id stands for its string, *)
(* a sequence of code points too.  Letters, Numbers and Spaces are the     *)
(* code points of those classes; all others are punctuation.               *)
(***************************************************************************)
EXTENDS Integers, Sequences, SequencesExt, FiniteSetsExt

CONSTANTS
  Texts,                    \* the inputs considered
  Tables,                   \* [merges, vocab, special]: the tokenizers considered
  Letters, Numbers, Spaces,
  Bos, Eos                  \* the strings of the tokens of those names

Code   == 0 .. 2047          \* code points of one or two bytes
String == Seq(Nat)

(* Special tokens are not empty, and of printable ASCII characters, which  *)
(* stand for themselves in a piece.                                        *)
SpecialChar == 33 .. 126
ASSUME TextsAssumption == Texts \subseteq Seq(Code) /\ Bos \in String /\ Eos \in String
ASSUME TablesAssumption ==
  \A t \in Tables : /\ t.merges \in Seq(String \X String)
                    /\ t.vocab \subseteq String
                    /\ t.special \subseteq Seq(SpecialChar) \ {<< >>}

VARIABLES
  table, add_bos, add_eos,  \* the tokenizer
  text,                     \* what is encoded
  rest,                     \* text not yet scanned for special tokens
  span,                     \* characters of the gap not yet split into words
  words,                    \* words of the gap not yet encoded
  symbols,                  \* the word being merged
  cut,                      \* the special token behind the gap, or nothing
  out,                      \* tokens pushed
  done

vars == <<table, add_bos, add_eos, text, rest, span, words, symbols, cut, out, done>>
tokenizer == <<table, add_bos, add_eos, text>>
-----------------------------------------------------------------------------
(* Bytes and their printable characters (build_byte_maps).                 *)

Direct == (33 .. 126) \union (161 .. 172) \union (174 .. 255)
ByteToChar ==
  [b \in 0 .. 255 |-> IF b \in Direct THEN b
                      ELSE 256 + Cardinality({a \in 0 .. (b - 1) : a \notin Direct})]
CharToByte == [c \in Range(ByteToChar) |-> CHOOSE b \in 0 .. 255 : ByteToChar[b] = c]

(* The UTF-8 bytes of a code point below 2048.                             *)
Utf8(c) == IF c < 128 THEN <<c>> ELSE <<192 + c \div 64, 128 + (c % 64)>>
Bytes(s) == FlattenSeq([i \in DOMAIN s |-> Utf8(s[i])])

ByteSymbols(word) == LET bytes == Bytes(word)
                     IN [i \in DOMAIN bytes |-> <<ByteToChar[bytes[i]]>>]

(* piece_to_bytes: characters that stand for no byte are dropped.          *)
PieceToBytes(raw) ==
  FlattenSeq([i \in DOMAIN raw |-> IF raw[i] \in DOMAIN CharToByte THEN <<CharToByte[raw[i]]>>
                                                                   ELSE << >>])
Decode(ids) == FlattenSeq([i \in DOMAIN ids |-> PieceToBytes(ids[i])])
-----------------------------------------------------------------------------
(* find_next_special: the earliest occurrence, the longest of them.        *)

At(s, t, p) == p + Len(t) - 1 <= Len(s) /\ SubSeq(s, p, p + Len(t) - 1) = t
Found(s) == {f \in (1 .. Len(s)) \X table.special : At(s, f[2], f[1])}
ShortestSpecial(s) ==        \* broken: not sorted longest first
  CHOOSE f \in Found(s) : \A g \in Found(s) :
    f[1] < g[1] \/ (f[1] = g[1] /\ Len(f[2]) <= Len(g[2]))
FindNextSpecial(s) ==
  CHOOSE f \in Found(s) : \A g \in Found(s) :
    f[1] < g[1] \/ (f[1] = g[1] /\ Len(f[2]) >= Len(g[2]))
-----------------------------------------------------------------------------
(* pretokenize, one word at a time.                                        *)

Apostrophe == 39
Space      == 32
Class(c) == IF c \in Letters THEN "letter" ELSE IF c \in Numbers THEN "number"
            ELSE IF c \in Spaces THEN "space" ELSE "other"
Contractions ==              \* 's 't 're 've 'm 'll 'd
  << <<39, 115>>, <<39, 116>>, <<39, 114, 101>>, <<39, 118, 101>>, <<39, 109>>,
     <<39, 108, 108>>, <<39, 100>> >>
MatchContraction(s) == {t \in Range(Contractions) : IsPrefix(t, s)}

(* The end of the run that starts at i with characters of one class.       *)
RunEnd(s, i) == Max({j \in i .. Len(s) : \A k \in i .. j : Class(s[k]) = Class(s[i])})

(* White space before a word leaves its last character to that word,       *)
(* unless it is the only one.                                              *)
AllSpaces(s) == RunEnd(s, 1)         \* broken: without the look-ahead
SpacesButLast(s) ==                  \* broken: the only one as well
  IF RunEnd(s, 1) < Len(s) THEN RunEnd(s, 1) - 1 ELSE RunEnd(s, 1)
SpaceRun(s) == LET j == RunEnd(s, 1)
               IN IF j < Len(s) /\ j > 1 THEN j - 1 ELSE j

WordLen(s) ==
  LET cat_start == IF s[1] = Space THEN 2 ELSE 1
  IN IF s[1] = Apostrophe /\ MatchContraction(s) # {}
     THEN Len(CHOOSE t \in MatchContraction(s) : TRUE)
     ELSE IF cat_start <= Len(s) /\ Class(s[cat_start]) # "space" THEN RunEnd(s, cat_start)
     ELSE SpaceRun(s)
-----------------------------------------------------------------------------
(* merge_symbols.  merge_ranks holds, for a pair, the last of its ranks.   *)

Rank(l, r) == {i \in DOMAIN table.merges : table.merges[i] = <<l, r>>}
Ranked(s) == {i \in 1 .. (Len(s) - 1) : Rank(s[i], s[i + 1]) # {}}
LeftmostPair(s) == Min(Ranked(s))     \* broken: whatever its rank
BestPair(s) ==
  CHOOSE i \in Ranked(s) : \A j \in Ranked(s) :
    LET a == Max(Rank(s[i], s[i + 1]))
        b == Max(Rank(s[j], s[j + 1]))
    IN a < b \/ (a = b /\ i <= j)
MergeAt(s, i) == SubSeq(s, 1, i - 1) \o <<s[i] \o s[i + 1]>> \o SubSeq(s, i + 2, Len(s))

(* A symbol in the vocabulary is a token, any other goes by characters.    *)
Known(sym) == Len(sym) = 1 \/ sym \in table.vocab
LookupOrDrop(sym) == IF Known(sym) THEN <<sym>> ELSE << >>     \* broken: no fallback
Lookup(sym) == IF Known(sym) THEN <<sym>> ELSE [i \in DOMAIN sym |-> <<sym[i]>>]
-----------------------------------------------------------------------------
Init ==
  /\ table \in Tables
  /\ add_bos \in BOOLEAN /\ add_eos \in BOOLEAN
  /\ text \in Texts
  /\ rest = text
  /\ span = << >> /\ words = << >> /\ symbols = << >> /\ cut = << >>
  /\ out = IF add_bos THEN <<Bos>> ELSE << >>
  /\ done = FALSE

GapDone == span = << >> /\ words = << >> /\ symbols = << >>

(* encode_into: the next special token and the gap before it, or all of    *)
(* the rest.                                                               *)
ScanSpecial ==
  /\ GapDone /\ cut = << >> /\ rest # << >>
  /\ IF Found(rest) = {}
     THEN span' = rest /\ rest' = << >> /\ cut' = << >>
     ELSE LET f == FindNextSpecial(rest)
          IN /\ span' = SubSeq(rest, 1, f[1] - 1)
             /\ cut'  = <<f[2]>>
             /\ rest' = SubSeq(rest, f[1] + Len(f[2]), Len(rest))
  /\ UNCHANGED <<tokenizer, words, symbols, out, done>>

PushSpecial ==
  /\ GapDone /\ cut # << >>
  /\ out' = out \o cut
  /\ cut' = << >>
  /\ UNCHANGED <<tokenizer, rest, span, words, symbols, done>>

(* A word may be empty only where the loop is stuck; it is not pushed.     *)
Pretokenize ==
  /\ span # << >>
  /\ LET n == WordLen(span)
     IN /\ words' = IF n > 0 THEN Append(words, SubSeq(span, 1, n)) ELSE words
        /\ span'  = SubSeq(span, n + 1, Len(span))
  /\ UNCHANGED <<tokenizer, rest, symbols, cut, out, done>>

BpeEncode ==
  /\ span = << >> /\ words # << >> /\ symbols = << >>
  /\ symbols' = ByteSymbols(Head(words))
  /\ words' = Tail(words)
  /\ UNCHANGED <<tokenizer, rest, span, cut, out, done>>

MergeSymbols ==
  /\ Ranked(symbols) # {}
  /\ symbols' = MergeAt(symbols, BestPair(symbols))
  /\ UNCHANGED <<tokenizer, rest, span, words, cut, out, done>>

EmitSymbols ==
  /\ symbols # << >> /\ Ranked(symbols) = {}
  /\ out' = out \o FlattenSeq([i \in DOMAIN symbols |-> Lookup(symbols[i])])
  /\ symbols' = << >>
  /\ UNCHANGED <<tokenizer, rest, span, words, cut, done>>

Return ==
  /\ ~done /\ GapDone /\ cut = << >> /\ rest = << >>
  /\ out' = IF add_eos THEN Append(out, Eos) ELSE out
  /\ done' = TRUE
  /\ UNCHANGED <<tokenizer, rest, span, words, symbols, cut>>

Next ==
  \/ ScanSpecial \/ PushSpecial \/ Pretokenize
  \/ BpeEncode \/ MergeSymbols \/ EmitSymbols \/ Return

Spec == Init /\ [][Next]_vars /\ WF_vars(Next)
-----------------------------------------------------------------------------
(* The reference: GPT-2's encoder.                                         *)

(* The first alternative of the pattern that matches, as long as it can:   *)
(* 's|'t|'re|'ve|'m|'ll|'d| ?\p{L}+| ?\p{N}+| ?[^\s\p{L}\p{N}]+|           *)
(* \s+(?!\S)|\s+                                                           *)
AllOf(s, i, j, class) == i <= j /\ \A k \in i .. j : Class(s[k]) = class
Alternatives(s) ==
  LET ends   == 1 .. Len(s)
      run(c) == {n \in ends : AllOf(s, 1, n, c) \/ (s[1] = Space /\ AllOf(s, 2, n, c))}
  IN [i \in DOMAIN Contractions |->
        IF IsPrefix(Contractions[i], s) THEN {Len(Contractions[i])} ELSE {}]
     \o << run("letter"), run("number"), run("other"),
           {n \in ends : AllOf(s, 1, n, "space")
                         /\ (n = Len(s) \/ Class(s[n + 1]) = "space")},
           {n \in ends : AllOf(s, 1, n, "space")} >>
FirstMatch(s) ==
  LET alternatives == Alternatives(s)
      first == Min({i \in DOMAIN alternatives : alternatives[i] # {}})
  IN Max(alternatives[first])
(* One round merges every occurrence of the best pair, left to right.      *)
MergeAll(s, l, r) ==
  LET from[i \in 1 .. (Len(s) + 2)] ==
        IF i > Len(s) THEN << >>
        ELSE IF i < Len(s) /\ s[i] = l /\ s[i + 1] = r THEN <<l \o r>> \o from[i + 2]
        ELSE <<s[i]>> \o from[i + 1]
  IN from[1]
Rounds(s) ==
  LET after[n \in 0 .. Len(s)] ==
        IF n = 0 THEN s
        ELSE LET t == after[n - 1]
             IN IF Ranked(t) = {} THEN t
                ELSE LET best == Min({Max(Rank(t[i], t[i + 1])) : i \in Ranked(t)})
                     IN MergeAll(t, table.merges[best][1], table.merges[best][2])
  IN after[Len(s)]

(* In a trained table a merge comes after all that produce its parts.      *)
Trained ==
  \A i \in DOMAIN table.merges : \A part \in Range(table.merges[i]) :
    Len(part) > 1 =>
      LET makers == {j \in DOMAIN table.merges :
                       table.merges[j][1] \o table.merges[j][2] = part}
      IN makers # {} /\ \A j \in makers : j < i

(* Every word cut off the text is what the GPT-2 pattern matches there:    *)
(* the hand-written scanner has its alternatives in the right order, its   *)
(* optional space and its look-ahead.                                      *)
WordsFollowPattern ==
  [][ /\ span # << >>
      /\ span' # span
      => Last(words') = SubSeq(span, 1, FirstMatch(span)) ]_vars

(* With a trained merge table, merging one leftmost best pair at a time    *)
(* ends in the symbols GPT-2 gets by merging all occurrences per round:    *)
(* from any state of the loop the rounds lead to the same symbols, which   *)
(* are then those of the whole word.                                       *)
MergesFollowRounds ==
  [][ Trained /\ symbols # << >> /\ symbols' # << >>
      => Rounds(symbols') = Rounds(symbols) ]_vars

(* Nothing is lost or reordered: what was pushed, what is in work and what *)
(* is left spell the text, byte by byte, at any time.  So decode gives     *)
(* back what encode was given, whatever the merge table says.              *)
Joined == FlattenSeq(symbols)
NothingLost ==
  Decode(out) \o PieceToBytes(Joined) \o Bytes(FlattenSeq(words)) \o Bytes(span)
      \o Bytes(FlattenSeq(cut)) \o Bytes(rest)
    = (IF add_bos THEN PieceToBytes(Bos) ELSE << >>) \o Bytes(text)
        \o (IF done /\ add_eos THEN PieceToBytes(Eos) ELSE << >>)

(* Special tokens are whole and the longest: what is cut next is preceded  *)
(* by no special token that would begin in the gap, not even one that      *)
(* would reach over its end, and no longer one begins where it does.       *)
SpecialsAreWhole ==
  LET ahead == span \o FlattenSeq(cut) \o rest
      begin == Len(span) + 1
  IN GapDone \/ \A t \in table.special : \A p \in 1 .. begin :
       (p <= Len(span) \/ cut # << >>) /\ At(ahead, t, p)
         => p = begin /\ Len(t) <= Len(cut[1])

(* encode returns.                                                         *)
Returns == <>done
=============================================================================
