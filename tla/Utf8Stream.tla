----------------------------- MODULE Utf8Stream -----------------------------
(***************************************************************************)
(* How generate writes its answer while the model is still working         *)
(* (src/src/bin/generate.rs): the bytes of every token go to a buffer, and *)
(* what of it is text goes to the screen at once, because a character may  *)
(* be spread over several tokens.                                          *)
(*                                                                         *)
(* A byte is one of a few kinds: ASCII, the lead of a character of two or  *)
(* of three bytes, a continuation byte, and a byte no character has.  The  *)
(* leads that restrict their second byte (E0, ED, F0, F4) and characters   *)
(* of four bytes behave like these.                                        *)
(***************************************************************************)
EXTENDS Integers, Sequences, SequencesExt

CONSTANTS
  Tokens,    \* the bytes of the tokens of the vocabulary
  Limit,     \* args.max_tokens, or fewer when the context is full before
  MaxBytes   \* bound: the bytes of an answer

Byte == {"ascii", "lead2", "lead3", "cont", "bad"}

ASSUME TokensAssumption == Tokens \subseteq Seq(Byte) /\ Limit \in Nat /\ MaxBytes \in Nat

REPLACEMENT == <<"U+FFFD">>

VARIABLES
  pc,      \* "sample", "forward", "rest", "done", "failed"
  chosen,  \* the tokens sampled, in order
  pending, \* bytes not printed yet
  screen   \* the characters printed

streamVars == <<pc, chosen, pending, screen>>

-----------------------------------------------------------------------------
(* std::str::from_utf8 and String::from_utf8_lossy.                        *)

Width(b) == CASE b = "ascii" -> 1 [] b = "lead2" -> 2 [] b = "lead3" -> 3 [] OTHER -> 0

(* Byte j goes on a character that begins at i; no other byte does.        *)
Continues(s, i, j) == /\ i < j /\ j < i + Width(s[i])
                      /\ \A k \in i + 1 .. j : s[k] = "cont"
Starts(s, j) == \A i \in 1 .. j - 1 : ~Continues(s, i, j)
Complete(s, i) ==
  LET last == i + Width(s[i]) - 1
  IN  last >= i /\ last <= Len(s) /\ \A j \in i + 1 .. last : s[j] = "cont"

Valid(s) == \A i \in DOMAIN s : Starts(s, i) => Complete(s, i)

(* Utf8Error::valid_up_to, or the whole length: "the maximum index such    *)
(* that from_utf8(&input[..index]) would return Ok(_)".                    *)
ValidUpTo(s) == Max({n \in 0 .. Len(s) : Valid(SubSeq(s, 1, n))})

(* Every character, and one replacement character for the beginning of a   *)
(* character that does not go on, or for a byte that begins none.          *)
Piece(s, i) == IF ~Starts(s, i) THEN <<>>
               ELSE IF Complete(s, i) THEN <<SubSeq(s, i, i + Width(s[i]) - 1)>>
               ELSE <<REPLACEMENT>>
Lossy(s) == FlattenSeq([i \in DOMAIN s |-> Piece(s, i)])

-----------------------------------------------------------------------------
(* Mutants: the whole buffer, lossily; nothing unless all of it is text.   *)
PrintAll(buf) == Len(buf)
PrintIfAllValid(buf) == IF ValidUpTo(buf) = Len(buf) THEN Len(buf) ELSE 0

(* flush_utf8: how much of the buffer is printed and drained.              *)
Printable(buf) == ValidUpTo(buf)

StreamInit == pc = "sample" /\ chosen = <<>> /\ pending = <<>> /\ screen = <<>>

(* The loop ends when the limit is reached, or before, when the sampler    *)
(* draws the end of the sequence.                                          *)
Stop ==
  /\ pc = "sample"
  /\ pc' = "rest"
  /\ UNCHANGED <<chosen, pending, screen>>

(* Any other token goes to the buffer, the text in it to the screen.       *)
Stream ==
  /\ pc = "sample" /\ Len(chosen) < Limit
  /\ \E next \in Tokens :
       LET buf == pending \o next
       IN  /\ Len(FlattenSeq(Append(chosen, next))) <= MaxBytes
           /\ chosen' = Append(chosen, next)
           /\ screen' = screen \o Lossy(SubSeq(buf, 1, Printable(buf)))
           /\ pending' = SubSeq(buf, Printable(buf) + 1, Len(buf))
  /\ pc' = "forward"

(* model.forward answers, or its Err leaves main with the buffer unprinted.*)
Forward ==
  /\ pc = "forward"
  /\ pc' \in {"sample", "failed"}
  /\ UNCHANGED <<chosen, pending, screen>>

(* "Flush any remainder (lossily if it ends mid-char)."                    *)
Remainder(buf) == Lossy(buf)

Rest ==
  /\ pc = "rest"
  /\ screen' = screen \o Remainder(pending)
  /\ pending' = <<>>
  /\ pc' = "done"
  /\ UNCHANGED chosen

StreamNext == Stop \/ Stream \/ Forward \/ Rest

StreamSpec == StreamInit /\ [][StreamNext]_streamVars

-----------------------------------------------------------------------------
(* Properties.                                                             *)

AllBytes == FlattenSeq(chosen)

(* Whatever pieces the tokens cut the text into, what is on the screen is  *)
(* a prefix of what Tokenizer::decode makes of all the tokens at once:     *)
(* nothing is printed as broken that a later token completes.              *)
(* A run that ends without an error has printed exactly that text, also    *)
(* when the tokens are not valid UTF-8.                                    *)
ScreenIsDecode ==
  /\ IsPrefix(screen, Lossy(AllBytes))
  /\ pc = "done" => screen = Lossy(AllBytes)

(* While the tokens make valid text, a finished character is on the screen *)
(* as soon as its last byte is there: at most two bytes wait.              *)
Begins(s) == s = <<>> \/ (Width(s[1]) > Len(s) /\ \A k \in 2 .. Len(s) : s[k] = "cont")
NoCharacterWaits ==
  (\E tail \in {<<>>, <<"cont">>, <<"cont", "cont">>} :
     ValidUpTo(AllBytes \o tail) = Len(AllBytes \o tail)) => Begins(pending)
=============================================================================
