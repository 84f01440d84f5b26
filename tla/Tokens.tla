------------------------------- MODULE Tokens -------------------------------
(***************************************************************************)
(* The tokenizer of the story models: its vocabulary is sorted once        *)
(* (tok_sort, a heapsort), then a prompt is encoded by greedy merges, each *)
(* found by binary search (tok_lookup), and every token is decoded again   *)
(* (llm.c).                                                                *)
(*                                                                         *)
(* A string is a sequence of bytes.  The string of a byte token, "<0x0A>", *)
(* is one symbol, above the bytes: Byte(10).                               *)
(***************************************************************************)
EXTENDS Integers, Sequences, FiniteSets, SequencesExt, Functions

CONSTANTS Vocabularies,  \* sequences of [str, score], the token's id plus 1 the index
          Texts,         \* prompts
          BYTES,         \* 256
          Continues,     \* bytes that continue a code point
          CP_MAX         \* the longest code point (4)

SPACE == 1
Byte(b) == BYTES + b
BOS == 1
FIRST_BYTE == 3

ASSUME TokensAssumption ==
  /\ \A v \in Vocabularies :
       /\ IsInjective([i \in DOMAIN v |-> v[i].str])
       /\ \A b \in 0 .. BYTES - 1 : v[FIRST_BYTE + b + 1].str = <<Byte(b)>>
  /\ \A t \in Texts : t \in Seq(1 .. BYTES - 1)

VARIABLES
  phase,    \* "none", "sort", "scan", "merge", "done"
  vocab,    \* the vocabulary
  sorted,   \* sorted_vocab: ids, at 0 .. n - 1
  start, limit, root,   \* tok_sort: the outer loops and the sift
  text, at,             \* encode: the prompt, and the byte it is at
  str_buffer, tokens

tokenizer == <<phase, vocab, sorted, start, limit, root, text, at, str_buffer, tokens>>
sorting == <<vocab, sorted, start, limit, root>>

n == Len(vocab)
Str(id) == vocab[id + 1].str

NoText ==
  /\ phase = "none" /\ vocab = <<>> /\ sorted = <<>>
  /\ start = 0 /\ limit = 0 /\ root = 0
  /\ text = <<>> /\ at = 1 /\ str_buffer = <<>> /\ tokens = <<>>

\* strcmp(a, b) < 0
Less(a, b) ==
  \E k \in 1 .. Len(b) :
    /\ \A i \in 1 .. k - 1 : i <= Len(a) /\ a[i] = b[i]
    /\ k = Len(a) + 1 \/ (k <= Len(a) /\ a[k] < b[k])

compare(i, j) == Less(Str(sorted[i]), Str(sorted[j]))

\* Heapsort over all ids.
SortBegins(v) ==
  /\ phase = "none"
  /\ phase' = "sort" /\ vocab' = v
  /\ sorted' = [i \in 0 .. Len(v) - 1 |-> i]
  /\ start' = Len(v) \div 2 - 1 /\ root' = start' /\ limit' = Len(v)
  /\ UNCHANGED <<text, at, str_buffer, tokens>>

\* The larger child.
Child_First(r) == 2 * r + 1      \* Mutant: always the left one.
Child(r) ==
  LET left == 2 * r + 1
  IN  IF left + 1 < limit /\ compare(left, left + 1) THEN left + 1 ELSE left

Swapped(i, j) == [sorted EXCEPT ![i] = sorted[j], ![j] = sorted[i]]

Sifting == 2 * root + 1 < limit /\ compare(root, Child(root))

SiftDown ==
  /\ phase = "sort" /\ Sifting
  /\ sorted' = Swapped(root, Child(root))
  /\ root' = Child(root)
  /\ UNCHANGED <<phase, vocab, start, limit, text, at, str_buffer, tokens>>

\* The heap is built from the last parent to the first, then emptied from the end.
NextSift ==
  /\ phase = "sort" /\ ~Sifting
  /\ \/ /\ start > 0
        /\ start' = start - 1 /\ root' = start'
        /\ UNCHANGED <<phase, sorted, limit>>
     \/ /\ start <= 0 /\ limit > 1
        /\ start' = 0 /\ root' = 0
        /\ limit' = limit - 1
        /\ sorted' = Swapped(0, limit - 1)
        /\ UNCHANGED phase
     \/ /\ start <= 0 /\ limit <= 1
        /\ phase' = "sorted"
        /\ UNCHANGED <<sorted, start, root, limit>>
  /\ UNCHANGED <<vocab, text, at, str_buffer, tokens>>

\* Binary search; -1 if the string is not in the vocabulary.
tok_lookup(str) ==
  LET in[lo \in 0 .. n, hi \in -1 .. n - 1] ==
        LET mid == (lo + hi) \div 2
        IN  CASE lo > hi -> -1
              [] lo <= hi /\ str = Str(sorted[mid]) -> sorted[mid]
              [] lo <= hi /\ Less(str, Str(sorted[mid])) -> in[lo, mid - 1]
              [] OTHER -> in[mid + 1, hi]
  IN  in[0, n - 1]

Known(str) == tok_lookup(str) # -1

\* BOS, and a space before a text.
EncodeBegins(t) ==
  /\ phase = "sorted"
  /\ phase' = "scan" /\ text' = t /\ at' = 1
  /\ tokens' = <<BOS>> \o (IF t # <<>> /\ Known(<<SPACE>>)
                            THEN <<tok_lookup(<<SPACE>>)>> ELSE <<>>)
  /\ UNCHANGED <<sorting, str_buffer>>

Continuing(i) == i <= Len(text) /\ text[i] \in Continues

\* One byte of the text: a code point is looked up at its last one, or else taken
\* byte by byte.
ScanByte ==
  LET str == Append(IF Continuing(at) THEN str_buffer ELSE <<>>, text[at])
  IN
  /\ phase = "scan" /\ at <= Len(text)
  /\ at' = at + 1
  /\ \/ /\ Continuing(at + 1) /\ Len(str) < CP_MAX
        /\ str_buffer' = str
        /\ UNCHANGED tokens
     \/ /\ ~(Continuing(at + 1) /\ Len(str) < CP_MAX)
        /\ str_buffer' = <<>>
        /\ tokens' = tokens \o (IF Known(str) THEN <<tok_lookup(str)>>
                                ELSE [i \in DOMAIN str |-> str[i] + FIRST_BYTE])
  /\ UNCHANGED <<phase, sorting, text>>

ScanEnds ==
  /\ phase = "scan" /\ at > Len(text)
  /\ phase' = "merge"
  /\ UNCHANGED <<sorting, text, at, str_buffer, tokens>>

Pair(i) == Str(tokens[i]) \o Str(tokens[i + 1])
Mergeable == {i \in 1 .. Len(tokens) - 1 : Known(Pair(i))}
Score(i) == vocab[tok_lookup(Pair(i)) + 1].score

\* The best pair, and of the best the first.
Best == CHOOSE i \in Mergeable : \A j \in Mergeable :
          Score(j) < Score(i) \/ (Score(j) = Score(i) /\ i <= j)

Merged(i) ==
  SubSeq(tokens, 1, i - 1) \o <<tok_lookup(Pair(i))>> \o SubSeq(tokens, i + 2, Len(tokens))

Merge ==
  /\ phase = "merge"
  /\ IF Mergeable = {}
     THEN phase' = "done" /\ UNCHANGED tokens
     ELSE tokens' = Merged(Best) /\ UNCHANGED phase
  /\ UNCHANGED <<sorting, text, at, str_buffer>>

\* What a token is printed as after prev.
decode(prev, token) ==
  LET str == Str(token)
      piece == IF prev = BOS /\ Head(str) = SPACE THEN Tail(str) ELSE str
  IN  IF piece # <<>> /\ Head(piece) >= BYTES THEN <<Head(piece) - BYTES>> ELSE piece

TokenizerStep ==
  \/ \E v \in Vocabularies : SortBegins(v)
  \/ SiftDown
  \/ NextSift
  \/ \E t \in Texts : EncodeBegins(t)
  \/ ScanByte
  \/ ScanEnds
  \/ Merge

EncodeEnds ==
  /\ phase = "done"
  /\ phase' = "none" /\ vocab' = <<>> /\ sorted' = <<>>
  /\ start' = 0 /\ limit' = 0 /\ root' = 0
  /\ text' = <<>> /\ at' = 1 /\ str_buffer' = <<>> /\ tokens' = <<>>

-----------------------------------------------------------------------------
Decoded == FlattenSeq([i \in 1 .. Len(tokens) - 1 |-> decode(tokens[i], tokens[i + 1])])

\* After the sort every string is found; the prompt, decoded, comes back as it
\* was, byte for byte, after the scan and after each merge; the tokens fit in
\* the room the caller has made, the length of the text and 3; and when the
\* merges end no two neighbours make a token.
TokenRoundTrip ==
  /\ phase \in {"sorted", "scan", "merge", "done"} =>
       \A id \in 0 .. n - 1 : tok_lookup(Str(id)) = id
  /\ Len(tokens) <= Len(text) + 3
  /\ phase \in {"merge", "done"} => Decoded = text
  /\ phase = "done" => Mergeable = {}
=============================================================================
