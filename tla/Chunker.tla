------------------------------ MODULE Chunker ------------------------------
(***************************************************************************)
(* What an ingestion does with the blocks of a document: clean drops what  *)
(* is noise, the chunker packs the rest into chunks of a size, section by  *)
(* section, with the end of one repeated at the head of the next.          *)
(*                                                                         *)
(* A text is the sequence of its sentences, a sentence a number of tokens; *)
(* the scripts where a character is a token are modelled, so that what is  *)
(* joined counts its sum, and four characters of markup count as one more. *)
(* A bit is a part of a sentence: [block, sentence, from, size].           *)
(***************************************************************************)
EXTENDS Integers, Sequences, FiniteSets, SequencesExt, FiniteSetsExt

CONSTANTS
  Sources,        \* what a loader returns: sequences of [type, page, word, sizes, garbled]
  ChunkConfigs,   \* [target, overlap], as Settings resolves them
  HeaderPages,    \* _HEADER_MIN_PAGES
  HeaderTokens    \* _HEADER_MAX_TOKENS

ASSUME ChunkerAssumption ==
  /\ {HeaderPages, HeaderTokens} \subseteq Nat
  /\ \A c \in ChunkConfigs : c.target \in Nat \ {0} /\ c.overlap \in Nat

VARIABLES
  source,     \* the blocks of the loader
  blocks,     \* those that are kept
  size,       \* the ChunkConfig
  next,       \* the block to come, 0 before clean
  builder     \* _Builder: [head, parts, carry, page, out]

chunkerVars == <<source, blocks, size, next, builder>>

-----------------------------------------------------------------------------
NoPage == 0
Markup == 2                           \* the separator, and the mark of a heading
Untouched == [head |-> 0, parts |-> <<>>, carry |-> <<>>, page |-> NoPage, out |-> <<>>]

(* estimate_tokens, of so many characters of text and of markup.           *)
Tokens(text, markup) == text + (markup + 3) \div 4
Total(seq) == FoldSeq(LAMBDA x, sum : x.size + sum, 0, seq)

(* _joined: heading, carry and parts; bits of the carry have their glue.   *)
Joined(b, parts) ==
  LET pieces == Len(parts) + (IF b.head = 0 THEN 0 ELSE 1) + (IF b.carry = <<>> THEN 0 ELSE 1)
      glue == FoldSeq(LAMBDA x, sum : x.glue + sum, 0, b.carry)
      text == Total(FlattenSeq(parts)) + Total(b.carry) + (IF b.head = 0 THEN 0 ELSE source[b.head].sizes[1])
  IN Tokens(text, glue + (IF b.head = 0 THEN 0 ELSE Markup) + (IF pieces = 0 THEN 0 ELSE (pieces - 1) * Markup))
Fits(b, parts) == Joined(b, parts) <= size.target

(* _sentences of the joined parts: the separator stays with the one before *)
Glued(parts) ==
  FlattenSeq([p \in 1 .. Len(parts) |-> [i \in 1 .. Len(parts[p]) |->
    [bit |-> parts[p][i], size |-> parts[p][i].size,
     glue |-> IF i = Len(parts[p]) /\ p < Len(parts) THEN Markup ELSE 0]]])

(* _tail: as many sentences from the end as the overlap allows.            *)
TailOf(parts) ==
  LET all == Glued(parts)
      End(n) == SubSeq(all, Len(all) - n + 1, Len(all))
      Cost(n) == Tokens(Total(End(n)), FoldSeq(LAMBDA x, sum : x.glue + sum, 0, End(n)))
  IN End(Max({n \in 0 .. Len(all) : Cost(n) <= size.overlap}))

(* _emit and _flush                                                        *)
Chunk(b, own, page, tokens) ==
  [own |-> own, carry |-> b.carry, head |-> b.head, page |-> page, tokens |-> tokens]
Flushed(b) ==
  IF b.parts = <<>> THEN b
  ELSE [b EXCEPT !.out = Append(@, Chunk(b, FlattenSeq(b.parts), b.page, Joined(b, b.parts))),
                 !.carry = TailOf(b.parts), !.parts = <<>>, !.page = NoPage]

(* _budget_for_body: the separator before the body is not counted.         *)
Budget(b) == Max({size.target - (IF b.head = 0 /\ b.carry = <<>> THEN 0 ELSE Joined(b, <<>>)), 1})

(* _hard_split                                                             *)
HardSplit(bit, n) ==
  [i \in 1 .. (bit.size + n - 1) \div n |->
     <<[bit EXCEPT !.from = @ + (i - 1) * n, !.size = Min({n, bit.size - (i - 1) * n})]>>]

(* _split_to_fit: sentence by sentence, and within one that is too long.   *)
Packed(acc, bit, n) ==
  LET whole == IF acc.rest = <<>> THEN acc.pieces ELSE Append(acc.pieces, acc.rest) IN
  IF Total(acc.rest) + bit.size <= n THEN [acc EXCEPT !.rest = Append(@, bit)]
  ELSE IF bit.size <= n THEN [pieces |-> whole, rest |-> <<bit>>]
  ELSE [pieces |-> whole \o HardSplit(bit, n), rest |-> <<>>]
SplitToFit(b, text) ==
  LET end == FoldLeft(LAMBDA acc, bit : Packed(acc, bit, Budget(b)), [pieces |-> <<>>, rest |-> <<>>], text)
  IN IF end.rest = <<>> THEN end.pieces ELSE Append(end.pieces, end.rest)

-----------------------------------------------------------------------------
ChunkerBegin(all, first) ==
  /\ source \in all /\ size \in ChunkConfigs /\ blocks = <<>> /\ next = first /\ builder = Untouched
ChunkerInit == ChunkerBegin(Sources, 0)
ChunkerOff == ChunkerBegin({<<>>}, 1) /\ size = (CHOOSE c \in ChunkConfigs : TRUE)

TextOf(i) == [s \in 1 .. Len(source[i].sizes) |-> [block |-> i, sentence |-> s, from |-> 1, size |-> source[i].sizes[s]]]
TypeOf(i) == source[i].type

(* clean: short texts that return on many pages are headers and footers;   *)
(* what is empty or garbled is dropped, a table never is.                  *)
Repeated ==
  {w \in {source[i].word : i \in DOMAIN source} :
     LET with == {i \in DOMAIN source : source[i].word = w /\ source[i].page # NoPage
                                         /\ TypeOf(i) # "table" /\ Total(TextOf(i)) <= HeaderTokens}
     IN Cardinality({source[i].page : i \in with}) >= HeaderPages}
Kept(i) == source[i].word \notin Repeated /\ (TypeOf(i) = "table" \/ ~source[i].garbled)
Clean ==
  /\ next = 0 /\ next' = 1
  /\ blocks' = SelectSeq([i \in 1 .. Len(source) |-> i], Kept)
  /\ UNCHANGED <<source, size, builder>>

Block == blocks[next]
Onwards(b) == builder' = b /\ next' = next + 1 /\ UNCHANGED <<source, blocks, size>>
AtBlock(type) == next \in 1 .. Len(blocks) /\ TypeOf(Block) = type

StartSection ==
  AtBlock("heading") /\ Onwards([Flushed(builder) EXCEPT !.carry = <<>>, !.head = Block, !.page = source[Block].page])

(* A table is a chunk of its own, without the heading.                     *)
AddAtomic ==
  /\ AtBlock("table")
  /\ LET b == [Flushed(builder) EXCEPT !.carry = <<>>]
     IN Onwards([b EXCEPT !.out = Append(@, Chunk(b, TextOf(Block), source[Block].page, Total(TextOf(Block))))])

Paged(b) == [b EXCEPT !.page = IF @ = NoPage THEN source[Block].page ELSE @]
SeededPlaced(b, piece) == [Flushed(b) EXCEPT !.parts = <<piece>>]
                                      \* seeded fault: what does not fit has the page of what did
Placed(b, piece) == [Flushed(b) EXCEPT !.parts = <<piece>>, !.page = source[Block].page]
AddPiece(b, piece) ==
  IF Fits(b, Append(b.parts, piece)) THEN [Paged(b) EXCEPT !.parts = Append(@, piece)]
                                     ELSE Placed(Paged(b), piece)
AddText ==
  /\ AtBlock("text")
  /\ LET b == Paged(builder)
         split == Flushed(b)
     IN Onwards(IF Fits(b, Append(b.parts, TextOf(Block))) THEN [b EXCEPT !.parts = Append(@, TextOf(Block))]
                ELSE FoldLeft(AddPiece, split, SplitToFit(split, TextOf(Block))))

FinishChunks ==
  /\ next = Len(blocks) + 1 /\ source # <<>> /\ builder' = Flushed(builder) /\ next' = next + 1
  /\ UNCHANGED <<source, blocks, size>>

ChunkerNext == Clean \/ StartSection \/ AddAtomic \/ AddText \/ FinishChunks

-----------------------------------------------------------------------------
ChunkerTypeOK ==
  /\ next \in 0 .. (Len(blocks) + 2) /\ Len(blocks) <= Len(source)
  /\ builder.head \in 0 .. Len(source)
  /\ \A n \in DOMAIN builder.out : builder.out[n].own # <<>> /\ builder.out[n].tokens > 0

Atomic(n) == TypeOf(builder.out[n].own[1].block) = "table"
(* The characters of bits, in order.                                       *)
Characters(bits) ==
  FlattenSeq([i \in 1 .. Len(bits) |-> [c \in 1 .. bits[i].size |->
    <<bits[i].block, bits[i].sentence, bits[i].from + c - 1>>]])

(* chunk_document: whatever is cut where, the chunks and what is being     *)
(* collected are the text that was kept, every character once, in order.   *)
NothingIsLost ==
  next > 0 =>
    LET read == SelectSeq(SubSeq(blocks, 1, Min({next - 1, Len(blocks)})), LAMBDA i : TypeOf(i) # "heading")
    IN Characters(FlattenSeq([n \in DOMAIN builder.out |-> builder.out[n].own]) \o FlattenSeq(builder.parts))
         = Characters(FlattenSeq([k \in DOMAIN read |-> TextOf(read[k])]))

(* _tail, start_section, add_atomic: what a chunk repeats is the end of    *)
(* the chunk before it, of the same section, and no more than the overlap. *)
OverlapIsLocal ==
  \A n \in DOMAIN builder.out :
    LET again == [i \in DOMAIN builder.out[n].carry |-> builder.out[n].carry[i].bit] IN
    again # <<>> =>
      /\ n > 1 /\ builder.out[n - 1].head = builder.out[n].head /\ ~Atomic(n - 1) /\ ~Atomic(n)
      /\ IsSuffix(again, builder.out[n - 1].own) /\ Total(again) <= size.overlap

(* _budget_for_body: a chunk is larger than the target only by what it     *)
(* repeats and the separators, or because its heading leaves no room.      *)
SizesAreBounded ==
  \A n \in DOMAIN builder.out :
    ~Atomic(n) =>
      LET head == IF builder.out[n].head = 0 THEN 0 ELSE source[builder.out[n].head].sizes[1] + 1
      IN builder.out[n].tokens <= Max({size.target, head + 1}) + size.overlap + 1

(* _page: a citation leads to the page where the text begins, or to the    *)
(* heading above it.                                                       *)
PagesLeadThere ==
  \A n \in DOMAIN builder.out :
    LET c == builder.out[n]
    IN c.page \in {source[c.own[1].block].page} \union (IF c.head = 0 THEN {} ELSE {source[c.head].page})

ChunksHold == NothingIsLost /\ OverlapIsLocal /\ SizesAreBounded /\ PagesLeadThere

(* _budget_for_body and its test, "no chunk is larger than the target,     *)
(* tables and code excepted".                                              *)
EveryChunkRespectsTheTarget ==
  \A n \in DOMAIN builder.out : ~Atomic(n) => builder.out[n].tokens <= size.target

(* _flush, "the next chunk takes the page of its own first block": a chunk *)
(* that is not the first of its section leads to where its text begins.    *)
EachChunkKeepsItsOwnPage ==
  \A n \in DOMAIN builder.out :
    n > 1 /\ builder.out[n - 1].head = builder.out[n].head
      => builder.out[n].page = source[builder.out[n].own[1].block].page
=============================================================================
