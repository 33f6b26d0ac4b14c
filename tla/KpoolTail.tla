------------------------------- MODULE KpoolTail -------------------------------
(***************************************************************************)
(* The index cache of the K-pooled sparse indexer,                         *)
(* docker/sparse_attn_indexer_kpool_sm121.py, as operators on the cache of *)
(* one layer.  Kpool consecutive tokens are compressed into one pool; the  *)
(* tokens of the pool in progress wait in a ring of Kpool slots, one block *)
(* per request, addressed by pos % Kpool.                                  *)
(*                                                                         *)
(* A batch is a sequence of rows, one per request, decodes first; a row    *)
(* brings the tokens at row.start .. row.start + row.n - 1.  A key is the  *)
(* token it was computed from, so a pool is right when its keys are.       *)
(***************************************************************************)
EXTENDS Integers, Sequences, FiniteSets, SequencesExt

CONSTANTS
    Kpool,   \* index_kpool
    TopK,    \* topk_tokens
    Depth    \* num_speculative_tokens

ASSUME KpoolAssumption == Kpool \in Nat \ {0, 1}
ASSUME TopKAssumption == TopK \in Nat \ {0}
ASSUME DepthAssumption == Depth \in Nat

Key(r, p, ok) == [req |-> r, pos |-> p, ok |-> ok]
PadPos == -1

-----------------------------------------------------------------------------
(* The flat layout of a batch.                                             *)

Lens(rows) == [r \in DOMAIN rows |-> rows[r].n]

(* Before(lens)[r]: the tokens of the first r rows.                        *)
Before(lens) ==
    LET f[r \in 0..Len(lens)] == IF r = 0 THEN 0 ELSE f[r - 1] + lens[r]
    IN  f

(* Per flat token its row and its place in the row, from 1.                *)
ScatterIndices(lens) ==
    [i \in 1..Before(lens)[Len(lens)] |->
        LET r == CHOOSE r \in DOMAIN lens : Before(lens)[r - 1] < i /\ i <= Before(lens)[r]
        IN  <<r, i - Before(lens)[r - 1]>>]

(* Drafts come last in a row; the first `right` of them are what the model *)
(* itself would have said.                                                 *)
Tokens(rows) ==
    [i \in DOMAIN ScatterIndices(Lens(rows)) |->
        LET x   == ScatterIndices(Lens(rows))[i]
            row == rows[x[1]]
            p   == row.start + x[2] - 1
        IN  [block |-> row.block, pos |-> p,
             key |-> Key(row.req, p, x[2] <= row.n - row.drafts + row.right)]]

PadToken(rows) == [block |-> rows[1].block, pos |-> PadPos, key |-> Key(rows[1].req, 0, FALSE)]

Scatter(tokens, pad, lens, lmax) ==
    LET idx == ScatterIndices(lens)
    IN  [r \in DOMAIN lens |-> [t \in 1..lmax |->
            IF \E i \in DOMAIN idx : idx[i] = <<r, t>>
            THEN tokens[CHOOSE i \in DOMAIN idx : idx[i] = <<r, t>>]
            ELSE pad]]

Longest(lens) == CHOOSE m \in {lens[r] : r \in DOMAIN lens} : \A r \in DOMAIN lens : lens[r] <= m
Uniform(lens) == \A r \in DOMAIN lens : lens[r] = lens[1]

(* The tokens by request: a reshape of the flat tensor when all rows are   *)
(* equally long, else a padded grid.                                       *)
Grouped(tokens, pad, lens) ==
    LET lmax == Longest(lens)
    IN  IF Uniform(lens) /\ Len(tokens) = Len(lens) * lmax
        THEN [r \in DOMAIN lens |-> [t \in 1..lmax |-> tokens[(r - 1) * lmax + t]]]
        ELSE Scatter(tokens, pad, lens, lmax)

-----------------------------------------------------------------------------
(* Writing the cache.                                                      *)

(* The decode kernel: a token goes to its place in the ring of its block,  *)
(* and the last one of a pool turns the ring into the pool.                *)
Stash(cache, token) ==
    IF token.pos = PadPos THEN cache
    ELSE LET ring == [cache[token.block].ring EXCEPT ![token.pos % Kpool] = token.key]
         IN  [cache EXCEPT ![token.block].ring = ring,
                           ![token.block].pools =
                               IF token.pos % Kpool = Kpool - 1
                               THEN [@ EXCEPT ![token.pos \div Kpool] = ring] ELSE @]

(* Its programs take the requests, each token by token.                    *)
StashRow(cache, tokens) == FoldLeft(Stash, cache, tokens)

DecodeWrite(cache, rows) ==
    IF rows = << >> THEN cache
    ELSE FoldLeft(StashRow, cache, Grouped(Tokens(rows), PadToken(rows), Lens(rows)))

BugInTail(tokens, i) ==    \* faulty: the trailing tokens of the batch only
    i > (Len(tokens) \div Kpool) * Kpool
(* A token is in the tail of its request when the one Kpool ahead is in    *)
(* another block or past the batch.                                        *)
InTail(tokens, i) ==
    \/ i + Kpool > Len(tokens)
    \/ tokens[i + Kpool].block # tokens[i].block

(* The prefill part: a pool that ends at token i is made of the Kpool      *)
(* tokens of the batch up to i; then the tails are stashed.                *)
PrefillWrite(cache, rows) ==
    LET tokens == Tokens(rows)
        Ends(i, b, j) == /\ tokens[i].block = b /\ tokens[i].pos = j * Kpool + Kpool - 1
                         /\ i >= Kpool
        Seeds(i, b, o) == tokens[i].block = b /\ tokens[i].pos % Kpool = o /\ InTail(tokens, i)
        At(P(_)) == CHOOSE i \in DOMAIN tokens : P(i)
    IN  [b \in DOMAIN cache |->
          [ring |-> [o \in 0..Kpool - 1 |->
               IF \E i \in DOMAIN tokens : Seeds(i, b, o)
               THEN tokens[At(LAMBDA i : Seeds(i, b, o))].key ELSE cache[b].ring[o]],
           pools |-> [j \in DOMAIN cache[b].pools |->
               IF \E i \in DOMAIN tokens : Ends(i, b, j)
               THEN [o \in 0..Kpool - 1 |->
                        tokens[At(LAMBDA i : Ends(i, b, j)) - Kpool + 1 + o].key]
               ELSE cache[b].pools[j]]]]

(* The decode rows are those before the first row longer than a decode.    *)
IsDecode(row) == row.n <= 1 + Depth
NumDecodes(rows) == Cardinality({i \in DOMAIN rows : \A k \in 1..i : IsDecode(rows[k])})
Decodes(rows) == SubSeq(rows, 1, NumDecodes(rows))
Prefills(rows) == SubSeq(rows, NumDecodes(rows) + 1, Len(rows))

(* sparse_attn_indexer_kpool up to the logits: the prefill rows first.     *)
IndexerWrite(cache, rows) ==
    DecodeWrite(PrefillWrite(cache, Prefills(rows)), Decodes(rows))

-----------------------------------------------------------------------------
(* Reading it: which tokens a query attends to.                            *)

(* The token-granular length per row of the logits, [batchSize, nextN].    *)
BugDecodeTopkSeqLens(positions, lens, batchSize, nextN, padding) ==   \* faulty: the flat layout always
    [i \in 1..batchSize * nextN |-> IF i \in DOMAIN positions THEN positions[i] + 1 ELSE 0]
DecodeTopkSeqLens(positions, lens, batchSize, nextN, padding) ==
    IF ~padding THEN [i \in 1..batchSize * nextN |-> positions[i] + 1]
    ELSE LET grid == Scatter(positions, PadPos, lens, nextN)
         IN  [i \in 1..batchSize * nextN |->
                 grid[((i - 1) \div nextN) + 1][((i - 1) % nextN) + 1] + 1]

(* The length used for flat decode token i.  The metadata either flattens  *)
(* the batch to one token per row, or keeps it by request.                 *)
SeqLenUsed(rows, i, flatten) ==
    LET positions == [k \in DOMAIN Tokens(rows) |-> Tokens(rows)[k].pos]
        lens  == IF flatten THEN [k \in DOMAIN positions |-> 1] ELSE Lens(rows)
        nextN == Longest(lens)
        x     == ScatterIndices(lens)[i]
    IN  DecodeTopkSeqLens(positions, lens, Len(lens), nextN, ~Uniform(lens))[(x[1] - 1) * nextN + x[2]]

(* The best TopK \div Kpool of the complete pools, whichever those are.    *)
Selections(poolLen) ==
    LET want == IF poolLen <= TopK \div Kpool THEN poolLen ELSE TopK \div Kpool
    IN  {S \in SUBSET (0..poolLen - 1) : Cardinality(S) = want}

(* expand_pools_and_append_tail: the tokens of the pools, and the tail.    *)
Expand(pools, seqLen) ==
    (UNION {j * Kpool..j * Kpool + Kpool - 1 : j \in pools})
        \union ((seqLen \div Kpool) * Kpool..seqLen - 1)

(* When every context of the prefill part is short, all of it is attended. *)
ShortPrefill(rows) == \A r \in DOMAIN rows : rows[r].start + rows[r].n <= TopK

PrefillContexts(rows, i) ==
    LET p == Tokens(rows)[i].pos
    IN  IF ShortPrefill(rows) THEN {0..p}
        ELSE {Expand(S, p + 1) : S \in Selections((p + 1) \div Kpool)}

DecodeContexts(rows, i, flatten) ==
    LET p == Tokens(rows)[i].pos
    IN  {Expand(S, SeqLenUsed(rows, i, flatten)) : S \in Selections((p + 1) \div Kpool)}
================================================================================
