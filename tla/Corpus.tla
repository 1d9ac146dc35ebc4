------------------------------- MODULE Corpus -------------------------------
(***************************************************************************)
(* The memory corpus: sources, the documents in them, and the chunks a     *)
(* document is cut into, embedded and found by.                            *)
(*                                                                         *)
(* A text is a sequence of paragraphs, a paragraph the sequence of the     *)
(* lengths of its sentences.  Two texts may state one fact, and texts of   *)
(* one topic are within the search's ceiling of one another; what the      *)
(* embedding model makes of them is assumed to be no finer than that.      *)
(***************************************************************************)
EXTENDS Integers, FiniteSets, SequencesExt

CONSTANTS
    Slug,           \* what sources are called
    Body,           \* what documents say
    Text,           \* Text[b]: the paragraphs of body b; none when it is blank
    Fact,           \* Fact[b]: what b states
    Topic,          \* Topic[b]: what b is about
    External,       \* resources of a connected source
    ChunkSize,      \* characters per chunk
    ChunkOverlap,   \* characters repeated from the chunk before
    BatchSize       \* texts in one embedding request

ASSUME TextAssumption ==
    /\ ChunkSize \in Nat \ {0} /\ ChunkOverlap \in Nat /\ BatchSize \in Nat \ {0}
    /\ Body # {} /\ Text \in [Body -> Seq(Seq(Nat \ {0}))]
    /\ DOMAIN Fact = Body /\ DOMAIN Topic = Body

VARIABLES
    sources,        \* sources[s]: the id of the source called s, 0 for none
    documents,      \* the documents, each with its chunks
    made            \* how many rows were ever inserted

corpus == <<sources, documents, made>>

Least(a, b) == IF a < b THEN a ELSE b

Total(s) ==
    LET sum[n \in 0..Len(s)] == IF n = 0 THEN 0 ELSE sum[n - 1] + s[n]
    IN  sum[Len(s)]

-----------------------------------------------------------------------------
(* Cutting a text.  A piece is what a paragraph boundary, a sentence end or *)
(* the hard cut left: its length, and how much of it is not spacing.        *)
Piece(length, chars) == [length |-> length, chars |-> chars]

ParagraphLength(p) == Total(p) + Len(p) - 1

CutSentence(n) ==
    [k \in 1..((n + ChunkSize - 1) \div ChunkSize) |->
        LET size == Least(ChunkSize, n - (k - 1) * ChunkSize) IN Piece(size, size)]

SplitParagraph(p) ==
    IF ParagraphLength(p) <= ChunkSize
    THEN <<Piece(ParagraphLength(p), Total(p))>>
    ELSE FlattenSeq([k \in DOMAIN p |-> CutSentence(p[k])])

Split(text) == FlattenSeq([k \in DOMAIN text |-> SplitParagraph(text[k])])

(* A chunk: its own pieces, and the tail of the chunk before it.  A word is *)
(* taken to be longer than the overlap, so the tail is all of the slice.    *)
Overlap == Least(ChunkOverlap, ChunkSize \div 2)
Chunk(pieces, tail) == [pieces |-> pieces, tail |-> tail]

ChunkLength(c) ==
    Total([k \in DOMAIN c.pieces |-> c.pieces[k].length]) + 2 * (Len(c.pieces) - 1)
        + (IF c.tail = 0 THEN 0 ELSE c.tail + 2)

Pack(packed, piece) ==
    LET current == packed.current
    IN  IF current.pieces = <<>>
        THEN [packed EXCEPT !.current = Chunk(<<piece>>, 0)]
        ELSE IF ChunkLength(current) + piece.length + 2 <= ChunkSize
        THEN [packed EXCEPT !.current.pieces = Append(@, piece)]
        ELSE [chunks  |-> Append(packed.chunks, current),
              current |-> Chunk(<<piece>>, Least(Overlap, ChunkLength(current)))]

TextLength(text) ==
    Total([k \in DOMAIN text |-> ParagraphLength(text[k])]) + 2 * (Len(text) - 1)

Chars(text) == Total([k \in DOMAIN text |-> Total(text[k])])

Packed(text) ==
    LET pieces == Split(text)
        packed[n \in 0..Len(pieces)] ==
            IF n = 0 THEN [chunks |-> <<>>, current |-> Chunk(<<>>, 0)]
            ELSE Pack(packed[n - 1], pieces[n])
        last == packed[Len(pieces)]
    IN  Append(last.chunks, last.current)

ChunksOf ==
    [b \in Body |->
        LET text == Text[b]
        IN  IF text = <<>> THEN <<>>
            ELSE IF TextLength(text) <= ChunkSize
            THEN <<Chunk(<<Piece(TextLength(text), Chars(text))>>, 0)>>
            ELSE Packed(text)]

(* What is embedded: chunk k of body b, or with k = 0 the body as a query.  *)
Pieces(b) == [k \in DOMAIN ChunksOf[b] |-> <<b, k>>]
Query(b) == <<<<b, 0>>>>

-----------------------------------------------------------------------------
(* The embedder. *)
(* Bug: every request starts from the first text. *)
BatchRestarted(texts, done) == SubSeq(texts, 1, Least(Len(texts), BatchSize))

Batch(texts, done) == SubSeq(texts, done + 1, Least(Len(texts), done + BatchSize))

(* An answer: entries in any order, with the index each says it is for, or  *)
(* in the order of the request and with no index; it may also be short.     *)
Entry(index, vector) == [index |-> index, vector |-> vector]
Answers(batch) ==
    {[k \in DOMAIN batch |-> Entry(0, batch[k])],
     [k \in DOMAIN batch |-> Entry(Len(batch) + 1 - k, Reverse(batch)[k])],
     [k \in 1..(Len(batch) - 1) |-> Entry(k, batch[k])]}

Complete(batch, answer) == Len(answer) = Len(batch)

(* Bug: vectors are paired by the order they came in. *)
OrderedAsSent(answer) == [k \in DOMAIN answer |-> answer[k].vector]

Ordered(answer) ==
    [k \in DOMAIN answer |->
        answer[CHOOSE p \in DOMAIN answer :
                 (IF answer[p].index = 0 THEN p ELSE answer[p].index) = k].vector]

-----------------------------------------------------------------------------
(* The store.  A transaction on a document is one step: the row it inserts  *)
(* or updates is locked till it ends, and so is its source.                 *)
Live == {sources[s] : s \in Slug} \ {0}

CreateSource(s) ==
    IF sources[s] = 0
    THEN /\ sources' = [sources EXCEPT ![s] = made + 1]
         /\ made' = made + 1
         /\ UNCHANGED documents
    ELSE UNCHANGED corpus

DeleteSource(id) ==
    /\ sources' = [s \in Slug |-> IF sources[s] = id THEN 0 ELSE sources[s]]
    /\ documents' = {d \in documents : d.source # id}
    /\ UNCHANGED made

DeleteDocument(id) ==
    /\ documents' = {d \in documents : d.id # id}
    /\ UNCHANGED <<sources, made>>

(* A caller that names no external id writes a new document every time. *)
Stored(source, external) ==
    {d \in documents : external # "none" /\ d.source = source /\ d.external = external}

(* Bug: any body of the document counts as the one there is. *)
ExistingAny(source, external, body) == Stored(source, external)

Existing(source, external, body) ==
    {d \in Stored(source, external) : d.body = body}

Rows(body, vectors) ==
    [k \in DOMAIN Pieces(body) |-> [text |-> Pieces(body)[k], vector |-> vectors[k]]]

Importance == 1..10
DefaultImportance == 5

Upsert(input, vectors) ==
    LET old == Stored(input.source, input.external)
        id  == IF old = {} THEN made + 1 ELSE (CHOOSE d \in old : TRUE).id
    IN  /\ documents' = (documents \ old) \cup
              {[id |-> id, source |-> input.source, external |-> input.external,
                body |-> input.body, provenance |-> input.provenance,
                importance |-> input.importance, chunks |-> Rows(input.body, vectors)]}
        /\ made' = IF old = {} THEN made + 1 ELSE made
        /\ UNCHANGED sources

-----------------------------------------------------------------------------
(* The search.  The vector is the query's, so a hit is as near as the two   *)
(* texts are: a chunk that is a whole body states what the body states.     *)
Hit(d, k) == [document |-> d.id, source |-> d.source, importance |-> d.importance,
              vector |-> d.chunks[k].vector]

Near(query, vector) ==
    /\ Fact[vector[1]] = Fact[query] /\ Len(ChunksOf[vector[1]]) = 1

Related(query, vector) == Topic[vector[1]] = Topic[query]

Found(ids, query) ==
    UNION {{Hit(d, k) : k \in {j \in DOMAIN d.chunks : Related(query, d.chunks[j].vector)}} :
           d \in {e \in documents : e.source \in ids}}

(* A fused rank is at most 2/61, and at least 1/(60 + 5 * limit), as each   *)
(* ranker offers five times the limit; age takes at most half.  What is     *)
(* worth more than the product comes first, whatever the ranks and ages.    *)
Outranks(g, h, limit) == 61 * g.importance > 4 * (60 + 5 * limit) * h.importance

Page(hits, limit) ==
    {p \in SUBSET hits : /\ Cardinality(p) = Least(limit, Cardinality(hits))
                         /\ \A g \in hits \ p, h \in p : ~Outranks(g, h, limit)}
=============================================================================
