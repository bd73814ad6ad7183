----------------------------- MODULE ComicWords -----------------------------
(***************************************************************************)
(* How the text of a comic becomes the column `words` of its row, and what *)
(* the two searches make of that column.  The update core splits the text  *)
(* at white space and packs it into chunks the words service accepts       *)
(* (splitWordsIntoChunks, getComicsById); the service splits a chunk at    *)
(* punctuation, stems, drops stop words and duplicates (words/words.go).   *)
(* What it makes of one token is a constant here; a token is a piece of    *)
(* text without white space, and only its size in bytes matters.           *)
(***************************************************************************)
EXTENDS SearchRanking

Lists == INSTANCE SequencesExt

CONSTANTS
    Comics,     \* the comics an update fetches, as numbers
    Tokens,     \* pieces of text between white space
    Size,       \* bytes of each token
    NormWords,  \* the words Norm makes of each token, none for stop words
    Texts,      \* texts a comic may have
    MaxChunk,   \* maxChunkSize of the update service
    MaxPhrase,  \* what the words service accepts
    Queries,    \* sets of words to search for
    Limits      \* limits of a search

ASSUME SizeAssumption   == Size \in [Tokens -> Nat \ {0}]
ASSUME TextsAssumption  == Texts \subseteq Seq(Tokens)
ASSUME LimitsAssumption == MaxChunk \in Nat /\ MaxPhrase \in Nat /\ MaxChunk <= MaxPhrase
ASSUME NormAssumption   == \A t \in Tokens : IsFiniteSet(NormWords[t])
ASSUME ComicsAssumption == Comics \subseteq Nat /\ IsFiniteSet(Comics)
ASSUME SearchAssumption == Limits \subseteq Nat /\ \A q \in Queries : IsFiniteSet(q)

VARIABLES
    text,     \* strings.Fields of the comic's title, alt, safe title and transcript
    stage,    \* where its job is
    read,     \* how many tokens the loop of splitWordsIntoChunks has consumed
    current,  \* currentChunk, as its tokens
    chunks,   \* the chunks so far
    normed,   \* how many of them the words service has answered
    words     \* finalNormalized, and the row's column once stored

vars == <<text, stage, read, current, chunks, normed, words>>

AllWords == UNION {NormWords[t] : t \in Tokens}

TypeOK ==
    /\ text \in [Comics -> Texts]
    /\ stage \in [Comics -> {"split", "norm", "stored", "failed", "refused"}]
    /\ read \in [Comics -> Nat]
    /\ current \in [Comics -> Seq(Tokens)]
    /\ chunks \in [Comics -> Seq(Seq(Tokens) \ {<<>>})]
    /\ normed \in [Comics -> Nat]
    /\ words \in [Comics -> Seq(AllWords)]
    /\ \A c \in Comics : read[c] <= Len(text[c]) /\ normed[c] <= Len(chunks[c])

Init ==
    /\ text \in [Comics -> Texts]
    /\ stage = [c \in Comics |-> "split"]
    /\ read = [c \in Comics |-> 0]
    /\ current = [c \in Comics |-> <<>>]
    /\ chunks = [c \in Comics |-> <<>>]
    /\ normed = [c \in Comics |-> 0]
    /\ words = [c \in Comics |-> <<>>]

(* bytes of a chunk: its tokens, joined by single spaces *)
Bytes(chunk) ==
    LET upTo[k \in 0 .. Len(chunk)] ==
            IF k = 0 THEN 0
            ELSE upTo[k - 1] + Size[chunk[k]] + (IF k = 1 THEN 0 ELSE 1)
    IN  upTo[Len(chunk)]

Tokenset(s) == {s[k] : k \in DOMAIN s}

(* words.Norm: the words of all tokens, each once, in the order of a Go map *)
Norm(chunk) == Orderings(UNION {NormWords[t] : t \in Tokenset(chunk)}, {})

(***************************************************************************)
(* getComicsById and splitWordsIntoChunks                                  *)
(***************************************************************************)
(* mutant: the space before the word is not counted *)
OverflowsWithoutSpace(c, token) == Bytes(current[c]) + Size[token] > MaxChunk /\ current[c] # <<>>

Overflows(c, token) == Bytes(current[c]) + Size[token] + 1 > MaxChunk /\ current[c] # <<>>

(* mutant: the word that does not fit is dropped with the flush *)
PackOrDrop(c) ==
    /\ stage[c] = "split"
    /\ read[c] < Len(text[c])
    /\ read' = [read EXCEPT ![c] = @ + 1]
    /\ LET token == text[c][read[c] + 1]
       IN  \/ /\ Overflows(c, token)
              /\ chunks' = [chunks EXCEPT ![c] = Append(@, current[c])]
              /\ current' = [current EXCEPT ![c] = <<>>]
           \/ /\ ~Overflows(c, token)
              /\ current' = [current EXCEPT ![c] = Append(@, token)]
              /\ UNCHANGED chunks
    /\ UNCHANGED <<text, stage, normed, words>>

(* one turn of the loop: flush the chunk if the word does not fit, add it *)
Pack(c) ==
    /\ stage[c] = "split"
    /\ read[c] < Len(text[c])
    /\ read' = [read EXCEPT ![c] = @ + 1]
    /\ LET token == text[c][read[c] + 1]
       IN  \/ /\ Overflows(c, token)
              /\ chunks' = [chunks EXCEPT ![c] = Append(@, current[c])]
              /\ current' = [current EXCEPT ![c] = <<token>>]
           \/ /\ ~Overflows(c, token)
              /\ current' = [current EXCEPT ![c] = Append(@, token)]
              /\ UNCHANGED chunks
    /\ UNCHANGED <<text, stage, normed, words>>

(* mutant: the last chunk is kept even when it is empty *)
SplitEmptyToo(c) ==
    /\ stage[c] = "split"
    /\ read[c] = Len(text[c])
    /\ stage' = [stage EXCEPT ![c] = "norm"]
    /\ chunks' = [chunks EXCEPT ![c] = Append(@, current[c])]
    /\ current' = [current EXCEPT ![c] = <<>>]
    /\ UNCHANGED <<text, read, normed, words>>

(* the last chunk, if there is one *)
SplitDone(c) ==
    /\ stage[c] = "split"
    /\ read[c] = Len(text[c])
    /\ stage' = [stage EXCEPT ![c] = "norm"]
    /\ chunks' = IF current[c] = <<>> THEN chunks
                 ELSE [chunks EXCEPT ![c] = Append(@, current[c])]
    /\ current' = [current EXCEPT ![c] = <<>>]
    /\ UNCHANGED <<text, read, normed, words>>

(* mutant: the answer replaces what is there instead of being appended *)
NormLastChunkWins(c) ==
    /\ stage[c] = "norm"
    /\ normed[c] < Len(chunks[c])
    /\ Bytes(chunks[c][normed[c] + 1]) <= MaxPhrase
    /\ \E answer \in Norm(chunks[c][normed[c] + 1]) : words' = [words EXCEPT ![c] = answer]
    /\ normed' = [normed EXCEPT ![c] = @ + 1]
    /\ UNCHANGED <<text, stage, read, current, chunks>>

(* the next chunk goes to the words service, whose answer is appended *)
NormChunk(c) ==
    /\ stage[c] = "norm"
    /\ normed[c] < Len(chunks[c])
    /\ Bytes(chunks[c][normed[c] + 1]) <= MaxPhrase
    /\ \E answer \in Norm(chunks[c][normed[c] + 1]) :
        words' = [words EXCEPT ![c] = @ \o answer]
    /\ normed' = [normed EXCEPT ![c] = @ + 1]
    /\ UNCHANGED <<text, stage, read, current, chunks>>

(* ResourceExhausted: the chunk is over 4 KiB, and the comic is given up *)
PhraseRefused(c) ==
    /\ stage[c] = "norm"
    /\ normed[c] < Len(chunks[c])
    /\ Bytes(chunks[c][normed[c] + 1]) > MaxPhrase
    /\ stage' = [stage EXCEPT ![c] = "refused"]
    /\ UNCHANGED <<text, read, current, chunks, normed, words>>

(* any other error of an adapter, words service or table *)
JobFails(c) ==
    /\ stage[c] = "norm"
    /\ stage' = [stage EXCEPT ![c] = "failed"]
    /\ UNCHANGED <<text, read, current, chunks, normed, words>>

AddRow(c) ==
    /\ stage[c] = "norm"
    /\ normed[c] = Len(chunks[c])
    /\ stage' = [stage EXCEPT ![c] = "stored"]
    /\ UNCHANGED <<text, read, current, chunks, normed, words>>

(* a later update fetches what is missing: what failed, or was dropped *)
NextUpdate(c) ==
    /\ stage[c] \in {"failed", "refused", "stored"}
    /\ stage' = [stage EXCEPT ![c] = "split"]
    /\ read' = [read EXCEPT ![c] = 0]
    /\ current' = [current EXCEPT ![c] = <<>>]
    /\ chunks' = [chunks EXCEPT ![c] = <<>>]
    /\ normed' = [normed EXCEPT ![c] = 0]
    /\ words' = [words EXCEPT ![c] = <<>>]
    /\ UNCHANGED text

Next == \E c \in Comics :
    \/ Pack(c) \/ SplitDone(c) \/ NormChunk(c) \/ PhraseRefused(c)
    \/ JobFails(c) \/ AddRow(c) \/ NextUpdate(c)

Spec == Init /\ [][Next]_vars

(***************************************************************************)
(* Properties                                                              *)
(***************************************************************************)
(* Splitting loses, doubles and reorders nothing: the chunks and the one     *)
(* being filled are, in order, the text read so far (162-176).               *)
NoTokenLost ==
    \A c \in Comics :
        Lists!FlattenSeq(chunks[c]) \o current[c] = SubSeq(text[c], 1, read[c])

(* Chunks fit (163): a chunk exceeds maxChunkSize only if it is one word,    *)
(* which no split could help, and no two neighbours could have been one.     *)
ChunksFit ==
    \A c \in Comics : \A k \in DOMAIN chunks[c] :
        /\ Bytes(chunks[c][k]) <= MaxChunk \/ Len(chunks[c][k]) = 1
        /\ k < Len(chunks[c]) =>
               Bytes(chunks[c][k]) + 1 + Size[Head(chunks[c][k + 1])] > MaxChunk

(* The two services' limits agree: a comic is refused for its size only for  *)
(* a single word over the limit, and then it is refused on every update.     *)
RefusedForLongWord ==
    \A c \in Comics :
        LET oversized == \E t \in Tokenset(text[c]) : Size[t] > MaxPhrase
        IN  /\ stage[c] = "refused" => oversized
            /\ stage[c] = "stored" => ~oversized

(* The row is complete: its words are those of the whole text, wherever the  *)
(* chunks were cut.                                                          *)
RowHasAllWords ==
    \A c \in Comics : stage[c] = "stored" =>
        Tokenset(words[c]) = UNION {NormWords[t] : t \in Tokenset(text[c])}

Stored == {c \in Comics : stage[c] = "stored"}

(* The search of the table and the one of the index agree: over comics of    *)
(* one chunk both answer the same numbers of matched words in the same       *)
(* order, so neither hides a better comic than the other shows.  A comic of  *)
(* several chunks holds words twice and Find counts each (storage.go:40).    *)
SearchesAgree ==
    (\A c \in Stored : Len(chunks[c]) <= 1) =>
        \A q \in Queries, limit \in Limits :
            LET hits == [c \in Comics |-> DistinctHits(words[c], q)]
            IN  \A found \in FindResults(Stored, words, q, limit),
                   ranked \in RankResults(Stored, hits, limit) :
                    [k \in DOMAIN found |-> hits[found[k]]]
                        = [k \in DOMAIN ranked |-> hits[ranked[k]]]
=============================================================================
