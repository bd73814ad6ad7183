---------------------------- MODULE MCComicWords ----------------------------
(* Chunks of five bytes; tokens of one to six bytes of which one is a stop     *)
(* word, one gives two words and one is longer than any chunk.                 *)
EXTENDS ComicWords, TLC

CONSTANTS stop, one, two, long, x, y, z

Sizes == (stop :> 1) @@ (one :> 2) @@ (two :> 3) @@ (long :> 6)
Forms == (stop :> {}) @@ (one :> {x}) @@ (two :> {x, y}) @@ (long :> {z})
SomeTexts ==
    {<<>>, <<two>>, <<stop, two>>, <<one, two>>, <<two, one>>, <<one, one>>, <<stop, long>>,
     <<one, stop, two>>, <<two, stop, one>>, <<one, one, stop, two>>}
SomeQueries == (SUBSET {x, y, z}) \ {{}}
=============================================================================
