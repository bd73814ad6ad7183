--------------------------- MODULE MCSearchSystem ---------------------------
(* A small instance: comic 1 has the word a, comic 2 has a and b, b twice as a *)
(* comic of two chunks would.                                                  *)
EXTENDS SearchSystem

CONSTANTS a, b

TwoComics == <<<<a>>, <<b, a, b>>>>
OnePhrase == {{a, b}}

(* for the runs that show a disagreement: one comic with one word is enough *)
OneComic == <<<<a>>>>
OneWord  == {{a}}
=============================================================================
