------------------------------ MODULE MCKeyLine ------------------------------
(* An instance of KeyLine for TLC. *)
EXTENDS KeyLine

\* The algorithm and a key; the same without a blank in front, without a key,
\* without a blank between, with another word for the key, with a comment that
\* looks like an option; a comment line; an option before the algorithm; white
\* space that is no blank before the algorithm, after the key, and in the way.
MCEnding == {<<Blank, Algo, Blank, Key>>, <<Algo, Blank, Key>>, <<Blank, Algo>>,
             <<Blank, Algo, Key>>, <<Blank, Algo, Blank, Other, Key>>,
             <<Blank, Blank, Algo, Blank, Key, Comma, VerifyRequired>>,
             <<Algo, Blank, Blank, Key, Blank, VerifyRequired>>,
             <<Hash, Blank, Algo, Blank, Key>>,
             <<Comma, VerifyRequired, Blank, Algo, Blank, Key>>,
             <<Quote, Blank, Algo, Blank, Key, Quote>>,
             <<Blank, Wide, Algo, Blank, Wide, Key, Wide, Other>>,
             <<Algo, Wide, Key>>}
=============================================================================
