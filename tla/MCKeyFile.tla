------------------------------ MODULE MCKeyFile ------------------------------
(* An instance of KeyFile for TLC: a directory outside of the user-writable  *)
(* roots and one inside, below a common root directory.                      *)
EXTENDS KeyFile, TLC

CONSTANTS root, security, home, i1, i2

MCDir       == {security, home}
MCPlace     == {root, security, home}
MCForbidden == {home}
MCAbove     == [d \in MCDir |-> <<d, root>>]
MCInode     == {i1, i2}

\* The key file: right, writable by others, or a FIFO.  The other file: the
\* user's, or an older version that the administrator made.
Shared  == [Trusted EXCEPT !.shared = TRUE]
Fifo    == [Trusted EXCEPT !.regular = FALSE]
Users   == [Trusted EXCEPT !.root = FALSE]
MCSetup ==
  {[link |-> l, leaf |-> security :> k @@ home :> h,
    safe |-> root :> r @@ security :> s @@ home :> FALSE,
    meta |-> i1 :> m @@ i2 :> n] :
      l \in MCDir, k \in {i1, Nothing, Denied}, h \in {i2, Symlink},
      r \in {TRUE}, s \in BOOLEAN, m \in {Trusted, Shared, Fifo}, n \in {Trusted, Users}}
=============================================================================
