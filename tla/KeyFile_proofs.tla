--------------------------- MODULE KeyFile_proofs ---------------------------
(* Theorems about KeyFile, for any tree, any files and any number of changes. *)
EXTENDS KeyFile, TLAPS

USE DEF tree, caller

LEMMA TypeInit == Init => TypeOK
<1> SUFFICES ASSUME Init PROVE TypeOK
  OBVIOUS
<1>1. PICK t \in Setup : link = t.link /\ leaf = t.leaf /\ safe = t.safe /\ meta = t.meta
  BY DEF Init
<1>2. /\ link \in Dir /\ leaf \in [Dir -> Inode \cup NoLeaf]
      /\ safe \in [Place -> BOOLEAN]
      /\ meta \in [Inode -> [regular : BOOLEAN, root : BOOLEAN, shared : BOOLEAN]]
  BY <1>1, SetupAssumption
<1> QED
  BY <1>2, ChangesAssumption DEF Init, TypeOK

\* A call that returns keeps its types.
LEMMA TypeReturn ==
  ASSUME TypeOK, NEW how, how # "pending", Return(how)
  PROVE  TypeOK'
  BY DEF TypeOK, Return

LEMMA TypeCall ==
  ASSUME TypeOK, OpenSecure \/ IoFails
  PROVE  TypeOK'
<1>1. CASE CheckPath
  BY <1>1, TypeReturn DEF CheckPath, TypeOK, Goto
<1>2. CASE OpenFails
  BY <1>2, TypeReturn DEF OpenFails, OpenError, NoLeaf
<1>3. CASE Open
  BY <1>3 DEF Open, Goto, TypeOK
<1>4. CASE Fstat
  BY <1>4, TypeReturn DEF Fstat, Stat, Goto, TypeOK
<1>5. CASE Canonicalize
  <2>1. CASE Return("NotFound") \/ Return("UnderUserWritableRoot")
    BY <2>1, TypeReturn
  <2>2. ASSUME NEW d \in Dir, ancestors' = IF strict THEN ToWalk(d) ELSE <<>>,
               found' = [same |-> leaf[link] = fd, placed |-> placed[link] = fd,
                         secured |-> FALSE],
               Goto("walk"), UNCHANGED fd
        PROVE  TypeOK'
    <3>1. ancestors' \in Seq(Place)
      BY <2>2, PlaceAssumption DEF ToWalk
    <3> QED
      BY <1>5, <2>2, <3>1 DEF TypeOK, Goto, Canonicalize
  <2> QED
    BY <1>5, <2>1, <2>2 DEF Canonicalize, TypeOK
<1>6. CASE Walk
  <2>1. CASE \E how \in {"BadOwner", "BadMode"} : Return(how)
    BY <2>1, TypeReturn
  <2>2. CASE ancestors' = Tail(ancestors) /\ Goto("walk") /\ UNCHANGED <<fd, found>>
    <3>1. ancestors' \in Seq(Place)
      BY <1>6, <2>2 DEF Walk, TypeOK
    <3> QED
      BY <1>6, <2>2, <3>1 DEF TypeOK, Goto, Walk
  <2> QED
    BY <1>6, <2>1, <2>2 DEF Walk
<1>7. CASE Read
  BY <1>7, TypeReturn DEF Read
<1>8. CASE IoFails
  BY <1>8, TypeReturn DEF IoFails
<1> QED
  BY <1>1, <1>2, <1>3, <1>4, <1>5, <1>6, <1>7, <1>8 DEF OpenSecure

LEMMA TypeWorld ==
  ASSUME TypeOK, World
  PROVE  TypeOK'
<1>1. ASSUME Change PROVE changes' \in 0 .. MaxChanges /\ UNCHANGED <<path, strict>>
  BY <1>1, ChangesAssumption DEF Change, TypeOK
<1>2. ASSUME NEW d \in Dir, Retarget(d) PROVE TypeOK'
  BY <1>1, <1>2 DEF Retarget, TypeOK
<1>3. ASSUME NEW d \in Dir, NEW i \in Inode, Install(d, i) PROVE TypeOK'
  BY <1>1, <1>3 DEF Install, Trusted, TypeOK
<1>4. ASSUME NEW d \in Dir, NEW what \in Inode \cup {Nothing, Symlink}, Move(d, what)
      PROVE  TypeOK'
  BY <1>1, <1>4 DEF Move, NoLeaf, TypeOK
<1>5. ASSUME NEW i \in Inode, Tighten(i) \/ Write(i) PROVE TypeOK'
  <2>1. CASE Tighten(i)
    <3>1. [regular |-> meta[i].regular, root |-> TRUE, shared |-> FALSE]
            \in [regular : BOOLEAN, root : BOOLEAN, shared : BOOLEAN]
      BY DEF TypeOK
    <3> QED
      BY <1>1, <2>1, <3>1 DEF Tighten, TypeOK
  <2>2. CASE Write(i)
    BY <1>1, <2>2 DEF Write, TypeOK
  <2> QED
    BY <1>5, <2>1, <2>2
<1>6. ASSUME NEW p \in Place, Loosen(p) PROVE TypeOK'
  BY <1>1, <1>6 DEF Loosen, TypeOK
<1>7. ASSUME NEW p \in Place, Secure(p) PROVE TypeOK'
  BY <1>1, <1>7 DEF Secure, TypeOK
<1> QED
  BY <1>2, <1>3, <1>4, <1>5, <1>6, <1>7 DEF World

\* TypeOK holds in every reachable state, whatever the constants.
THEOREM KeyFileType == Spec => []TypeOK
<1>1. TypeOK /\ [Next]_vars => TypeOK'
  BY TypeCall, TypeWorld DEF Next, vars, TypeOK
<1> QED
  BY TypeInit, <1>1, PTL DEF Spec
-----------------------------------------------------------------------------
(* Content *)

LEMMA ContentCall ==
  ASSUME TypeOK, ContentInv, OpenSecure \/ IoFails
  PROVE  ContentInv'
<1>1. UNCHANGED <<meta, author>>
  BY DEF OpenSecure, IoFails, CheckPath, OpenFails, Open, Fstat, Canonicalize, Walk, Read,
     Return, Goto
<1>2. CASE CheckPath \/ OpenFails \/ Open \/ IoFails
  BY <1>1, <1>2 DEF CheckPath, OpenFails, OpenError, NoLeaf, Open, IoFails, Return, Goto,
     TypeOK, ContentInv
<1>3. CASE Fstat
  BY <1>1, <1>3 DEF Fstat, Stat, Return, Goto, TypeOK, ContentInv
<1>4. CASE Canonicalize
  BY <1>1, <1>4 DEF Canonicalize, Return, Goto, TypeOK, ContentInv
<1>5. CASE Walk \/ Read
  BY <1>1, <1>5 DEF Walk, Read, Return, Goto, TypeOK, ContentInv
<1> QED
  BY <1>2, <1>3, <1>4, <1>5 DEF OpenSecure

\* Whatever is done to the tree, a file that would pass fstat is root's, and
\* an open file that has passed would pass again.
LEMMA ContentWorld ==
  ASSUME TypeOK, ContentInv, World
  PROVE  ContentInv'
<1>1. UNCHANGED <<pc, fd, outcome>>
  BY DEF World, Retarget, Install, Move, Tighten, Write, Loosen, Secure
<1>2. CASE UNCHANGED <<meta, author>>
  BY <1>1, <1>2 DEF ContentInv
<1>3. ASSUME NEW d \in Dir, NEW i \in Inode, Install(d, i) PROVE ContentInv'
  BY <1>1, <1>3 DEF Install, Trusted, TypeOK, ContentInv
<1>4. ASSUME NEW i \in Inode, Tighten(i) PROVE ContentInv'
  <2>1. meta[i] = Trusted =>
          [regular |-> meta[i].regular, root |-> TRUE, shared |-> FALSE] = Trusted
    BY DEF Trusted
  <2> QED
    BY <1>1, <1>4, <2>1 DEF Tighten, TypeOK, ContentInv
<1>5. ASSUME NEW i \in Inode, Write(i) PROVE ContentInv'
  <2>1. meta[i] # Trusted
    BY <1>5 DEF Write, Trusted
  <2> QED
    BY <1>1, <1>5, <2>1 DEF Write, TypeOK, ContentInv
<1> QED
  BY <1>2, <1>3, <1>4, <1>5 DEF World, Retarget, Move, Loosen, Secure
-----------------------------------------------------------------------------
(* Pins *)

LEMMA PinCall ==
  ASSUME TypeOK, PinInv, StrictPins, OpenSecure \/ IoFails
  PROVE  PinInv' /\ StrictPins'
<1>1. UNCHANGED <<strict, link, leaf, placed, safe>>
  BY DEF OpenSecure, IoFails, CheckPath, OpenFails, Open, Fstat, Canonicalize, Walk, Read,
     Return, Goto
<1>2. CASE CheckPath \/ OpenFails \/ Open \/ Fstat \/ IoFails
  BY <1>1, <1>2 DEF CheckPath, OpenFails, OpenError, NoLeaf, Open, Fstat, IoFails,
     Return, Goto, TypeOK, PinInv, StrictPins
<1>3. CASE Canonicalize
  <2>1. CASE Return("NotFound") \/ Return("UnderUserWritableRoot")
    BY <1>1, <2>1 DEF Return, PinInv, StrictPins
  <2>2. ASSUME NEW d \in IF leaf[link] = Symlink THEN Dir ELSE {link},
               ancestors' = IF strict THEN ToWalk(d) ELSE <<>>,
               found' = [same |-> leaf[link] = fd, placed |-> placed[link] = fd,
                         secured |-> FALSE],
               Goto("walk")
        PROVE  PinInv' /\ StrictPins'
    <3>1. outcome' = "pending"
      BY <1>3, <2>2 DEF Canonicalize, Goto, TypeOK
    <3>2. ASSUME strict, leaf[link] = fd, placed[link] # fd
          PROVE  \E p \in Range(ancestors') : ~safe[p]
      <4>1. d = link
        BY <1>3, <3>2, InodeAssumption DEF Canonicalize, NoLeaf, TypeOK
      <4> QED
        BY <2>2, <3>2, <4>1 DEF PinInv, TypeOK, ToWalk
    <3> QED
      BY <1>1, <2>2, <3>1, <3>2 DEF PinInv, StrictPins
  <2> QED
    BY <1>3, <2>1, <2>2 DEF Canonicalize
<1>4. CASE Walk
  <2>1. CASE \E how \in {"BadOwner", "BadMode"} : Return(how)
    BY <1>1, <2>1 DEF Return, PinInv, StrictPins
  <2>2. CASE /\ safe[Head(ancestors)] /\ ancestors' = Tail(ancestors)
             /\ Goto("walk") /\ UNCHANGED <<fd, found>>
    <3>1. \A p \in Range(ancestors) : p = Head(ancestors) \/ p \in Range(Tail(ancestors))
      <4> SUFFICES ASSUME NEW k \in DOMAIN ancestors, k # 1
                   PROVE  ancestors[k] \in Range(Tail(ancestors))
        BY <1>4 DEF Walk, TypeOK, Range
      <4>1. k - 1 \in DOMAIN Tail(ancestors) /\ Tail(ancestors)[k - 1] = ancestors[k]
        BY <1>4 DEF Walk, TypeOK
      <4> QED
        BY <4>1 DEF Range
    <3> QED
      BY <1>1, <1>4, <2>2, <3>1 DEF Walk, Goto, PinInv, StrictPins
  <2> QED
    BY <1>4, <2>1, <2>2 DEF Walk
<1>5. CASE Read
  <2>1. Range(ancestors) = {}
    BY <1>5 DEF Read, Range
  <2> QED
    BY <1>1, <1>5, <2>1 DEF Read, Return, PinInv, StrictPins, TypeOK
<1> QED
  BY <1>2, <1>3, <1>4, <1>5 DEF OpenSecure

\* A leaf is only moved where a directory is unsafe, and when one is set right
\* the leaves below it are stood for.
LEMMA PinWorld ==
  ASSUME TypeOK, PinInv, StrictPins, World
  PROVE  PinInv' /\ StrictPins'
<1>1. UNCHANGED <<strict, pc, ancestors, outcome>>
  BY DEF World, Retarget, Install, Move, Tighten, Write, Loosen, Secure, Change
<1>2. CASE UNCHANGED <<leaf, placed, safe, found>>
  BY <1>1, <1>2 DEF PinInv, StrictPins
<1>3. ASSUME NEW d \in Dir, NEW i \in Inode, Install(d, i) PROVE PinInv' /\ StrictPins'
  BY <1>1, <1>3 DEF Install, TypeOK, PinInv, StrictPins
<1>4. ASSUME NEW d \in Dir, NEW what, Move(d, what) PROVE PinInv' /\ StrictPins'
  BY <1>1, <1>4 DEF Move, TypeOK, PinInv, StrictPins
<1>5. ASSUME NEW p \in Place, Loosen(p) PROVE PinInv' /\ StrictPins'
  <2>1. \A q : ~safe[q] => ~safe'[q]
    BY <1>5 DEF Loosen, TypeOK
  <2> QED
    BY <1>1, <1>5, <2>1 DEF Loosen, PinInv, StrictPins
<1>6. ASSUME NEW p \in Place, Secure(p) PROVE PinInv' /\ StrictPins'
  <2>1. found'.secured
    BY <1>6 DEF Secure, TypeOK
  <2>2. ASSUME NEW d \in Dir, leaf'[d] # placed'[d]
        PROVE  \E q \in Range(Above[d]) : ~safe'[q]
    <3>1. p \notin Range(Above[d]) /\ leaf[d] # placed[d]
      BY <1>6, <2>2 DEF Secure
    <3>2. PICK q \in Range(Above[d]) : ~safe[q]
      BY <3>1 DEF PinInv
    <3>3. ~safe'[q]
      BY <1>6, <3>1, <3>2 DEF Secure, TypeOK
    <3> QED
      BY <3>2, <3>3
  <2> QED
    BY <1>1, <1>6, <2>1, <2>2 DEF PinInv, StrictPins
<1> QED
  BY <1>2, <1>3, <1>4, <1>5, <1>6 DEF World, Retarget, Tighten, Write
-----------------------------------------------------------------------------
\* Inv holds in every reachable state: TypeOK, ContentInv, PinInv, StrictPins.
THEOREM KeyFileInvariant == Spec => []Inv
<1>1. Init => Inv
  BY TypeInit DEF Init, Inv, ContentInv, PinInv, StrictPins, TypeOK
<1>2. Inv /\ [Next]_vars => Inv'
  <2> SUFFICES ASSUME Inv, [Next]_vars PROVE Inv'
    OBVIOUS
  <2>1. CASE OpenSecure \/ IoFails
    BY <2>1, TypeCall, ContentCall, PinCall DEF Inv
  <2>2. CASE World
    BY <2>2, TypeWorld, ContentWorld, PinWorld DEF Inv
  <2>3. CASE UNCHANGED vars
    BY <2>3 DEF vars, Inv, TypeOK, ContentInv, PinInv, StrictPins
  <2> QED
    BY <2>1, <2>2, <2>3 DEF Next
<1> QED
  BY <1>1, <1>2, PTL DEF Spec

\* What open_secure returns is written by nobody but the administrator.
THEOREM Vouched == Spec => []ContentVouched
<1>1. Inv => ContentVouched
  BY DEF Inv, ContentInv, ContentVouched
<1> QED
  BY <1>1, KeyFileInvariant, PTL

\* With strict_modes, and no directory set right meanwhile, a file that is read
\* and that its path named on canonicalize is one the administrator stood for.
THEOREM Pinned == Spec => []StrictPins
<1>1. Inv => StrictPins
  BY DEF Inv
<1> QED
  BY <1>1, KeyFileInvariant, PTL
=============================================================================
