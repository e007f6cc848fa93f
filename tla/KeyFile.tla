------------------------------- MODULE KeyFile -------------------------------
(***************************************************************************)
(* open_secure (src/src/authfile.rs), one system call at a time, while the *)
(* administrator and a user change the tree.  The code holds a descriptor  *)
(* and a path: the descriptor stays with the file that was opened, the     *)
(* path is resolved anew by open and canonicalize.  The configured path    *)
(* leads through one link into a directory of Dir, where it names the leaf.*)
(***************************************************************************)
EXTENDS Naturals, Sequences, FiniteSets, Functions

CONSTANTS
  Place,       \* directories that may be ancestors of the file
  Dir,         \* those the configured path may lead to
  Above,       \* Above[d]: d and the directories above it, nearest first
  Forbidden,   \* directories of Dir under a user-writable root
  Inode,       \* files
  Nothing, Symlink, Denied,  \* a leaf that is no file: missing, a link, unreadable
  Setup,       \* trees a call may find: [link, leaf, safe, meta]
  MaxChanges   \* bound: changes made to the tree

NoLeaf == {Nothing, Symlink, Denied}

ASSUME PlaceAssumption ==
  /\ Dir \subseteq Place /\ Forbidden \subseteq Dir
  /\ Above \in [Dir -> Seq(Place)]
  /\ \A d \in Dir : Above[d] # <<>>
ASSUME SetupAssumption ==
  Setup \subseteq [link : Dir, leaf : [Dir -> Inode \cup NoLeaf], safe : [Place -> BOOLEAN],
                   meta : [Inode -> [regular : BOOLEAN, root : BOOLEAN, shared : BOOLEAN]]]
ASSUME InodeAssumption == IsFiniteSet(Inode) /\ Inode \cap NoLeaf = {}
ASSUME ChangesAssumption == MaxChanges \in Nat

VARIABLES
  path,       \* the configured path: "relative", "forbidden" by its text, or "plain"
  strict,     \* opts.strict_modes
  link,       \* the directory the path leads to
  leaf,       \* leaf[d]: what the path's last component names in d
  safe,       \* safe[p]: p belongs to root and only root may write to it
  meta,       \* meta[i]: [regular, root, shared]: its type, owner and mode
  author,     \* author[i]: who wrote the content, "root" or "user"
  placed,     \* placed[d]: the leaf the administrator last stood for (history)
  changes,    \* changes made so far
  pc,         \* the step of open_secure
  fd,         \* the open file, or Nothing
  ancestors,  \* what is left of the ancestors to walk
  found,      \* on canonicalize: was the leaf the open file, and stood for (history)
  outcome     \* "pending", "content", an OpenError, or an io::ErrorKind

tree   == <<link, leaf, safe, meta, author, placed, changes>>
caller == <<pc, fd, ancestors, found, outcome>>
vars   == <<path, strict, tree, caller>>

Trusted == [regular |-> TRUE, root |-> TRUE, shared |-> FALSE]

Init ==
  /\ path \in {"relative", "forbidden", "plain"}
  /\ strict \in BOOLEAN
  /\ \E t \in Setup : link = t.link /\ leaf = t.leaf /\ safe = t.safe /\ meta = t.meta
  /\ author = [i \in Inode |-> IF meta[i] = Trusted THEN "root" ELSE "user"]
  /\ placed = leaf
  /\ changes = 0
  /\ pc = "check_path" /\ fd = Nothing /\ ancestors = <<>>
  /\ found = [same |-> FALSE, placed |-> FALSE, secured |-> FALSE]
  /\ outcome = "pending"
-----------------------------------------------------------------------------
(* open_secure *)

Return(how) ==
  /\ pc' = "done"
  /\ outcome' = how
  /\ UNCHANGED <<path, strict, tree, fd, ancestors, found>>

Goto(step) == pc' = step /\ UNCHANGED <<path, strict, tree, outcome>>

CheckPath ==
  /\ pc = "check_path"
  /\ \/ path = "relative" /\ Return("NotAbsolute")
     \/ path = "forbidden" /\ Return("UnderUserWritableRoot")
     \/ path = "plain" /\ Goto("open") /\ UNCHANGED <<fd, ancestors, found>>

OpenError(what) == CASE what = Nothing -> "NotFound"
                     [] what = Symlink -> "FilesystemLoop"
                     [] what = Denied  -> "PermissionDenied"

\* Mutant: the error of open is dropped.
OpenErrorDropped ==
  /\ pc = "open"
  /\ leaf[link] \in NoLeaf
  /\ Goto("fstat")
  /\ UNCHANGED <<fd, ancestors, found>>

OpenFails ==
  /\ pc = "open"
  /\ leaf[link] \in NoLeaf
  /\ Return(OpenError(leaf[link]))

\* Mutant: no O_NONBLOCK, and a file that is not regular is a FIFO.
OpenBlocking ==
  /\ pc = "open"
  /\ leaf[link] \in Inode
  /\ meta[leaf[link]].regular
  /\ fd' = leaf[link]
  /\ Goto("fstat")
  /\ UNCHANGED <<ancestors, found>>

Open ==
  /\ pc = "open"
  /\ leaf[link] \in Inode
  /\ fd' = leaf[link]
  /\ Goto("fstat")
  /\ UNCHANGED <<ancestors, found>>

\* Mutant: the metadata are those the path names, not those of the open file.
StatPath == IF leaf[link] \in Inode THEN meta[leaf[link]] ELSE meta[fd]

Stat == meta[fd]

Fstat ==
  /\ pc = "fstat"
  /\ \/ ~Stat.regular /\ Return("NotRegularFile")
     \/ Stat.regular /\ ~Stat.root /\ Return("BadOwner")
     \/ Stat.regular /\ Stat.root /\ Stat.shared /\ Return("BadMode")
     \/ Stat = Trusted /\ Goto("canonicalize") /\ UNCHANGED <<fd, ancestors, found>>

\* Mutant: the walk begins one directory too high.
WalkAbove(d) == Tail(Above[d])

\* With strict_modes, every directory above the leaf; otherwise none.
ToWalk(d) == Above[d]

\* canonicalize follows a link in the leaf too, to wherever it leads.
Canonicalize ==
  /\ pc = "canonicalize"
  /\ IF leaf[link] = Nothing THEN Return("NotFound")
     ELSE \E d \in IF leaf[link] = Symlink THEN Dir ELSE {link} :
            IF d \in Forbidden THEN Return("UnderUserWritableRoot")
            ELSE /\ ancestors' = IF strict THEN ToWalk(d) ELSE <<>>
                 /\ found' = [same |-> leaf[link] = fd, placed |-> placed[link] = fd,
                              secured |-> FALSE]
                 /\ Goto("walk") /\ UNCHANGED fd

Walk ==
  /\ pc = "walk"
  /\ ancestors # <<>>
  /\ IF safe[Head(ancestors)]
     THEN ancestors' = Tail(ancestors) /\ Goto("walk") /\ UNCHANGED <<fd, found>>
     ELSE \E how \in {"BadOwner", "BadMode"} : Return(how)

Read ==
  /\ pc = "walk"
  /\ ancestors = <<>>
  /\ \E how \in {"content", "InvalidData"} : Return(how)

\* Any system call may fail for a reason of its own.
IoFails ==
  /\ pc \in {"open", "fstat", "canonicalize", "walk"}
  /\ Return("Other")
-----------------------------------------------------------------------------
(* The administrator *)

Change == changes < MaxChanges /\ changes' = changes + 1 /\ UNCHANGED <<path, strict>>

\* A new file is renamed into place.
Install(d, i) ==
  /\ Change
  /\ i \notin Range(leaf) \cup Range(placed) \cup {fd}
  /\ meta' = [meta EXCEPT ![i] = Trusted]
  /\ author' = [author EXCEPT ![i] = "root"]
  /\ leaf' = [leaf EXCEPT ![d] = i]
  /\ placed' = [placed EXCEPT ![d] = i]
  /\ UNCHANGED <<link, safe, caller>>

\* Owner and mode of a file are set right, its content having been looked at.
Tighten(i) ==
  /\ Change
  /\ meta' = [meta EXCEPT ![i] = [regular |-> @.regular, root |-> TRUE, shared |-> FALSE]]
  /\ author' = [author EXCEPT ![i] = "root"]
  /\ UNCHANGED <<link, leaf, safe, placed, caller>>

Retarget(d) ==
  /\ Change
  /\ link' = d
  /\ UNCHANGED <<leaf, safe, meta, author, placed, caller>>

Loosen(p) ==
  /\ Change
  /\ safe' = [safe EXCEPT ![p] = FALSE]
  /\ UNCHANGED <<link, leaf, meta, author, placed, caller>>

\* A directory is set right, what lies below it having been looked at.
Secure(p) ==
  /\ Change
  /\ safe' = [safe EXCEPT ![p] = TRUE]
  /\ placed' = [d \in Dir |-> IF p \in Range(Above[d]) THEN leaf[d] ELSE placed[d]]
  /\ found' = [found EXCEPT !.secured = TRUE]
  /\ UNCHANGED <<link, leaf, meta, author, pc, fd, ancestors, outcome>>
-----------------------------------------------------------------------------
(* The user *)

\* Below a directory the user may write to, any file may be moved into place.
Move(d, what) ==
  /\ Change
  /\ \E p \in Range(Above[d]) : ~safe[p]
  /\ leaf' = [leaf EXCEPT ![d] = what]
  /\ UNCHANGED <<link, safe, meta, author, placed, caller>>

Write(i) ==
  /\ Change
  /\ ~meta[i].root \/ meta[i].shared
  /\ author' = [author EXCEPT ![i] = "user"]
  /\ UNCHANGED <<link, leaf, safe, meta, placed, caller>>
-----------------------------------------------------------------------------
OpenSecure == CheckPath \/ OpenFails \/ Open \/ Fstat \/ Canonicalize \/ Walk \/ Read

World ==
  \/ \E d \in Dir : Retarget(d)
  \/ \E d \in Dir, i \in Inode : Install(d, i)
  \/ \E d \in Dir, what \in Inode \cup {Nothing, Symlink} : Move(d, what)
  \/ \E i \in Inode : Tighten(i) \/ Write(i)
  \/ \E p \in Place : Loosen(p) \/ Secure(p)

Next == OpenSecure \/ IoFails \/ World

Spec == Init /\ [][Next]_vars

\* Straight-line code: the call goes on; nobody has to change the tree.
FairSpec == Spec /\ WF_vars(OpenSecure)
-----------------------------------------------------------------------------
(* Properties *)

\* Every variable has its type.
TypeOK ==
  /\ path \in {"relative", "forbidden", "plain"} /\ strict \in BOOLEAN /\ link \in Dir
  /\ leaf \in [Dir -> Inode \cup NoLeaf] /\ placed \in [Dir -> Inode \cup NoLeaf]
  /\ safe \in [Place -> BOOLEAN]
  /\ meta \in [Inode -> [regular : BOOLEAN, root : BOOLEAN, shared : BOOLEAN]]
  /\ author \in [Inode -> {"root", "user"}]
  /\ changes \in 0 .. MaxChanges
  /\ fd \in Inode \cup {Nothing} /\ ancestors \in Seq(Place)
  /\ found \in [same : BOOLEAN, placed : BOOLEAN, secured : BOOLEAN]
  /\ pc \in {"check_path", "open", "fstat", "canonicalize", "walk", "done"}
  /\ pc \in {"fstat", "canonicalize", "walk"} => fd \in Inode
  /\ pc # "done" <=> outcome = "pending"

\* From the time the open file has passed fstat, nobody but the administrator
\* can have written what is read from it, with strict_modes or without, even
\* if a user swaps the leaf or owns the directories (open_secure, step 4).
ContentVouched ==
  pc \in {"canonicalize", "walk"} \/ outcome = "content" => author[fd] = "root"

\* With strict_modes, a file that the path still named when it was resolved
\* again is the one the administrator stood for there, not an older one that a
\* user moved into place, unless a directory was set right during the walk.
StrictPins ==
  outcome = "content" /\ strict /\ found.same /\ ~found.secured => found.placed

\* What the two rest on.  Content: a file that fstat lets pass is the
\* administrator's, and the open file still is one of those.  Pins: where the
\* leaf is not the one stood for, a directory above it is unsafe, and as long
\* as the walk may come upon such a directory it has not been walked.
ContentInv ==
  /\ \A i \in Inode : meta[i] = Trusted => author[i] = "root"
  /\ pc \in {"canonicalize", "walk"} \/ outcome = "content" =>
       fd \in Inode /\ meta[fd] = Trusted
PinInv ==
  /\ \A d \in Dir : leaf[d] # placed[d] => \E p \in Range(Above[d]) : ~safe[p]
  /\ pc = "walk" /\ strict /\ found.same /\ ~found.secured /\ ~found.placed =>
       \E p \in Range(ancestors) : ~safe[p]
Inv == TypeOK /\ ContentInv /\ PinInv /\ StrictPins

\* The call ends, whatever kind of file is in place (O_NONBLOCK).
OpenEnds == <>(pc = "done")
=============================================================================
