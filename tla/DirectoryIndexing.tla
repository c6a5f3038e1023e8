--------------------------- MODULE DirectoryIndexing ---------------------------
(***************************************************************************)
(* What a path leads to (src/src/DirectoryIndexing.cxx): a file, the index  *)
(* file of a folder, or an index of the folder made up on the fly.  Of the  *)
(* page only the table of entries is kept.                                  *)
(*                                                                          *)
(* The file system is a constant: it does not change while it is read.  It  *)
(* follows a path as the kernel does, piece by piece, so what a path still  *)
(* has of "." and ".." when it gets there counts.  Links and the permission *)
(* to pass through a folder are left out.                                   *)
(***************************************************************************)
EXTENDS Paths

CONSTANTS
  Files,    \* the files and folders: the names from "/" on -> [folder, readable, size]
  Home,     \* the current folder of the program
  IntLimit, \* 2^31: the integers below it, and from its negative on, fit into an int
  Kilo      \* 1024

IsFileName(name) == name \in Seq(1 .. 255) /\ IsName(name) /\ \A i \in DOMAIN name : name[i] # Slash

ASSUME IndexingAssumption ==
  /\ IsFiniteSet(DOMAIN Files)
  /\ {<<>>, Home} \subseteq DOMAIN Files /\ Files[<<>>].folder /\ Files[Home].folder
  /\ \A p \in DOMAIN Files :
       /\ p \in Seq(Seq(1 .. 255)) /\ \A i \in DOMAIN p : IsFileName(p[i])
       /\ p # <<>> => Front(p) \in DOMAIN Files /\ Files[Front(p)].folder
       /\ Files[p].folder \in BOOLEAN /\ Files[p].readable \in BOOLEAN /\ Files[p].size \in Nat
  /\ IntLimit \in Nat \ {0} /\ Kilo \in Nat \ {0}

--------------------------------------------------------------------------------
(* The file system *)

Folders == {p \in DOMAIN Files : Files[p].folder}

\* Nothing is there: no file has an empty name.
NoPlace == << <<>> >>

\* From a place to the next one; "/" is above itself.
Into(place, piece) ==
  CASE place \notin Folders                                     -> NoPlace
    [] place \in Folders /\ piece \in {<<>>, <<Dot>>}           -> place
    [] place \in Folders /\ piece = DotDot /\ place = <<>>      -> place
    [] place \in Folders /\ piece = DotDot /\ place # <<>>      -> Front(place)
    [] place \in Folders /\ IsName(piece) /\ Append(place, piece) \in DOMAIN Files
                                                               -> Append(place, piece)
    [] OTHER                                                   -> NoPlace

\* Where a path leads to that does not begin with "/".
Lookup(path) == FoldLeft(Into, Home, Pieces(path))

IsDirectory(path) == Lookup(path) \in Folders
Openable(path) == Lookup(path) \in DOMAIN Files /\ Files[Lookup(path)].readable

AllNames == {Last(p) : p \in DOMAIN Files \ {<<>>}}
Names(place) == {n \in AllNames : Append(place, n) \in DOMAIN Files}

--------------------------------------------------------------------------------
(* Sizes *)

\* Mutant: the size goes through an unsigned int of the same width.
ToUnsigned(n) == n % (2 * IntLimit)

\* static_cast<int> of a file position.
ToInt(n) == ((n + IntLimit) % (2 * IntLimit)) - IntLimit

SizeAt(place) ==
  IF place \in DOMAIN Files /\ Files[place].readable THEN ToInt(Files[place].size) ELSE -1

FileSize(path) == SizeAt(Lookup(path))

Mega == Kilo * Kilo
Giga == Mega * Kilo

\* A number and a unit; -1 stands for a file that cannot be read.
ConvertSizeToFriendly(size) ==
  CASE size = -1                      -> <<0, "Cannot Access">>
    [] size > Giga                    -> <<size \div Giga, "GB">>
    [] size > Mega /\ size <= Giga    -> <<size \div Mega, "MB">>
    [] size > Kilo /\ size <= Mega    -> <<size \div Kilo, "KB">>
    [] OTHER                          -> <<1, "< KB">>

--------------------------------------------------------------------------------
(* The table of an index *)

\* "../ always wins so it stays at the top": operator<.
LessName(a, b) ==
  \/ Len(a) < Len(b) /\ SubSeq(b, 1, Len(a)) = a
  \/ \E i \in DOMAIN a \cap DOMAIN b : a[i] < b[i] /\ SubSeq(a, 1, i - 1) = SubSeq(b, 1, i - 1)

\* Mutant: ".." is a folder like any other.
LessWithoutParent(a, b) ==
  IF a.Folder # b.Folder THEN a.Folder ELSE LessName(a.Name, b.Name)

Less(a, b) ==
  \/ a.Name = DotDot
  \/ b.Name # DotDot /\ a.Folder /\ ~b.Folder
  \/ b.Name # DotDot /\ a.Folder = b.Folder /\ LessName(a.Name, b.Name)

Entry(name, complete, folder, size) ==
  [Name |-> name, CompletePath |-> complete, Folder |-> folder, Size |-> size]

ParentEntry(virtual) == Entry(DotDot, FullPath(virtual, DotDot), TRUE, 0)

\* Mutant: a link is not encoded.
PlainEntry(virtual, place, name) ==
  LET file == Append(place, name)
  IN IF file \in Folders THEN Entry(name, FullPath(virtual, name) \o Root, TRUE, 0)
     ELSE Entry(name, FullPath(virtual, name), FALSE, SizeAt(file))

\* The link is made of the path the browser asked for and encoded once more.
EntryOf(virtual, place, name) ==
  LET link == URLEncode(FullPath(virtual, name))
      file == Append(place, name)
  IN IF file \in Folders THEN Entry(name, link \o Root, TRUE, 0)
     ELSE Entry(name, link, FALSE, SizeAt(file))

\* Mutant: hidden entries are listed.
IndexTablesWithHidden(virtual, place) ==
  LET entries == {EntryOf(virtual, place, n) : n \in Names(place)}
      parent  == IF virtual = Root THEN {} ELSE {ParentEntry(virtual)}
  IN {Ordered({e \in entries : e.Size # -1} \cup parent, Less)}

\* The tables there can be.  Hidden entries and files that cannot be read are left out.
\* The Size of a folder is never set: it may happen to be -1, and the folder left out.
IndexTables(virtual, place) ==
  LET entries == {EntryOf(virtual, place, n) : n \in {m \in Names(place) : Head(m) # Dot}}
      parent  == IF virtual = Root THEN {} ELSE {ParentEntry(virtual)}
      listed  == {e \in entries : e.Size # -1}
  IN {Ordered((listed \ dropped) \cup parent, Less) :
        dropped \in SUBSET {e \in listed : e.Folder}}

IndexHtml == <<105, 110, 100, 101, 120, 46, 104, 116, 109, 108>>
IndexHtm  == <<105, 110, 100, 101, 120, 46, 104, 116, 109>>

\* What GenerateFolderIndex finds: "none" is -1, "file" 0 with the path it leaves in
\* ArgPath, "index" 1.
Found(what, path) == [what |-> what, path |-> path]

GenerateFolderIndex(path) ==
  LET html == Openable(FullPath(path, IndexHtml))
      htm  == Openable(FullPath(path, IndexHtm))
  IN CASE ~IsDirectory(path) /\ ~Openable(path)   -> Found("none", path)
       [] ~IsDirectory(path) /\ Openable(path)    -> Found("file", path)
       [] IsDirectory(path) /\ html               -> Found("file", path \o Root \o IndexHtml)
       [] IsDirectory(path) /\ ~html /\ htm       -> Found("file", path \o Root \o IndexHtm)
       [] OTHER                                   -> Found("index", path)
================================================================================
