--------------------------------- MODULE Paths ---------------------------------
(***************************************************************************)
(* The conversions a path goes through between the address bar and the file *)
(* system: CPathResolver (src/src/CPathResolver.cxx), the two directions of *)
(* URL encoding (src/src/DashFileServer.cxx, src/src/NetworkThread.cxx) and *)
(* FullPath (src/src/DirectoryIndexing.cxx).                                *)
(*                                                                          *)
(* A text is a sequence of character codes.  The mapping of CPathResolver   *)
(* has the one entry that LocateResource adds: "/" is ".".                  *)
(***************************************************************************)
EXTENDS Integers, Sequences, SequencesExt

Text == Seq(0 .. 255)

Slash == 47
Dot == 46
Percent == 37

DotDot == <<Dot, Dot>>
Root == <<Slash>>

\* The elements of S in ascending order.
Ordered(S, less(_, _)) ==
  [k \in 1 .. Cardinality(S) |->
     CHOOSE e \in S : Cardinality({d \in S \ {e} : less(d, e)}) = k - 1]

--------------------------------------------------------------------------------
(* CPathResolver *)

\* What lies before, between and after the separators.
Pieces(path) ==
  LET cuts == {0, Len(path) + 1} \cup {i \in DOMAIN path : path[i] = Slash}
      cut  == Ordered(cuts, <)
  IN [k \in 1 .. Len(cut) - 1 |-> SubSeq(path, cut[k] + 1, cut[k + 1] - 1)]

\* Mutant: ".." drops everything collected so far.
EnterFromTop(r, piece) ==
  CASE ~r.legal \/ piece \in {<<>>, <<Dot>>} -> r
    [] r.legal /\ piece = DotDot /\ r.parts = <<>> -> [r EXCEPT !.legal = FALSE]
    [] r.legal /\ piece = DotDot /\ r.parts # <<>> -> [r EXCEPT !.parts = <<>>]
    [] OTHER                                 -> [r EXCEPT !.parts = Append(@, piece)]

\* EXN_ILLEGAL is thrown when ".." has nothing to remove.
Enter(r, piece) ==
  CASE ~r.legal \/ piece \in {<<>>, <<Dot>>} -> r
    [] r.legal /\ piece = DotDot /\ r.parts = <<>> -> [r EXCEPT !.legal = FALSE]
    [] r.legal /\ piece = DotDot /\ r.parts # <<>> -> [r EXCEPT !.parts = Front(@)]
    [] OTHER                                 -> [r EXCEPT !.parts = Append(@, piece)]

PathExplode(path) == FoldLeft(Enter, [legal |-> TRUE, parts |-> <<>>], Pieces(path))

Join(parts) == FoldLeft(LAMBDA text, part : text \o Root \o part, <<>>, parts)

PathClean(path) ==
  LET parts == PathExplode(path).parts
  IN IF parts = <<>> THEN Root ELSE Join(parts)

\* No node has children, so all parts are put behind the target of the root.
Resolve(path) ==
  [legal |-> PathExplode(path).legal,
   path  |-> <<Dot>> \o Join(PathExplode(PathClean(path)).parts)]

\* PathExplode says that it resolves "." and ".." and throws "if the resulting path is empty
\* or negative" (CPathResolver.cxx:190-192); an empty one is not refused.  Without a stack:
\* the depth behind a piece is the number of names up to there minus that of the "..", the
\* path is legal when it is never negative, and a name stays when the depth never falls
\* below its own again.
IsName(piece) == piece \notin {<<>>, <<Dot>>, DotDot}

ResolvedParts(path) ==
  LET piece == Pieces(path)
      depth(i) == Cardinality({j \in 1 .. i : IsName(piece[j])})
                    - Cardinality({j \in 1 .. i : piece[j] = DotDot})
      stays(i) == IsName(piece[i]) /\ \A j \in i .. Len(piece) : depth(j) >= depth(i)
      kept == Ordered({i \in DOMAIN piece : stays(i)}, <)
  IN [legal |-> \A i \in DOMAIN piece : depth(i) >= 0,
      parts |-> [k \in DOMAIN kept |-> piece[kept[k]]]]

--------------------------------------------------------------------------------
(* URL encoding *)

Digit == 48 .. 57
Capital == 65 .. 90
Small == 97 .. 122

Unreserved == Digit \cup Capital \cup Small \cup {45, Dot, 95, 126, Slash}

HexDigit(n) == IF n < 10 THEN n + 48 ELSE n + 87

EncodeCharacter(c) ==
  IF c \in Unreserved THEN <<c>> ELSE <<Percent, HexDigit(c \div 16), HexDigit(c % 16)>>

URLEncode(text) == FlattenSeq([i \in DOMAIN text |-> EncodeCharacter(text[i])])

HexValue(c) ==
  CASE c \in Digit     -> c - 48
    [] c \in 65 .. 70  -> c - 55
    [] c \in 97 .. 102 -> c - 87
    [] OTHER           -> -1

\* strtol of two characters in base 16, as a char: a blank or a sign may come first,
\* and a second character that is no digit ends the number.
Strtol(c, d) ==
  CASE HexValue(c) >= 0 /\ HexValue(d) >= 0                     -> 16 * HexValue(c) + HexValue(d)
    [] HexValue(c) >= 0 /\ HexValue(d) < 0                      -> HexValue(c)
    [] c \in (9 .. 13) \cup {32, 43} /\ HexValue(d) >= 0        -> HexValue(d)
    [] c = 45 /\ HexValue(d) >= 0                               -> (256 - HexValue(d)) % 256
    [] OTHER                                                    -> 0

\* The character that an escape at i stands for, 0 when there is none.
Escaped(text, i) ==
  IF text[i] = Percent /\ i + 2 <= Len(text) THEN Strtol(text[i + 1], text[i + 2]) ELSE 0

ParseURLEncoding(text) ==
  LET parsed[i \in 1 .. Len(text) + 1] ==
        IF i > Len(text) THEN <<>>
        ELSE IF Escaped(text, i) # 0 THEN <<Escaped(text, i)>> \o parsed[i + 3]
        ELSE <<text[i]>> \o parsed[i + 1]
  IN parsed[1]

--------------------------------------------------------------------------------
\* A name in a folder; one slash between them is enough.
FullPath(path, name) == path \o (IF Last(path) = Slash THEN <<>> ELSE Root) \o name

\* What lies above the last name.
Above(path) == SubSeq(path, 1, Len(path) - Len(Last(Pieces(path))) - 1)
================================================================================
