------------------------------- MODULE Answering -------------------------------
(***************************************************************************)
(* How a request becomes an answer: the part of NetworkThreadLoop           *)
(* (src/src/NetworkThread.cxx) that parses what a browser sent, finds what  *)
(* its path leads to, and says how long and of which type that is.  Several *)
(* network threads do so at the same time, each for one connection, and     *)
(* share the static buffers of ReturnMimeType and ConvertSizeToFriendly.    *)
(*                                                                          *)
(* Sending the body and the connections of a thread are in NetworkThread,   *)
(* credentials too.  A browser asks for what is typed or follows a link of  *)
(* the index it was sent; it sends its request in pieces.                   *)
(***************************************************************************)
EXTENDS DirectoryIndexing, HTTPHeader

CONSTANTS
  Thread,     \* the network threads
  Visits,     \* [typed: the paths typed into the browser of each thread, clicks: the most
              \* links it follows from there]: one of these happens
  PathSpace,  \* 151: the size of the buffer that a path is resolved into
  Lengths,    \* bound, per thread: where a request may be cut
  FieldLines, \* the header fields of a browser: a sequence of [field, value]
  MimeTypes   \* extension -> type

ASSUME AnsweringAssumption ==
  /\ Visits \subseteq [typed : [Thread -> SUBSET Word], clicks : Nat]
  /\ PathSpace \in Nat \ {0}
  /\ Lengths \in [Thread -> SUBSET (Nat \ {0})]
  /\ FieldLines \in Seq([field : Word, value : Seq((0 .. 255) \ {NewLine})])
  /\ DOMAIN MimeTypes \subseteq Text

VARIABLES
  visit,           \* which of Visits it is
  browser,         \* per thread: the browser at the other end of its connection
  pc,              \* per thread: where it is
  BrowserRequest,  \* per thread: the header as parsed so far
  Resource,        \* per thread: the path that is to be answered, as a file name
  table,           \* per thread: the index under construction
  sizes,           \* per thread: the sizes told for the files in it, as far as it got
  answer,          \* per thread: what its browser is told
  mimetype,        \* the static buffer of ReturnMimeType
  FriendlyFileSize,\* the static buffer of ConvertSizeToFriendly
  disturbed        \* history: threads whose buffer another thread wrote before they read it

vars == <<visit, browser, pc, BrowserRequest, Resource, table, sizes, answer, mimetype,
          FriendlyFileSize, disturbed>>

--------------------------------------------------------------------------------
(* Browsers *)

Get == <<71, 69, 84>>
Http == <<72, 84, 84, 80>>

FieldLine(f) == f.field \o <<58, Space>> \o f.value \o <<Return, NewLine>>

FirstLine(path) == Get \o <<Space>> \o path \o <<Space>> \o Http \o <<Return, NewLine>>

RequestText(path) ==
  FirstLine(path) \o FlattenSeq([i \in DOMAIN FieldLines |-> FieldLine(FieldLines[i])])
    \o <<Return, NewLine>>

\* A browser puts a link that does not begin with "/" behind the last "/" of what it asked
\* for, and takes one that begins with "//" for the name of another host.
Absolute(asked, link) == IF link[1] = Slash THEN link ELSE Above(asked) \o Root \o link

Elsewhere(link) == Len(link) > 1 /\ link[1] = Slash /\ link[2] = Slash

\* It takes "." and ".." out of a link before it asks for it, and nothing else: what lies
\* between two slashes is a part though it is empty.
Walk(parts, piece) ==
  CASE piece = <<Dot>>                   -> parts
    [] piece = DotDot /\ parts = <<>>    -> parts
    [] piece = DotDot /\ parts # <<>>    -> Front(parts)
    [] OTHER                             -> Append(parts, piece)

Normalized(link) ==
  LET piece == Pieces(link)
      parts == FoldLeft(Walk, <<>>, Tail(piece))
  IN Join(IF Last(piece) \in {<<Dot>>, DotDot} THEN Append(parts, <<>>) ELSE parts)

NoPath == <<>>

\* asked is the path it sends, means the entry of an index that it follows (as a file
\* name), from the path of that index, clicks the links followed so far, rest what it has
\* not sent yet, and cut what of its request was sent in pieces.
Browser(asked, means, from, clicks) ==
  [asked |-> asked, means |-> means, from |-> from, clicks |-> clicks,
   rest |-> RequestText(asked), cut |-> "nothing"]

NoBrowser == [Browser(NoPath, NoPath, NoPath, 0) EXCEPT !.rest = <<>>]

\* The path the answer was chosen for, its kind, the file, type and length told, and
\* the table of an index.
Answer(for, what, path) ==
  [for |-> for, what |-> what, path |-> path, type |-> "", length |-> 0, table |-> <<>>]

NoAnswer == Answer(NoPath, "nothing", NoPath)

Init ==
  /\ visit \in Visits
  /\ browser = [t \in Thread |-> NoBrowser]
  /\ pc = [t \in Thread |-> "away"]
  /\ BrowserRequest = [t \in Thread |-> NoHeader]
  /\ Resource = [t \in Thread |-> NoPath]
  /\ table = [t \in Thread |-> <<>>]
  /\ sizes = [t \in Thread |-> <<>>]
  /\ answer = [t \in Thread |-> NoAnswer]
  /\ mimetype = "" /\ FriendlyFileSize = <<0, "">>
  /\ disturbed = {}

Goto(t, label) == pc' = [pc EXCEPT ![t] = label]
Buffers == <<mimetype, FriendlyFileSize, disturbed>>
Index == <<table, sizes>>

\* Every request has a connection of its own ("Connection: close").
Connect(t, b) ==
  /\ browser' = [browser EXCEPT ![t] = b]
  /\ BrowserRequest' = [BrowserRequest EXCEPT ![t] = NoHeader]
  /\ Resource' = [Resource EXCEPT ![t] = NoPath]
  /\ answer' = [answer EXCEPT ![t] = NoAnswer]
  /\ Goto(t, "receive")
  /\ UNCHANGED <<Index, Buffers>>

TypePath(t) ==
  /\ pc[t] = "away"
  /\ \E path \in visit.typed[t] : Connect(t, Browser(path, NoPath, NoPath, 0))

\* The entry leads to a name in the folder of the index, ".." to the folder above.
Target(path, name) ==
  IF name # DotDot THEN FullPath(path, name)
  ELSE IF path = <<Dot>> THEN path ELSE Above(path)

FollowLink(t) ==
  /\ pc[t] = "receive" /\ answer[t].what = "index" /\ browser[t].rest = <<>>
  /\ browser[t].clicks < visit.clicks
  /\ \E i \in DOMAIN answer[t].table :
       LET entry == answer[t].table[i]
       IN /\ ~Elsewhere(entry.CompletePath)
          /\ Connect(t, Browser(Normalized(Absolute(browser[t].asked, entry.CompletePath)),
                                Target(answer[t].path, entry.Name), answer[t].for,
                                browser[t].clicks + 1))

Gone(t) ==
  /\ browser' = [browser EXCEPT ![t] = NoBrowser]
  /\ BrowserRequest' = [BrowserRequest EXCEPT ![t] = NoHeader]
  /\ Resource' = [Resource EXCEPT ![t] = NoPath]
  /\ answer' = [answer EXCEPT ![t] = NoAnswer]
  /\ Goto(t, "away")

FollowElsewhere(t) ==
  /\ pc[t] = "receive" /\ answer[t].what = "index" /\ browser[t].rest = <<>>
  /\ browser[t].clicks < visit.clicks
  /\ \E i \in DOMAIN answer[t].table : Elsewhere(answer[t].table[i].CompletePath)
  /\ Gone(t)
  /\ UNCHANGED <<Index, Buffers>>

Leave(t) ==
  /\ pc[t] = "receive" /\ browser[t].rest = <<>>
  /\ Gone(t)
  /\ UNCHANGED <<Index, Buffers>>

--------------------------------------------------------------------------------
(* The request *)

\* Mutant: the answer is chosen again when there is one.
ChooseAgain(t, header) == header.AccessPath # <<>>

\* There is a path, and neither FileStream nor SendBuffer holds an answer.
ToBeAnswered(t, header) == header.AccessPath # <<>> /\ answer[t] = NoAnswer

\* A request is cut at most once, which is a bound.
Cuts(t) == IF browser[t].cut = "nothing" THEN {n \in Lengths[t] : n < Len(browser[t].rest)} ELSE {}

\* A piece of the request arrives.
Receive(t) ==
  /\ pc[t] = "receive" /\ browser[t].rest # <<>>
  /\ \E n \in Cuts(t) \cup {Len(browser[t].rest)} :
       LET header == ImportHeader(BrowserRequest[t], SubSeq(browser[t].rest, 1, n))
       IN /\ BrowserRequest' = [BrowserRequest EXCEPT ![t] = header]
          /\ browser' = [browser EXCEPT ![t].rest = SubSeq(@, n + 1, Len(@)),
               ![t].cut = CASE n = Len(browser[t].rest)               -> @
                            [] n # Len(browser[t].rest) /\ n < Len(FirstLine(browser[t].asked)) -> "line"
                            [] OTHER                                   -> "fields"]
          /\ Goto(t, IF ToBeAnswered(t, header) THEN "locate" ELSE "receive")
  /\ UNCHANGED <<Resource, Index, answer, Buffers>>

\* LocateResource fails: a 404 page without a header.
Illegal(t) ==
  /\ pc[t] = "locate" /\ ~Resolve(BrowserRequest[t].AccessPath).legal
  /\ answer' = [answer EXCEPT ![t] = Answer(BrowserRequest[t].AccessPath, "illegal", NoPath)]
  /\ Goto(t, "receive")
  /\ UNCHANGED <<browser, BrowserRequest, Resource, Index, Buffers>>

\* A path fits into the buffer together with the zero that ends it.
Fits(path) == Len(path) < PathSpace

\* What is decoded is not resolved again; the file system follows it as it is.
LocateResource(t) ==
  /\ pc[t] = "locate" /\ Resolve(BrowserRequest[t].AccessPath).legal
  /\ Fits(Resolve(BrowserRequest[t].AccessPath).path)
  /\ Resource' = [Resource EXCEPT
       ![t] = ParseURLEncoding(Resolve(BrowserRequest[t].AccessPath).path)]
  /\ Goto(t, "find")
  /\ UNCHANGED <<browser, BrowserRequest, Index, answer, Buffers>>

Told(t, what, path, type, length, entries) ==
  answer' = [answer EXCEPT ![t] =
    [Answer(BrowserRequest[t].AccessPath, what, path) EXCEPT
       !.type = type, !.length = length, !.table = entries]]

NotFound(t) ==
  /\ pc[t] = "find" /\ GenerateFolderIndex(Resource[t]).what = "none"
  /\ Told(t, "404", NoPath, "text/html", 0, <<>>)
  /\ Goto(t, "receive")
  /\ UNCHANGED <<browser, BrowserRequest, Resource, Index, Buffers>>

FindFile(t) ==
  /\ pc[t] = "find" /\ GenerateFolderIndex(Resource[t]).what = "file"
  /\ Fits(GenerateFolderIndex(Resource[t]).path)
  /\ Resource' = [Resource EXCEPT ![t] = GenerateFolderIndex(@).path]
  /\ Goto(t, "mime")
  /\ UNCHANGED <<browser, BrowserRequest, Index, answer, Buffers>>

\* strcpy of the resolved path, or strcat of the name of the index file, does not check the
\* size of the buffer.  Of the outcomes that this may have only the end of the program is
\* followed: nothing is said of what a path does that does not fit.
Overrun(t) ==
  /\ \/ /\ pc[t] = "locate" /\ Resolve(BrowserRequest[t].AccessPath).legal
        /\ ~Fits(Resolve(BrowserRequest[t].AccessPath).path)
     \/ /\ pc[t] = "find" /\ GenerateFolderIndex(Resource[t]).what = "file"
        /\ ~Fits(GenerateFolderIndex(Resource[t]).path)
  /\ pc' = [u \in Thread |-> "ended"]
  /\ UNCHANGED <<browser, BrowserRequest, Resource, Index, answer, Buffers>>

FindFolder(t) ==
  /\ pc[t] = "find" /\ GenerateFolderIndex(Resource[t]).what = "index"
  /\ Openable(Resource[t])
  /\ \E entries \in IndexTables(BrowserRequest[t].AccessPath, Lookup(Resource[t])) :
       table' = [table EXCEPT ![t] = entries]
  /\ sizes' = [sizes EXCEPT ![t] = <<>>]
  /\ Goto(t, "size")
  /\ UNCHANGED <<browser, BrowserRequest, Resource, answer, Buffers>>

\* directory_iterator throws when the folder cannot be read, and nothing catches that:
\* the program ends.
FindUnreadable(t) ==
  /\ pc[t] = "find" /\ GenerateFolderIndex(Resource[t]).what = "index"
  /\ ~Openable(Resource[t])
  /\ pc' = [u \in Thread |-> "ended"]
  /\ UNCHANGED <<browser, BrowserRequest, Resource, Index, answer, Buffers>>

--------------------------------------------------------------------------------
(* The sizes of an index: written into a static buffer, and copied from there *)

OnlyFiles(entries) ==
  LET at == Ordered({i \in DOMAIN entries : ~entries[i].Folder}, <)
  IN [k \in DOMAIN at |-> entries[at[k]]]

\* The files come last in a table; this is the next to be given its size.
NextFile(t) == OnlyFiles(table[t])[Len(sizes[t]) + 1]
AllSized(t) == Len(sizes[t]) = Len(OnlyFiles(table[t]))

\* t writes a buffer that those in the given places have still to read.
Disturb(t, places) == disturbed' = (disturbed \ {t}) \cup {u \in Thread \ {t} : pc[u] \in places}

\* Mutant: what is not larger than a kilobyte leaves the buffer as it is.
WriteLargeSize(t) ==
  /\ pc[t] = "size" /\ ~AllSized(t)
  /\ IF NextFile(t).Size > Kilo THEN FriendlyFileSize' = ConvertSizeToFriendly(NextFile(t).Size)
     ELSE UNCHANGED FriendlyFileSize
  /\ Disturb(t, {"copy size"})
  /\ Goto(t, "copy size")
  /\ UNCHANGED <<browser, BrowserRequest, Resource, Index, answer, mimetype>>

WriteSize(t) ==
  /\ pc[t] = "size" /\ ~AllSized(t)
  /\ FriendlyFileSize' = ConvertSizeToFriendly(NextFile(t).Size)
  /\ Disturb(t, {"copy size"})
  /\ Goto(t, "copy size")
  /\ UNCHANGED <<browser, BrowserRequest, Resource, Index, answer, mimetype>>

CopySize(t) ==
  /\ pc[t] = "copy size"
  /\ sizes' = [sizes EXCEPT ![t] = Append(@, FriendlyFileSize)]
  /\ Goto(t, "size")
  /\ UNCHANGED <<browser, BrowserRequest, Resource, table, answer, Buffers>>

IndexDone(t) ==
  /\ pc[t] = "size" /\ AllSized(t)
  /\ Told(t, "index", Resource[t], "text/html", 0, table[t])
  /\ table' = [table EXCEPT ![t] = <<>>] /\ sizes' = [sizes EXCEPT ![t] = <<>>]
  /\ Goto(t, "receive")
  /\ UNCHANGED <<browser, BrowserRequest, Resource, Buffers>>

--------------------------------------------------------------------------------
(* The type of a file: written into a static buffer as well, in two steps *)

Lower(text) == [i \in DOMAIN text |-> IF text[i] \in Capital THEN text[i] + 32 ELSE text[i]]

\* From the last period on, or everything when there is none behind the first character.
Extension(path) ==
  Lower(SubSeq(path, Max({1} \cup {i \in DOMAIN path : path[i] = Dot}), Len(path)))

\* Mutant: the default is not written.
KeepType(t) ==
  /\ pc[t] = "mime"
  /\ Disturb(t, {"match", "copy type"})
  /\ Goto(t, "match")
  /\ UNCHANGED <<browser, BrowserRequest, Resource, Index, answer, mimetype, FriendlyFileSize>>

DefaultType(t) ==
  /\ pc[t] = "mime"
  /\ mimetype' = "text/plain"
  /\ Disturb(t, {"match", "copy type"})
  /\ Goto(t, "match")
  /\ UNCHANGED <<browser, BrowserRequest, Resource, Index, answer, FriendlyFileSize>>

MatchType(t) ==
  /\ pc[t] = "match" /\ Extension(Resource[t]) \in DOMAIN MimeTypes
  /\ mimetype' = MimeTypes[Extension(Resource[t])]
  /\ Disturb(t, {"match", "copy type"})
  /\ Goto(t, "copy type")
  /\ UNCHANGED <<browser, BrowserRequest, Resource, Index, answer, FriendlyFileSize>>

NoMatch(t) ==
  /\ pc[t] = "match" /\ Extension(Resource[t]) \notin DOMAIN MimeTypes
  /\ Goto(t, "copy type")
  /\ UNCHANGED <<browser, BrowserRequest, Resource, Index, answer, Buffers>>

\* The type is copied, the file opened and the header sent.
SendHeader(t) ==
  /\ pc[t] = "copy type" /\ FileSize(Resource[t]) # -1
  /\ Told(t, "file", Resource[t], mimetype, FileSize(Resource[t]), <<>>)
  /\ Goto(t, "receive")
  /\ UNCHANGED <<browser, BrowserRequest, Resource, Index, Buffers>>

\* OpenFile has an error in common with a file whose size becomes -1 as an int.
OpenFails(t) ==
  /\ pc[t] = "copy type" /\ FileSize(Resource[t]) = -1
  /\ Gone(t)
  /\ UNCHANGED <<Index, Buffers>>

--------------------------------------------------------------------------------
Step(t) ==
  \/ TypePath(t) \/ FollowLink(t) \/ FollowElsewhere(t) \/ Leave(t)
  \/ Receive(t) \/ Illegal(t) \/ LocateResource(t) \/ Overrun(t)
  \/ NotFound(t) \/ FindFile(t) \/ FindFolder(t) \/ FindUnreadable(t)
  \/ WriteSize(t) \/ CopySize(t) \/ IndexDone(t)
  \/ DefaultType(t) \/ MatchType(t) \/ NoMatch(t) \/ SendHeader(t) \/ OpenFails(t)

Next == (\E t \in Thread : Step(t)) /\ UNCHANGED visit

Spec == Init /\ [][Next]_vars

--------------------------------------------------------------------------------
(* Properties *)

TableEntry == [Name : Text, CompletePath : Text, Folder : BOOLEAN, Size : Int]
SizeTold == Nat \X {"", "Cannot Access", "GB", "MB", "KB", "< KB"}
TypeTold == {"", "text/plain", "text/html"} \cup Range(MimeTypes)

\* Every variable has its type; in particular no Content-Length is outside an int.
AnsweringTypeOK ==
  /\ visit \in Visits
  /\ browser \in [Thread -> [asked : Text, means : Text, from : Text, rest : Text,
                          clicks : Nat, cut : {"nothing", "fields", "line"}]]
  /\ pc \in [Thread -> {"away", "receive", "locate", "find", "size", "copy size", "mime", "match",
                        "copy type", "ended"}]
  /\ \A t \in Thread :
       /\ BrowserRequest[t].AccessType \in Text /\ BrowserRequest[t].AccessPath \in Text
       /\ BrowserRequest[t].AccessProtocol \in Text
       /\ DOMAIN BrowserRequest[t].HeaderFields \subseteq Text
       /\ Range(BrowserRequest[t].HeaderFields) \subseteq Text
  /\ Resource \in [Thread -> Text]
  /\ table \in [Thread -> Seq(TableEntry)]
  /\ sizes \in [Thread -> Seq(SizeTold)]
  /\ answer \in [Thread ->
       [for : Text, what : {"nothing", "illegal", "404", "index", "file"}, path : Text, type : TypeTold,
        length : -IntLimit .. IntLimit - 1, table : Seq(TableEntry)]]
  /\ mimetype \in TypeTold /\ FriendlyFileSize \in SizeTold
  /\ disturbed \subseteq Thread

\* "Splits paths into parts, automatically resolving "." and ".."" (CPathResolver.cxx:190):
\* cleaned twice and put together again, a path leads to what the pieces that no ".."
\* takes back lead to, and it is refused exactly when a ".." has nothing to take back.
\* "Throws EXN_ILLEGAL if the resulting path is empty or negative" (lines 164, 192) is true
\* of the second only: what is left of "/" or "/b/.." is empty and becomes "/" (line 174).
\* It is about the path as it is resolved: decoding comes after that.
ResolvedAsAsked ==
  \A t \in Thread :
    LET asked == ResolvedParts(BrowserRequest[t].AccessPath)
    IN /\ pc[t] = "find" =>
            asked.legal /\ Resource[t] = ParseURLEncoding(<<Dot>> \o Join(asked.parts))
       /\ answer[t].what = "illegal" => ~ResolvedParts(answer[t].for).legal

\* A browser whose first line arrives uncut is answered for the path it asked for, however
\* its other lines are cut and whatever they are taken for.
AnswersTheAsked ==
  \A t \in Thread :
    (answer[t] # NoAnswer /\ browser[t].cut # "line") => answer[t].for = browser[t].asked

\* The loop over the fields ends at one of less than three characters, a later line of the
\* same field replaces its value, and the line behind the last one is stored under the last
\* field without its last character.
Readable(i) ==
  /\ \A j \in 1 .. i : Len(FieldLines[j].field) > 2
  /\ \A j \in i + 1 .. Len(FieldLines) : FieldLines[j].field # FieldLines[i].field
  /\ FieldLines[i].field # Front(Last(FieldLines).field)

\* The other fields of a request that arrives uncut can be read back, though the line behind
\* the last one is read as a field as well.
FieldsReadBack ==
  \A t \in Thread, i \in DOMAIN FieldLines :
    (pc[t] = "locate" /\ browser[t].cut = "nothing" /\ Readable(i))
      => GetValue(BrowserRequest[t], FieldLines[i].field) = FieldLines[i].value \o <<Return>>

\* Nothing in the path of an index needs to be encoded, and it is made of names alone, with
\* a slash before each and perhaps one at the end.
Plain(path) ==
  LET names == PathExplode(path).parts
  IN path # <<>> /\ URLEncode(path) = path /\ path \in {Join(names), Join(names) \o Root}

LeadsTo(a, file) ==
  a.path = GenerateFolderIndex(file).path /\ a.what = GenerateFolderIndex(file).what

\* A link of an index leads to the entry it stands for, whatever the name of that entry,
\* provided that the path of the index itself needs no encoding and has no empty part.
LinksLead ==
  \A t \in Thread :
    LET b == browser[t]
    IN (b.means # NoPath /\ answer[t] # NoAnswer /\ b.cut # "line" /\ Plain(b.from))
         => LeadsTo(answer[t], b.means)

\* "... an HTML index of the contents of that folder, and all subfolders in it will also
\* be browsable." (README.DOC:55)
SubfoldersBrowsable ==
  \A t \in Thread :
    LET b == browser[t]
    IN (b.means # NoPath /\ IsDirectory(b.means) /\ answer[t] # NoAnswer /\ b.cut # "line") => LeadsTo(answer[t], b.means)

\* An index lists the files of its folder that are not hidden and can be read, and only
\* those; of its subfolders it lists no hidden one and nothing that is not there.
IndexLists ==
  \A t \in Thread :
    LET a == answer[t]
        listed == {a.table[i].Name : i \in DOMAIN a.table} \ {DotDot}
        there  == {n \in Names(Lookup(a.path)) : n[1] # Dot}
        file(n) == Files[Append(Lookup(a.path), n)]
        files  == {n \in there : ~file(n).folder /\ file(n).readable /\ ToInt(file(n).size) # -1}
    IN a.what = "index" =>
         /\ Cardinality(listed) = Cardinality({i \in DOMAIN a.table : a.table[i].Name # DotDot})
         /\ files \subseteq listed /\ listed \subseteq files \cup {n \in there : file(n).folder}

\* "../ is always on top in the generated indexes" (CHANGES.DOC:48), then come the folders,
\* then the files, each by their names.
IndexOrdered ==
  \A t \in Thread :
    LET a == answer[t].table
    IN \A i, j \in DOMAIN a : i < j =>
         /\ a[j].Name # DotDot
         /\ a[j].Folder => a[i].Folder
         /\ (a[i].Folder = a[j].Folder /\ a[i].Name # DotDot) => LessName(a[i].Name, a[j].Name)

\* The type told for a file is that of its extension, unless another thread wrote the
\* shared buffer in between.
TypeOf(path) ==
  IF Extension(path) \in DOMAIN MimeTypes THEN MimeTypes[Extension(path)] ELSE "text/plain"

OwnType ==
  [][\A t \in Thread : SendHeader(t) => answer'[t].type = TypeOf(Resource[t]) \/ t \in disturbed]_vars

\* The size told for a file of an index is its own, with the same exception.
OwnSize ==
  [][\A t \in Thread : CopySize(t) =>
       Last(sizes'[t]) = ConvertSizeToFriendly(NextFile(t).Size) \/ t \in disturbed]_vars
================================================================================
