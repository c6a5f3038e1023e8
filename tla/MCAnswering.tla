------------------------------ MODULE MCAnswering ------------------------------
(* Instances of Answering for TLC.  Characters are written as their codes.       *)
EXTENDS Answering

CONSTANTS t1, t2

a == <<97>>
b == <<98>>
u == <<117>>
v == <<118>>
ab == <<97, 32, 98>>          \* "a b"
percent == <<37, 50, 48>>     \* "%20"
pdf == <<122, 46, 80>>        \* "z.P"

long == <<97, 97, 97, 97>>
up == <<37, 50, 101, 37, 50, 101>>  \* "%2e%2e"

Below(path, name) == path \o Root \o name
MCHome == << <<104>> >>
In(names) == MCHome \o names

File(size) == [folder |-> FALSE, readable |-> TRUE, size |-> size]
Folder == [folder |-> TRUE, readable |-> TRUE, size |-> 0]
Unreadable(f) == [f EXCEPT !.readable = FALSE]

\* Sizes are below, at and above a kilobyte of 2 bytes; 8 does not fit into the int of 4
\* bits, and 15 is -1 there.
MCFiles ==
  <<>> :> Folder
  @@ MCHome :> Folder
  @@ In(<<a>>) :> Folder
  @@ In(<<a, IndexHtm>>) :> File(3)
  @@ In(<<ab>>) :> Folder
  @@ In(<<ab, a>>) :> Folder
  @@ In(<<b>>) :> Folder
  @@ In(<<b, percent>>) :> Folder
  @@ In(<<b, pdf>>) :> File(8)
  @@ In(<<b, ab>>) :> File(2)
  @@ In(<<b, <<Dot, 122>> >>) :> File(2)
  @@ In(<<b, <<120>> >>) :> Unreadable(File(2))
  @@ In(<<b, u>>) :> Unreadable(Folder)
  @@ In(<<v>>) :> File(15)
  @@ In(<<long>>) :> Folder
  @@ In(<<long, IndexHtm>>) :> File(2)

Part == {<<>>, <<Dot>>, DotDot, b}
UpTo(n) == UNION {[1 .. k -> Part] : k \in 1 .. n}

Nobody == [t \in {t1, t2} |-> {}]

\* One browser asks for one of the paths of up to three parts while the other is away, or
\* starts at the root and follows three links, or at "//" or "/b//" and follows two, or asks
\* for what is too long or has an encoded ".."; or both ask for a few paths.
MCVisits ==
  {[typed |-> [Nobody EXCEPT ![t1] = {Join(p)}], clicks |-> 0] : p \in UpTo(3)}
  \cup {[typed |-> [Nobody EXCEPT ![t1] = {Root}], clicks |-> 3],
        [typed |-> [Nobody EXCEPT ![t1] = {Below(Root, <<>>), Below(Below(Below(<<>>, b), <<>>), <<>>)}],
         clicks |-> 2],
        [typed |-> [Nobody EXCEPT ![t1] = {Root \o long \o long \o long \o long}], clicks |-> 0],
        [typed |-> [Nobody EXCEPT ![t1] = {Below(<<>>, up), Join(<<up, <<104>>, b>>)}], clicks |-> 0]}
  \cup {[typed  |-> t1 :> {Below(Root, v), Below(Below(<<>>, b), pdf)} @@ t2 :> {Below(<<>>, a), Below(Below(<<>>, b), <<>>)},
         clicks |-> 0]}

MCLengths == t1 :> {2, 5, 12, 17} @@ t2 :> {14}

MCFieldLines == <<[field |-> <<72, 111, 115, 116>>, value |-> <<104>>],
                  [field |-> <<65, 99, 99>>, value |-> <<42>>]>>

MCMimeTypes == <<46, 112>> :> "application/pdf" @@ <<46, 104, 116, 109>> :> "text/html"
================================================================================
