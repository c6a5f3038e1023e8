------------------------------ MODULE MessageBoard -----------------------------
(***************************************************************************)
(* What the message server promises to its clients, without its queue, its  *)
(* map, its counters and its locks.  Every message goes through one life:   *)
(* it is posted, opened in the order of posting for the messengers it is    *)
(* addressed to, and leaves the board once: taken by one of its readers,    *)
(* read after the last of its readers is done with it, or expired.          *)
(***************************************************************************)
EXTENDS Integers

CONSTANTS
  Address,      \* the readers
  MaxMessages   \* bound: messages in a behaviour

VARIABLES
  status,       \* per message: the stage of its life
  readers       \* per message: who has still to read it or decide on it

boardVars == <<status, readers>>

ID     == 0 .. (MaxMessages - 1)
Status == {"unsent", "queued", "open", "taken", "read", "expired"}

Init ==
  /\ status = [i \in ID |-> "unsent"]
  /\ readers = [i \in ID |-> {}]

\* The messages are posted in the order of their IDs ...
Post(i) ==
  /\ status[i] = "unsent"
  /\ \A j \in ID : j < i => status[j] # "unsent"
  /\ status' = [status EXCEPT ![i] = "queued"]
  /\ UNCHANGED readers

\* ... and opened in that order for some readers.  Others may expire at that moment.
Open(i) ==
  /\ status[i] = "queued"
  /\ (\A j \in ID : j < i => status[j] # "queued")
  /\ status'[i] = "open"
  /\ readers'[i] \subseteq Address
  /\ \A j \in ID \ {i} : /\ readers'[j] = readers[j]
                         /\ \/ status'[j] = status[j]
                            \/ status[j] = "open" /\ status'[j] = "expired"

\* A reader is done with a message it did not take.  Only the last one may close it.
Read(a, i) ==
  /\ a \in readers[i]
  /\ readers' = [readers EXCEPT ![i] = @ \ {a}]
  /\ \/ UNCHANGED status
     \/ /\ status[i] = "open"
        /\ readers[i] = {a}
        /\ status' = [status EXCEPT ![i] = "read"]

\* One reader locks the message in.
Take(a, i) ==
  /\ a \in readers[i]
  /\ status[i] = "open"
  /\ status' = [status EXCEPT ![i] = "taken"]
  /\ readers' = [readers EXCEPT ![i] = @ \ {a}]

\* A reader goes away with everything it has not read.
Leave(a) ==
  /\ readers' = [i \in ID |-> readers[i] \ {a}]
  /\ UNCHANGED status

Next ==
  \/ \E i \in ID : Post(i) \/ Open(i)
  \/ \E a \in Address : Leave(a) \/ \E i \in ID : Read(a, i) \/ Take(a, i)

Spec == Init /\ [][Next]_boardVars
================================================================================
