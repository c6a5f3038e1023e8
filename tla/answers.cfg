SPECIFICATION Spec
CONSTANTS
  t1 = t1
  t2 = t2
  Thread = {t1, t2}
  Files <- MCFiles
  Home <- MCHome
  IntLimit = 8
  Kilo = 2
  Visits <- MCVisits
  PathSpace = 14
  Lengths <- MCLengths
  FieldLines <- MCFieldLines
  MimeTypes <- MCMimeTypes
INVARIANT AnsweringTypeOK
INVARIANT ResolvedAsAsked
INVARIANT AnswersTheAsked
INVARIANT FieldsReadBack
INVARIANT LinksLead
INVARIANT IndexLists
INVARIANT IndexOrdered
PROPERTY OwnType
PROPERTY OwnSize
CHECK_DEADLOCK FALSE
