\* A document whose fields' ids begin alike and a conversation with a file.
CONSTANTS
  r1 = r1
  r2 = r2
  title = title
  doc1 = doc1
  doc10 = doc10
  talk = talk
  file = file
  t1 = t1
  p1 = p1
  p2 = p2
  p3 = p3
  m1 = m1
  m2 = m2
  m3 = m3
  x1 = x1
  NoResource = NoResource
  Fields <- MCFields
  Paragraphs <- MCParagraphs
  ResourceOf <- MCResourceOf
  Titles = {title}
  Conversations = {talk}
  Attached <- MCAttached
  PrefixOf <- MCPrefixOf
  Described = {r1}
  Requests <- MCRequests
SPECIFICATION PromptSpec
INVARIANT PromptCapped
INVARIANT UserContextFirst
INVARIANT RetrievedKept
INVARIANT NoTextTwice
CHECK_DEADLOCK FALSE
