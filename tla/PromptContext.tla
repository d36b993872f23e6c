---------------------------- MODULE PromptContext ----------------------------
(***************************************************************************)
(* The context of the prompt of an ask (ask/search/prompt.py): the         *)
(* paragraphs that were retrieved, the strategies that extend them, one    *)
(* call to the augment endpoint each, and the cap on what the model is     *)
(* sent.  The knowledge box is external: a resource may be deleted between *)
(* the retrieval and any of the calls.                                     *)
(*                                                                         *)
(* A text is a sequence of pieces, and its length is its number of pieces: *)
(* a paragraph is one piece, and so is what a metadata extension adds.     *)
(***************************************************************************)
EXTENDS Naturals, Sequences, FiniteSets, SequencesExt, Subsequences

CONSTANTS
  Fields,       \* the fields of the knowledge box
  Paragraphs,   \* field -> its paragraphs, or its messages, in order
  ResourceOf,   \* field -> the resource it is of
  Titles,       \* the fields that are the title or summary of their resource
  Conversations,\* the fields that are conversations
  Attached,     \* conversation -> the sequence of the fields attached to it
  PrefixOf,     \* pairs of fields: the id of the first begins the id of the second
  Described,    \* the resources that have metadata to extend a text with
  NoResource,   \* an ask of the whole knowledge box
  Requests      \* the requests there may be

Resources == {ResourceOf[f] : f \in Fields}
AllParagraphs == UNION {ToSet(Paragraphs[f]) : f \in Fields}
Strategies ==
  {"full_resource", "hierarchy", "neighbouring", "extension", "conversation", "metadata",
   "prequeries"}

RequestOptions ==
  [retrieved : Seq(AllParagraphs),      \* the best matches, in order of relevance
   semantic : SUBSET AllParagraphs,     \* those that were matched by meaning
   excluded : SUBSET AllParagraphs,     \* those whose labels apply_to.exclude names
   resource : Resources \cup {NoResource},
   userTexts : Nat,                     \* user_context
   strategies : SUBSET Strategies,
   count : Nat,                         \* full_resource: how many resources
   remaining : BOOLEAN,                 \* full_resource: include_remaining_text_blocks
   extend : SUBSET Fields,              \* field_extension: the fields it selects
   before : Nat, after : Nat,           \* neighbouring_paragraphs
   messages : Nat,                      \* conversation: max_messages
   attachments : BOOLEAN,               \* conversation: attachments_text
   pageImages : Nat,                    \* page_image: count
   pictures : SUBSET AllParagraphs,     \* those whose own image the strategies ask for
   limit : Nat]                         \* max_context_characters

ASSUME PromptAssumption ==
  /\ NoResource \notin Resources
  /\ Requests \subseteq RequestOptions
  /\ IsFiniteSet(Fields) /\ Titles \cup Conversations \subseteq Fields
  /\ PrefixOf \subseteq Fields \X Fields
  /\ \A f \in Fields : Paragraphs[f] \in Seq(ToSet(Paragraphs[f]))
  /\ \A f \in Fields : \A i, j \in DOMAIN Paragraphs[f] : Paragraphs[f][i] = Paragraphs[f][j] => i = j
  /\ \A f \in Conversations : Attached[f] \in Seq(Fields)
  /\ \A f, g \in Fields :
       f # g => ToSet(Paragraphs[f]) \cap ToSet(Paragraphs[g]) = {}

VARIABLES
  request,   \* the ask
  steps,     \* what is left to do
  deleted,   \* the resources deleted since the retrieval
  context,   \* context.output: blocks in the order of their insertion
  images,    \* context.images
  augmented, \* the ids in augmented_context
  built      \* the context before cap()

promptVars == <<request, steps, deleted, context, images, augmented, built>>

FieldOf(p) == CHOOSE f \in Fields : p \in ToSet(Paragraphs[f])
PlaceOf(p) == CHOOSE i \in DOMAIN Paragraphs[FieldOf(p)] : Paragraphs[FieldOf(p)][i] = p
Home(p) == ResourceOf[FieldOf(p)]
Live(f) == ResourceOf[f] \notin deleted

(***************************************************************************)
(* CappedPromptContext: a dictionary keeps the place of a key it has.      *)
(***************************************************************************)
User(i) == <<"user", i>>
Par(p) == <<"paragraph", p>>
Whole(f) == <<"field", f>>
Attachment(f) == <<"attachment", f>>
Metadata == <<"metadata">>

\* What a user writes, or a metadata extension adds, is no paragraph of a field.
ASSUME TextsAssumption ==
  /\ Metadata \notin AllParagraphs
  /\ \A r \in Requests : \A i \in 1..r.userTexts : User(i) \notin AllParagraphs

Ids(c) == {c[i].id : i \in DOMAIN c}

Put(c, id, text) ==
  IF id \in Ids(c)
  THEN [i \in DOMAIN c |-> IF c[i].id = id THEN [c[i] EXCEPT !.text = text] ELSE c[i]]
  ELSE Append(c, [id |-> id, text |-> text])

\* The blocks bs, one after the other.
PutAll(c, bs) ==
  LET put[n \in 0..Len(bs)] == IF n = 0 THEN c ELSE Put(put[n - 1], bs[n].id, bs[n].text)
  IN  put[Len(bs)]

Size(c) == Len(Joined([n \in DOMAIN c |-> c[n].text]))

\* cap: from the last entry back, an entry goes while the rest is too long,
\* and the one that crosses the limit is trimmed.
\* Mutant: from the first entry on.
CapOldest(c, limit) ==
  FoldLeft(LAMBDA acc, b :
             IF acc.size <= limit THEN [acc EXCEPT !.kept = Append(@, b)]
             ELSE IF acc.size - Len(b.text) >= limit THEN [acc EXCEPT !.size = @ - Len(b.text)]
             ELSE [size |-> limit,
                   kept |-> Append(acc.kept,
                                   [b EXCEPT !.text = SubSeq(@, 1, Len(@) - (acc.size - limit))])],
           [size |-> Size(c), kept |-> <<>>], c).kept

Cap(c, limit) ==
  LET upTo(n) == Size(SubSeq(c, 1, n))
      capped[n \in 0..Len(c)] ==  \* the first n entries, those behind them being gone
        IF n = 0 THEN <<>>
        ELSE IF upTo(n) <= limit THEN SubSeq(c, 1, n)
        ELSE IF upTo(n - 1) >= limit THEN capped[n - 1]
        ELSE Append(SubSeq(c, 1, n - 1), [c[n] EXCEPT !.text = SubSeq(@, 1, limit - upTo(n - 1))])
  IN  capped[Len(c)]

(***************************************************************************)
(* build: the user's texts, then the steps the strategies ask for.  With   *)
(* any strategy, even one that is not of the prompt, the paragraphs are    *)
(* the base the steps work on; full_resource lets no step but metadata     *)
(* follow.                                                                 *)
(***************************************************************************)
AddParagraphs(c, ps) == PutAll(c, [i \in DOMAIN ps |-> [id |-> Par(ps[i]), text |-> <<ps[i]>>]])
AddMissing(c, ps) == AddParagraphs(c, Chosen(ps, {p \in ToSet(ps) : Par(p) \notin Ids(c)}))

StepOrder == <<"full_resource", "hierarchy", "neighbouring", "extension", "conversation", "metadata">>

StepsOf(r) ==
  IF r.strategies = {} THEN <<"default">>
  ELSE IF "full_resource" \in r.strategies
  THEN Chosen(StepOrder, r.strategies \cap {"full_resource", "metadata"})
  ELSE Chosen(StepOrder, r.strategies)

UserContext(r) == [i \in 1..r.userTexts |-> [id |-> User(i), text |-> <<User(i)>>]]

PromptInit ==
  /\ request \in Requests
  /\ steps = StepsOf(request) \o <<"images", "cap">>
  /\ deleted = {}
  /\ context = IF request.strategies = {} THEN UserContext(request)
               ELSE AddParagraphs(UserContext(request), request.retrieved)
  /\ images = {}
  /\ augmented = {}
  /\ built = <<>>

At(s) == steps # <<>> /\ Head(steps) = s
Proceed == steps' = Tail(steps)

\* An exception of a call ends the ask with an error.
FailBuild ==
  /\ steps # <<>> /\ ~ At("cap")
  /\ steps' = <<>>
  /\ UNCHANGED <<request, deleted, context, images, augmented, built>>

DeleteResource(r) ==
  /\ steps # <<>> /\ deleted = {}
  /\ deleted' = {r}
  /\ UNCHANGED <<request, steps, context, images, augmented, built>>

(***************************************************************************)
(* default_prompt_context.  What follows a message that was matched by     *)
(* meaning is taken to be its answer; the endpoint keeps one entry for a   *)
(* conversation, whichever of its messages were asked for.                 *)
(***************************************************************************)
MessagesAfter(p) == LET s == Paragraphs[FieldOf(p)] IN SubSeq(s, PlaceOf(p) + 1, Len(s))

DefaultStep ==
  /\ At("default")
  /\ LET base == AddParagraphs(context, request.retrieved)
         questions == {p \in ToSet(request.retrieved) \cap request.semantic :
                         FieldOf(p) \in Conversations /\ Live(FieldOf(p))}
     IN \E asked \in [{FieldOf(p) : p \in questions} -> questions] :
          /\ \A f \in DOMAIN asked : FieldOf(asked[f]) = f
          /\ LET answered == Chosen(request.retrieved, questions)
             IN context' = AddParagraphs(base, Joined([i \in DOMAIN answered |->
                                                         MessagesAfter(asked[FieldOf(answered[i])])]))
  /\ Proceed
  /\ UNCHANGED <<request, deleted, images, augmented, built>>

(***************************************************************************)
(* full_resource_prompt_context and field_extension_prompt_context put the *)
(* whole text of fields in the place of their blocks: of those whose id    *)
(* begins with the id of the field.                                        *)
(***************************************************************************)
BlockField(id) ==
  CASE id[1] = "paragraph" -> FieldOf(id[2]) [] id[1] \in {"field", "attachment"} -> id[2]

BeginsWith(id, f) ==
  id[1] # "user" /\ (BlockField(id) = f \/ <<f, BlockField(id)>> \in PrefixOf)

WholeText(f) == Paragraphs[f]

\* Mutant: the blocks of the field stay.
KeepAndAdd(c, f) == Put(c, Whole(f), WholeText(f))

ReplaceBlocks(c, f) ==
  Put(Chosen(c, {b \in ToSet(c) : ~ BeginsWith(b.id, f)}), Whole(f), WholeText(f))

ReplaceFields(c, fs) ==
  LET replaced[n \in 0..Len(fs)] == IF n = 0 THEN c ELSE ReplaceBlocks(replaced[n - 1], fs[n])
  IN  replaced[Len(fs)]

\* The endpoint's answer lists the fields in any order; titles and summaries
\* are put before them.
Answers(fs) == {a[1] \o a[2] : a \in SetToSeqs(fs \cap Titles) \X SetToSeqs(fs \ Titles)}

RetrievedResources(ps) == Distinct([i \in DOMAIN ps |-> Home(ps[i])])

FullResources(r) ==
  IF r.resource # NoResource THEN {r.resource}
  ELSE LET all == RetrievedResources(Chosen(r.retrieved, AllParagraphs \ r.excluded))
       IN ToSet(SubSeq(all, 1, IF r.count < Len(all) THEN r.count ELSE Len(all)))

\* include_remaining_text_blocks looks for the field of a paragraph: a message's
\* own, which is never among the fields that were added.
IsRemaining(p, added) == FieldOf(p) \in Conversations \/ FieldOf(p) \notin added

FullResourceStep ==
  /\ At("full_resource")
  /\ LET fs == {f \in Fields : Live(f) /\ ResourceOf[f] \in FullResources(request)}
     IN \E order \in Answers(fs) :
          LET whole == ReplaceFields(context, order)
          IN /\ context' = IF request.remaining
                           THEN AddParagraphs(whole, Chosen(request.retrieved,
                                                            {p \in AllParagraphs : IsRemaining(p, fs)}))
                           ELSE whole
             /\ augmented' = augmented \cup {Whole(f) : f \in fs}
  /\ Proceed
  /\ UNCHANGED <<request, deleted, images, built>>

\* Mutant: the paragraphs that were deleted with a field are not added back.
ExtensionDrops ==
  /\ At("extension")
  /\ LET fs == {f \in request.extend :
                  Live(f) /\ ResourceOf[f] \in ToSet(RetrievedResources(request.retrieved))}
     IN \E order \in Answers(fs) :
          /\ context' = ReplaceFields(context, order)
          /\ augmented' = augmented \cup {Whole(f) : f \in fs}
  /\ Proceed
  /\ UNCHANGED <<request, deleted, images, built>>

ExtensionStep ==
  /\ At("extension")
  /\ LET fs == {f \in request.extend :
                  Live(f) /\ ResourceOf[f] \in ToSet(RetrievedResources(request.retrieved))}
     IN \E order \in Answers(fs) :
          /\ context' = AddMissing(ReplaceFields(context, order), request.retrieved)
          /\ augmented' = augmented \cup {Whole(f) : f \in fs}
  /\ Proceed
  /\ UNCHANGED <<request, deleted, images, built>>

(***************************************************************************)
(* hierarchy_prompt_context: the first paragraph of each resource is given *)
(* its title and summary and the text of all its paragraphs.               *)
(***************************************************************************)
TitleText(r) ==
  LET titles == SetToSeq({f \in Titles : ResourceOf[f] = r})
  IN  Joined([i \in DOMAIN titles |-> Paragraphs[titles[i]]])

RetrievedOf(r) == Chosen(request.retrieved, {p \in AllParagraphs : Home(p) = r})

HierarchyText(r) == IF r \in deleted THEN <<>> ELSE TitleText(r) \o RetrievedOf(r)

HierarchyStep ==
  /\ At("hierarchy")
  /\ LET rs == RetrievedResources(request.retrieved)
     IN /\ context' = PutAll(context, [i \in DOMAIN rs |-> [id |-> Par(RetrievedOf(rs[i])[1]),
                                                            text |-> HierarchyText(rs[i])]])
        /\ augmented' = augmented \cup {Par(RetrievedOf(r)[1]) : r \in ToSet(rs)}
  /\ Proceed
  /\ UNCHANGED <<request, deleted, images, built>>

(***************************************************************************)
(* neighbouring_paragraphs_prompt_context                                  *)
(***************************************************************************)
Neighbours(p) ==
  LET s == Paragraphs[FieldOf(p)]
      i == PlaceOf(p)
  IN SubSeq(s, IF i > request.before THEN i - request.before ELSE 1, i - 1)
       \o SubSeq(s, i + 1, IF i + request.after < Len(s) THEN i + request.after ELSE Len(s))

NeighbouringStep ==
  /\ At("neighbouring")
  /\ LET anchors == Chosen(request.retrieved, {p \in AllParagraphs : Live(FieldOf(p))})
         extra(p) == Chosen(Neighbours(p), AllParagraphs \ ToSet(request.retrieved))
     IN /\ context' = AddMissing(context, Joined([i \in DOMAIN anchors |->
                                                     <<anchors[i]>> \o extra(anchors[i])]))
        /\ augmented' = augmented \cup {id \in Ids(context') : id \notin Ids(context)}
  /\ Proceed
  /\ UNCHANGED <<request, deleted, images, built>>

(***************************************************************************)
(* conversation_prompt_context: each conversation with a retrieved message *)
(* is added once, in a window of its messages that the endpoint chooses,   *)
(* and what is attached to it, if a message of it was new.                 *)
(***************************************************************************)
Windows(f) ==
  LET s == Paragraphs[f]
      n == IF request.messages < Len(s) THEN request.messages ELSE Len(s)
  IN {SubSeq(s, i, i + n - 1) : i \in 1..(Len(s) - n + 1)}

ConversationsOf(ps) == Chosen(Distinct([i \in DOMAIN ps |-> FieldOf(ps[i])]), Conversations)

AddAttachments(c, fs) ==
  LET new == Chosen(fs, {f \in ToSet(fs) : Attachment(f) \notin Ids(c)})
  IN  PutAll(c, [i \in DOMAIN new |-> [id |-> Attachment(new[i]), text |-> WholeText(new[i])]])

ConversationStep ==
  /\ At("conversation")
  /\ LET base == AddMissing(context, request.retrieved)
         fs == Chosen(ConversationsOf(request.retrieved), {f \in Fields : Live(f)})
     IN \E window \in [ToSet(fs) -> UNION {Windows(f) : f \in ToSet(fs)}] :
          /\ \A f \in ToSet(fs) : window[f] \in Windows(f)
          /\ LET talks == AddMissing(base, Joined([i \in DOMAIN fs |-> window[fs[i]]]))
                 new == Chosen(fs, {f \in ToSet(fs) :
                                      \E p \in ToSet(window[f]) : Par(p) \notin Ids(base)})
                 files == Joined([i \in DOMAIN new |-> Attached[new[i]]])
             IN /\ context' = IF request.attachments THEN AddAttachments(talks, files) ELSE talks
                /\ augmented' = augmented \cup (Ids(context') \ Ids(base))
  /\ Proceed
  /\ UNCHANGED <<request, deleted, images, built>>

(***************************************************************************)
(* extend_prompt_context_with_metadata takes a block out and puts it back  *)
(* with the metadata of its resource, behind all the others.  The user's   *)
(* texts have no resource and stay where they are.                         *)
(***************************************************************************)
IsDescribed(id) ==
  /\ id[1] # "user"
  /\ ResourceOf[BlockField(id)] \in Described \ deleted

\* Mutant: the user's texts go behind too.
MoveAllMetadata ==
  /\ At("metadata")
  /\ context' = SelectSeq([i \in DOMAIN context |-> [context[i] EXCEPT !.text = Append(@, Metadata)]],
                          LAMBDA b : b.id[1] # "user")
                  \o SelectSeq(context, LAMBDA b : b.id[1] = "user")
  /\ augmented' = augmented \cup Ids(context)
  /\ Proceed
  /\ UNCHANGED <<request, deleted, images, built>>

MetadataStep ==
  /\ At("metadata")
  /\ LET described == Chosen(context, {b \in ToSet(context) : IsDescribed(b.id)})
     IN /\ context' = Chosen(context, {b \in ToSet(context) : ~ IsDescribed(b.id)})
                        \o [i \in DOMAIN described |->
                              [described[i] EXCEPT !.text = Append(@, Metadata)]]
        /\ augmented' = augmented \cup Ids(described)
  /\ Proceed
  /\ UNCHANGED <<request, deleted, images, built>>

(***************************************************************************)
(* _build_context_images: the pages of the best paragraphs, each once, and *)
(* the images of tables or paragraphs themselves, those the storage has.   *)
(* A page stands for the field it is of.                                   *)
(***************************************************************************)
PageImages(stored) ==
  FoldLeft(LAMBDA acc, p : IF Cardinality(acc) < request.pageImages /\ Whole(FieldOf(p)) \in stored
                           THEN acc \cup {Whole(FieldOf(p))} ELSE acc,
           {}, request.retrieved)

ImagesStep ==
  /\ At("images")
  /\ \E stored \in SUBSET ({Par(p) : p \in ToSet(request.retrieved) \cap request.pictures}
                           \cup {Whole(FieldOf(p)) : p \in ToSet(request.retrieved)}) :
       images' = PageImages(stored) \cup (stored \cap {Par(p) : p \in request.pictures})
  /\ Proceed
  /\ UNCHANGED <<request, deleted, context, augmented, built>>

CapStep ==
  /\ At("cap")
  /\ built' = context
  /\ context' = Cap(context, request.limit)
  /\ Proceed
  /\ UNCHANGED <<request, deleted, images, augmented>>

PromptNext ==
  \/ FailBuild
  \/ \E r \in Resources : DeleteResource(r)
  \/ DefaultStep \/ FullResourceStep \/ HierarchyStep \/ NeighbouringStep \/ ExtensionStep
  \/ ConversationStep \/ MetadataStep \/ ImagesStep \/ CapStep

PromptSpec == PromptInit /\ [][PromptNext]_promptVars

(***************************************************************************)
(* Properties                                                              *)
(***************************************************************************)
Finished == steps = <<>> /\ built # <<>>

\* cap() removes "text from the most recent entries first, until the size is
\* below the limit", and no more than that: what is sent is the beginning of
\* what was built, as long as the limit allows.  (prompt.py:98-126.)
PromptCapped ==
  Finished =>
    LET n == Len(context)
    IN /\ Size(context) = (IF Size(built) < request.limit THEN Size(built) ELSE request.limit)
       /\ n <= Len(built)
       /\ \A i \in 1..(n - 1) : context[i] = built[i]
       /\ n > 0 => context[n].id = built[n].id /\ IsPrefix(context[n].text, built[n].text)

\* The user's own context "is added first" as "the most important": whatever
\* the strategies move or delete it stays in front, and is cut only when
\* nothing else is left.  (prompt.py:1038-1048.)
UserContextFirst ==
  /\ built = <<>> => Len(context) >= request.userTexts
  /\ \A i \in DOMAIN context :
       i <= request.userTexts =>
         context[i].id = User(i) /\ (i < Len(context) => context[i].text = <<User(i)>>)

\* Where p is in what was built: the block, and the place in its text.
Occurrences(p) ==
  {o \in (DOMAIN built) \X (1..Size(built)) :
     o[2] \in DOMAIN built[o[1]].text /\ built[o[1]].text[o[2]] = p}

\* The text of a retrieved paragraph is in what was built, whatever the
\* strategies replace and whenever its resource goes: except for the empty
\* shell that hierarchy leaves of a deleted resource, and for a field whose id
\* begins with the id of another whose full text was added.  (prompt.py:279-301,
\* 572-590, 949-998.)
RetrievedKept ==
  Finished =>
    \A p \in ToSet(request.retrieved) :
      \/ Occurrences(p) # {}
      \/ Home(p) \in deleted /\ "hierarchy" \in request.strategies
      \/ "full_resource" \in request.strategies
           /\ \E f \in Fields : Whole(f) \in augmented /\ <<f, FieldOf(p)>> \in PrefixOf

\* Blocks of a field are removed when its whole text is added, "as otherwise
\* the context will be duplicated": without hierarchy, field_extension and
\* attachments no paragraph is sent twice, but for messages among the remaining
\* text blocks.  (prompt.py:280-301.)
NoTextTwice ==
  Finished /\ request.strategies \cap {"hierarchy", "extension"} = {} /\ ~ request.attachments =>
    \A p \in AllParagraphs :
      \/ Cardinality(Occurrences(p)) <= 1
      \/ request.remaining /\ FieldOf(p) \in Conversations

\* full_resource is to "collect the extracted text from all its fields", says
\* prompt.py:207: the text of every field it added is in what was built.
FullResourceComplete ==
  Finished /\ "full_resource" \in request.strategies =>
    \A f \in Fields : Whole(f) \in augmented => Whole(f) \in Ids(built)

=============================================================================
