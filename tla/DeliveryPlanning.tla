-------------------------- MODULE DeliveryPlanning --------------------------
(***************************************************************************)
(* Delivery planning (delivery/planning.py): one outbound message becomes  *)
(* the segments a Channel can carry. Text is a sequence of characters that *)
(* differ in being blank, in being the mark of Markdown code, and in their *)
(* width in the Channel's unit of length; an attachment has a source, a    *)
(* media family and, where it is declared, a size.                         *)
(***************************************************************************)
EXTENDS Integers, SequencesExt, FiniteSetsExt

CONSTANTS
    Letter, Wide,      \* characters of one and of two units
    Space, Newline,    \* blank characters of one unit
    Mark,              \* the backquote of Markdown, of one unit
    NoLimit,           \* an absent bound of a profile, or size of an attachment
    Cases              \* pairs of a message and a delivery profile to plan for

Characters == Cardinality({Letter, Wide, Space, Newline, Mark}) = 5

Blank == {Space, Newline}

VARIABLES
    message, profile,  \* what is planned, and for which Channel
    status,            \* "new", "planned" or "refused"
    plan               \* the segments
vars == <<message, profile, status, plan>>

-----------------------------------------------------------------------------
(* Text *)

Width(c) == IF c = Wide THEN 2 ELSE 1

(* _text_length in the unit of the profile. *)
TextLength(t) == FoldSeq(LAMBDA c, n : n + Width(c), 0, t)

Within(n, limit) == IF limit = NoLimit THEN TRUE ELSE n <= limit

LStrip(t) ==
    IF \E i \in DOMAIN t : t[i] \notin Blank
    THEN SubSeq(t, Min({i \in DOMAIN t : t[i] \notin Blank}), Len(t)) ELSE <<>>
RStrip(t) ==
    IF \E i \in DOMAIN t : t[i] \notin Blank
    THEN SubSeq(t, 1, Max({i \in DOMAIN t : t[i] \notin Blank})) ELSE <<>>
Strip(t) == RStrip(LStrip(t))

At(t, kept) ==
    FoldLeft(LAMBDA s, i : IF i \in kept THEN Append(s, t[i]) ELSE s, <<>>,
             [i \in DOMAIN t |-> i])

(* The positions of the line that holds position i, its newline left out. *)
LineOf(t, i) ==
    {k \in DOMAIN t : t[k] # Newline /\ \A j \in k..i \cup i..k : t[j] # Newline}

(* A line that opens or closes a block of code goes with all that is on it. *)
InFence(t, i) ==
    LET line == LStrip(At(t, LineOf(t, i)))
    IN Len(line) >= 3 /\ \A k \in 1..3 : line[k] = Mark

(* The marks of a line go in pairs, from the left: `code` keeps its inside. *)
InPair(t, i) ==
    LET marks == {k \in LineOf(t, i) : t[k] = Mark}
        nth   == Cardinality({k \in marks : k <= i})
    IN i \in marks /\ (nth % 2 = 1 => nth < Cardinality(marks))

(* markdown_to_plain, of the marks that texts here hold: what it takes out of
   a line is taken out, no more than one empty line is left in a row, and a
   text of which nothing would be left stays as it is. *)
MarkdownToPlain(t) ==
    LET unmarked == At(t, {i \in DOMAIN t : ~InFence(t, i) /\ ~InPair(t, i)})
        squeezed == At(unmarked, {i \in DOMAIN unmarked :
                       ~(i > 2 /\ \A k \in (i - 2)..i : unmarked[k] = Newline)})
    IN IF Strip(squeezed) # <<>> THEN Strip(squeezed) ELSE Strip(t)

(* _prefix_within_limit: the longest prefix, found in the code by bisection. *)
PrefixWithinLimit(t, limit) ==
    Max({n \in 0..Len(t) : TextLength(SubSeq(t, 1, n)) <= limit})

(* rfind(blank, minimum): a break after n characters of the window, n at least
   the minimum; -1 when there is none. "\n\n" is found where its first
   character is, which a search for "\n" never misses. *)
SoftBreak(window, minimum) ==
    Max({-1} \cup {n \in minimum..(Len(window) - 1) : window[n + 1] \in Blank})

MaxOf(a, b) == IF a > b THEN a ELSE b

(* One round of split_text. *)
BreakAt(t, limit) ==
    LET hard == PrefixWithinLimit(t, limit)
        minimum == MaxOf(1, hard \div 4)
        soft == SoftBreak(SubSeq(t, 1, hard), minimum)
    IN IF soft < minimum THEN hard ELSE soft

Failed == <<>>

(* split_text of a text that is stripped; Failed when a bound is exceeded. *)
RECURSIVE SplitStripped(_, _, _)
SplitStripped(t, limit, room) ==
    IF room < 1 THEN Failed
    ELSE IF TextLength(t) <= limit THEN <<t>>
    ELSE IF PrefixWithinLimit(t, limit) < 1 THEN Failed
    ELSE LET at   == BreakAt(t, limit)
             rest == LStrip(SubSeq(t, at + 1, Len(t)))
             more == SplitStripped(rest, limit, room - 1)
         IN IF rest = <<>> THEN <<RStrip(SubSeq(t, 1, at))>>
            ELSE IF more = Failed THEN Failed
            ELSE <<RStrip(SubSeq(t, 1, at))>> \o more

Chunks(t, limit, room) ==
    IF limit = NoLimit THEN <<t>>
    ELSE IF TextLength(t) <= limit THEN <<t>>
    ELSE SplitStripped(Strip(t), limit, room)

-----------------------------------------------------------------------------
(* The items of a message *)

IsText(item) == item.kind = "text"

Converted(item, p) == item.format = "markdown" /\ p.markdown = "fallback"

(* _prepare_text: what it refuses, and the text and the format it returns. *)
TextFits(item, p) ==
    /\ Strip(item.text) # <<>>
    /\ item.format = "markdown" => p.markdown # "unsupported"
    /\ item.format = "plain" \/ Converted(item, p) => p.plainText
PreparedText(item, p) == IF Converted(item, p) THEN MarkdownToPlain(item.text) ELSE item.text
PreparedFormat(item, p) == IF Converted(item, p) THEN "plain" ELSE item.format


(* _validate_attachment and the bound of one item in its group: a size that is
   not declared only does where nothing is bounded, and never for a file. *)
AttachmentFits(item, p) ==
    /\ p.attachments
    /\ item.source \in p.sources
    /\ p.mediaTypes # {} => item.family \in p.mediaTypes
    /\ IF item.size = NoLimit
       THEN item.source # "local" /\ p.maxSize = NoLimit /\ p.groupSize = NoLimit
       ELSE Within(item.size, p.maxSize) /\ Within(item.size, p.groupSize)

SizeOf(items, group) ==
    FoldSeq(LAMBDA i, n : n + (IF items[i].size = NoLimit THEN 0 ELSE items[i].size), 0, group)

(* Mutant: the size of the group is not looked at. *)
StartsGroupBySize(items, group, i, p) ==
    \/ p.grouping = "none"
    \/ p.grouping = "family" /\ items[Last(group)].family # items[i].family
    \/ ~Within(Len(group) + 1, p.maxCount)

(* An item that must not join the group that is being filled. *)
StartsGroup(items, group, i, p) ==
    \/ p.grouping = "none"
    \/ p.grouping = "family" /\ items[Last(group)].family # items[i].family
    \/ ~Within(Len(group) + 1, p.maxCount)
    \/ ~Within(SizeOf(items, Append(group, i)), p.groupSize)

(* _attachment_groups of attachments that follow each other. *)
Groups(items, run, p) ==
    FoldLeft(LAMBDA groups, i :
               IF groups = <<>> THEN <<<<i>>>>
               ELSE IF StartsGroup(items, Last(groups), i, p) THEN Append(groups, <<i>>)
               ELSE [groups EXCEPT ![Len(groups)] = Append(@, i)],
             <<>>, run)

-----------------------------------------------------------------------------
(* DeliveryPlanner.plan: segments in source order; the attachments between
   two texts are flushed before the second. *)

Segment(indexes, text, format) == [source |-> indexes, text |-> text, format |-> format]

Flush(items, run, p) ==
    LET groups == Groups(items, run, p)
    IN [k \in DOMAIN groups |-> Segment(groups[k], <<>>, "none")]

RECURSIVE PlanItems(_, _, _, _, _)
PlanItems(items, p, i, run, segments) ==
    IF i > Len(items) THEN segments \o Flush(items, run, p)
    ELSE IF ~IsText(items[i])
    THEN PlanItems(items, p, i + 1, Append(run, i), segments)
    ELSE LET before == segments \o Flush(items, run, p)
             chunks == Chunks(PreparedText(items[i], p), p.maxText, p.maxSegments - Len(before))
         IN IF chunks = Failed THEN Failed
            ELSE PlanItems(items, p, i + 1, <<>>,
                    before \o [k \in DOMAIN chunks |->
                                  Segment(<<i>>, chunks[k], PreparedFormat(items[i], p))])

(* The message and the profile are looked at before any segment is made: the
   number of items, the reference to a message replied to, each item. *)
Representable(m, p) ==
    /\ Len(m.content) <= p.maxItems
    /\ m.reply => p.replies
    /\ \A i \in DOMAIN m.content :
          IF IsText(m.content[i]) THEN TextFits(m.content[i], p)
          ELSE AttachmentFits(m.content[i], p)

(* append_segment: no segment past the limit; the reference is on the first
   segment, or on every one where the profile asks for it. *)
Planned(m, p) ==
    LET segments == PlanItems(m.content, p, 1, <<>>, <<>>)
    IN IF ~Representable(m, p) THEN Failed
       ELSE IF Len(segments) > p.maxSegments THEN Failed
       ELSE [k \in DOMAIN segments |->
               [segment |-> segments[k],
                reply |-> m.reply /\ (k = 1 \/ p.replyScope = "every")]]

Init ==
    /\ \E case \in Cases : message = case[1] /\ profile = case[2]
    /\ status = "new" /\ plan = Failed

Plan ==
    /\ status = "new"
    /\ plan' = Planned(message, profile)
    /\ status' = IF plan' = Failed THEN "refused" ELSE "planned"
    /\ UNCHANGED <<message, profile>>

Next == Plan
Spec == Init /\ [][Next]_vars

-----------------------------------------------------------------------------
(* Properties *)

Solid(t) == SelectSeq(t, LAMBDA c : c \notin Blank)
Words(t) == SelectSeq(t, LAMBDA c : c \in {Letter, Wide})

content == message.content
sourceOf == [k \in DOMAIN plan |-> plan[k].segment.source]
TextOf(i) ==
    FlattenSeq([k \in DOMAIN plan |->
                  IF sourceOf[k] = <<i>> THEN plan[k].segment.text ELSE <<>>])

(* A plan is within the bounds of its profile: no segment is longer, bigger,
   fuller or more mixed than the Channel takes, none is empty, none is in a
   format or replies in a way the Channel does not know. *)
PlanFitsProfile ==
    status = "planned" =>
      /\ Len(plan) \in 1..profile.maxSegments
      /\ \A k \in DOMAIN plan :
           LET segment == plan[k].segment
           IN IF IsText(content[segment.source[1]])
              THEN /\ Solid(segment.text) # <<>>
                   /\ Within(TextLength(segment.text), profile.maxText)
                   /\ segment.format = "plain" => profile.plainText
                   /\ segment.format = "markdown" => profile.markdown = "native"
              ELSE /\ Within(Len(segment.source), profile.maxCount) \/ profile.grouping = "none"
                   /\ Within(SizeOf(content, segment.source), profile.groupSize)
                   /\ \A i \in Range(segment.source) : Within(SizeOf(content, <<i>>), profile.maxSize)
                   /\ profile.grouping = "none" => Len(segment.source) = 1
                   /\ profile.grouping = "family" =>
                        Cardinality({content[i].family : i \in Range(segment.source)}) = 1
      /\ \A k \in DOMAIN plan : plan[k].reply => message.reply /\ profile.replies

(* Planning loses nothing and reorders nothing: the segments name the source
   items in order, every item is there, a reply still is one, and the chunks
   of a text hold its characters, but for blanks at the breaks.  A text that
   is turned into plain text keeps its words, in order: it loses no more than
   blanks, marks, and what stands on a line that opens or closes a block. *)
PlanKeepsContent ==
    status = "planned" =>
      LET order == FlattenSeq(sourceOf)
      IN /\ Range(order) = DOMAIN content
         /\ \A a, b \in DOMAIN order : a < b => order[a] <= order[b]
         /\ \A a, b \in DOMAIN order :
               a < b /\ order[a] = order[b] => IsText(content[order[a]])
         /\ message.reply => plan[1].reply
         /\ \A i \in DOMAIN content : IsText(content[i]) =>
              LET text == content[i].text
                  inside == {k \in DOMAIN text : ~InFence(text, k)}
              IN IF Converted(content[i], profile)
                 THEN Words(TextOf(i)) \in {Words(text), Words(At(text, inside))}
                 ELSE Solid(TextOf(i)) = Solid(text)

(* A message is only refused when it has too many items, replies where the
   Channel cannot, an item is of a kind, a type, a size or a format that the
   Channel does not take, a text is blank, a character is wider than the
   limit, or no plan of that many segments could carry it: one text within
   the limit and one fitting attachment always can. *)
RefusalHasReason ==
    status = "refused" =>
      \/ Len(content) > profile.maxItems
      \/ message.reply /\ ~profile.replies
      \/ \E i \in DOMAIN content : ~IsText(content[i]) /\ ~AttachmentFits(content[i], profile)
      \/ \E i \in DOMAIN content : IsText(content[i]) /\
           \/ Solid(content[i].text) = <<>>
           \/ content[i].format = "markdown" /\ profile.markdown = "unsupported"
           \/ ~profile.plainText /\ ~(content[i].format = "markdown" /\ profile.markdown = "native")
           \/ profile.maxText # NoLimit /\ profile.maxText < 2 /\ Wide \in Range(content[i].text)
      \/ LET units(i) == IF IsText(content[i]) THEN TextLength(content[i].text) ELSE 1
         IN FoldSeq(LAMBDA i, n : n + units(i), 0, [k \in DOMAIN content |-> k])
               > profile.maxSegments
=============================================================================
