---------------------------- MODULE DesktopProofs ----------------------------
(***************************************************************************)
(* Proofs about the backend thread of Desktop: what reaches the view is    *)
(* the journal, whole and in order, with the right totals, through bounded *)
(* memory, and the end of the thread is reported.  And about what the      *)
(* window makes of it (SizeTree and Explorer): the sizes that it adds up   *)
(* batch by batch are those of the tree, a way leads up from wherever the  *)
(* user goes, and a double click drills where it was aimed.                *)
(***************************************************************************)
EXTENDS Desktop, Explorer, FoldLemmas

Types == {"none", "started", "update", "finished", "error"}
Events == [type : Types, dirs : Seq(Dirs), bytes : Nat]
Phases == {"starting", "running", "ended", "disconnected"}
Views == [dirs : Seq(Dirs), bytes : Nat, phase : Phases, finished : BOOLEAN]
Stages == {"starting", "sending", "polling", "summarizing", "deciding", "awaiting",
           "releasing", "stopping", "done"}
Backends == {"none", "up", "dead", "down"}
Traversals == {"running", "finished"}

TypeOK ==
    /\ journal \in Seq(Dirs) /\ cursor \in Nat /\ cursor <= Len(journal)
    /\ reported \in Nat /\ reported <= Len(journal)
    /\ page \in Seq(Dirs) /\ buffered \in Seq(Dirs) /\ allocated \in Nat
    /\ event \in Events /\ channel \in Seq(Events) /\ view \in Views
    /\ stage \in Stages /\ backend \in Backends /\ traversal \in Traversals
    /\ due \in BOOLEAN /\ drained \in BOOLEAN /\ failed \in BOOLEAN
    /\ receiver_open \in BOOLEAN

\* The directories that a sequence of events carries.
Content(c) == FlattenSeq([k \in 1 .. Len(c) |-> c[k].dirs])

\* What the view will have when it has taken the first k events of the channel,
\* all of them, and the one that is being sent.
After(k) == view.dirs \o Content(SubSeq(channel, 1, k))
AfterAll == view.dirs \o Content(channel)
AfterEvent == AfterAll \o event.dirs

Telling == {"update", "finished"}

\* The bytes of all summaries are those of all directories that were summarized.
AllocatedFits == allocated = BytesOf(AfterEvent \o buffered)

\* The totals that events carry are those of the directories before them.
TotalsFit ==
    /\ view.bytes = BytesOf(view.dirs)
    /\ receiver_open =>
         /\ \A k \in 1 .. Len(channel) :
               channel[k].type \in Telling => channel[k].bytes = BytesOf(After(k))
         /\ event.type \in Telling => event.bytes = BytesOf(AfterEvent)
         /\ AllocatedFits

\* The events, the buffer and the page continue what the view has.
JournalInOrder ==
    receiver_open => ((AfterEvent \o buffered) \o page) = SubSeq(journal, 1, cursor)

\* Everything that was complete at the end comes before the last word.
EndComesLast ==
    /\ view.finished => traversal = "finished" /\ Len(view.dirs) >= reported
    /\ drained => traversal = "finished" /\ cursor >= reported
    /\ event.type = "finished" =>
         traversal = "finished" /\ (receiver_open => Len(AfterEvent) >= reported)
    /\ \A k \in 1 .. Len(channel) : channel[k].type = "finished" =>
         traversal = "finished" /\ Len(After(k)) >= reported

\* What the thread holds at each of its stages.
StagesFit ==
    /\ Len(channel) <= Capacity + 1
    /\ Len(page) <= BatchSize /\ Len(buffered) < 2 * BatchSize
    /\ stage \in {"starting", "polling", "deciding"} => page = <<>>
    /\ stage \in {"polling", "summarizing"} => Len(buffered) < BatchSize
    /\ stage = "starting" => buffered = <<>>
    /\ stage = "sending" /\ event.type # "error" => page = <<>> /\ buffered = <<>>
    /\ stage = "awaiting" => page = <<>> /\ buffered = <<>> /\ drained
    /\ stage # "sending" <=> event.type = "none"
    /\ event.type # "update" => event.dirs = <<>>
    /\ event.type = "finished" => drained
    /\ drained /\ stage = "sending" => event.type \in {"update", "finished", "error"}
    /\ drained => stage \notin {"starting", "polling", "summarizing", "deciding"}

\* The view hears of the start first.
StartComesFirst ==
    /\ stage = "starting" => channel = <<>> /\ view.phase = "starting"
    /\ event.type = "started" => channel = <<>> /\ ~ view.finished
    /\ \A k \in 1 .. Len(channel) :
         /\ channel[k].type # "none"
         /\ channel[k].type # "update" => channel[k].dirs = <<>>
         /\ channel[k].type = "started" => k = 1 /\ ~ view.finished
    /\ view.finished <=> view.phase = "ended"

\* The last word is on its way or has arrived.
EndIsTold ==
    IF channel = <<>> THEN view.phase \in {"ended", "disconnected"}
                      ELSE channel[Len(channel)].type \in {"finished", "error"}

Endings ==
    /\ stage = "done" \/ event.type = "error" => backend = "down"
    /\ stage \in {"releasing", "stopping"} /\ ~ failed /\ receiver_open => EndIsTold
    /\ stage = "done" /\ receiver_open => EndIsTold

Inv ==
    /\ TypeOK /\ StagesFit /\ TotalsFit /\ JournalInOrder /\ EndComesLast
    /\ StartComesFirst /\ Endings
-----------------------------------------------------------------------------
\* What events there are and what they carry.
LEMMA EventForms ==
    /\ None \in Events /\ None.type = "none" /\ None.dirs = <<>>
    /\ Started \in Events /\ Started.type = "started" /\ Started.dirs = <<>>
    /\ Failure \in Events /\ Failure.type = "error" /\ Failure.dirs = <<>>
    /\ \A b \in Nat : /\ Finished(b) \in Events /\ Finished(b).type = "finished"
                      /\ Finished(b).dirs = <<>> /\ Finished(b).bytes = b
    /\ \A d \in Seq(Dirs), b \in Nat :
         /\ Update(d, b) \in Events /\ Update(d, b).type = "update"
         /\ Update(d, b).dirs = d /\ Update(d, b).bytes = b
<1>1. <<>> \in Seq(Dirs)
  BY EmptySeq
<1> QED BY <1>1 DEF Events, Types, None, Started, Failure, Finished, Update

LEMMA EventFields ==
    ASSUME NEW e \in Events
    PROVE  e.type \in Types /\ e.dirs \in Seq(Dirs) /\ e.bytes \in Nat
BY DEF Events

LEMMA ViewFields ==
    ASSUME NEW v \in Views
    PROVE  /\ v.dirs \in Seq(Dirs) /\ v.bytes \in Nat
           /\ v.phase \in Phases /\ v.finished \in BOOLEAN
BY DEF Views

\* The directories of a sequence of events, one event after the other.
LEMMA ContentGrows ==
    ASSUME NEW c \in Seq(Events), NEW e \in Events
    PROVE  /\ Content(<<>>) = <<>>
           /\ Content(c) \in Seq(Dirs)
           /\ Content(Append(c, e)) = Content(c) \o e.dirs
<1> DEFINE carried(s) == [k \in 1 .. Len(s) |-> s[k].dirs]
           a == Append(c, e)
<1>1. carried(<<>>) = <<>>
  BY EmptySeq
<1>2. /\ Len(c) \in Nat /\ a \in Seq(Events) /\ Len(a) = Len(c) + 1
      /\ \A k \in 1 .. Len(c) : a[k] = c[k] /\ c[k] \in Events
      /\ a[Len(c) + 1] = e
  BY LenProperties, AppendProperties, ElementOfSeq
<1>3. e.dirs \in Seq(Dirs) /\ \A k \in 1 .. Len(c) : c[k].dirs \in Seq(Dirs)
  BY <1>2, EventFields
<1>4. carried(c) \in Seq(Seq(Dirs)) /\ Len(carried(c)) = Len(c)
  BY <1>2, <1>3
<1> HIDE DEF a
<1>5. carried(a) \in Seq(Seq(Dirs)) /\ Len(carried(a)) = Len(c) + 1
  <2>1. \A k \in 1 .. Len(a) : a[k].dirs \in Seq(Dirs)
    BY <1>2, <1>3
  <2> QED BY <1>2, <2>1
<1>6. carried(a) = Append(carried(c), e.dirs)
  <2> DEFINE b == Append(carried(c), e.dirs)
  <2>1. /\ b \in Seq(Seq(Dirs)) /\ Len(b) = Len(c) + 1 /\ b[Len(c) + 1] = e.dirs
        /\ \A k \in 1 .. Len(c) : b[k] = carried(c)[k]
    BY <1>3, <1>4, AppendProperties
  <2> HIDE DEF b
  <2>2. \A k \in 1 .. Len(c) + 1 : carried(a)[k] = b[k]
    BY SMTT(30), ZenonT(30), <1>2, <2>1
  <2>3. carried(a) = b
    BY SMTT(30), ZenonT(30), <1>5, <2>1, <2>2, SeqEqual
  <2> QED BY <2>3 DEF b
<1> HIDE DEF carried
<1>7. /\ FlattenSeq(<<>>) = <<>> /\ FlattenSeq(carried(c)) \in Seq(Dirs)
      /\ FlattenSeq(Append(carried(c), e.dirs)) = FlattenSeq(carried(c)) \o e.dirs
  BY <1>3, <1>4, FlattenAppends
<1> QED BY <1>1, <1>6, <1>7 DEF Content, carried, a

LEMMA ContentShrinks ==
    ASSUME NEW c \in Seq(Events), c # <<>>
    PROVE  Content(c) = Head(c).dirs \o Content(Tail(c))
<1> DEFINE carried(s) == [k \in 1 .. Len(s) |-> s[k].dirs]
<1>1. /\ Len(c) \in Nat \ {0} /\ Head(c) = c[1]
      /\ Tail(c) \in Seq(Events) /\ Len(Tail(c)) = Len(c) - 1
      /\ \A k \in 1 .. Len(Tail(c)) : Tail(c)[k] = c[k + 1]
  BY EmptySeq, HeadTailProperties
<1>2. \A k \in 1 .. Len(c) : c[k].dirs \in Seq(Dirs)
  BY ElementOfSeq, EventFields
<1>3. /\ carried(c) \in Seq(Seq(Dirs)) /\ Len(carried(c)) = Len(c)
      /\ carried(c) # <<>> /\ Head(carried(c)) = Head(c).dirs
  BY <1>1, <1>2
<1>4. carried(Tail(c)) = Tail(carried(c))
  <2>1. /\ Tail(carried(c)) \in Seq(Seq(Dirs)) /\ Len(Tail(carried(c))) = Len(c) - 1
        /\ \A k \in 1 .. Len(c) - 1 : Tail(carried(c))[k] = carried(c)[k + 1]
    BY SMTT(30), ZenonT(30), <1>3, HeadTailProperties
  <2>2. \A k \in 1 .. Len(c) - 1 : Tail(c)[k].dirs \in Seq(Dirs)
    BY <1>1, <1>2
  <2>3. carried(Tail(c)) \in Seq(Seq(Dirs)) /\ Len(carried(Tail(c))) = Len(c) - 1
    BY <1>1, <2>2
  <2>4. \A k \in 1 .. Len(c) - 1 : carried(Tail(c))[k] = Tail(carried(c))[k]
    BY <1>1, <2>1
  <2> HIDE DEF carried
  <2> QED BY <2>1, <2>3, <2>4, SeqEqual
<1> HIDE DEF carried
<1>5. FlattenSeq(carried(c)) = Head(carried(c)) \o FlattenSeq(Tail(carried(c)))
  BY <1>3, FlattenHead
<1> QED BY <1>3, <1>4, <1>5 DEF Content, carried

LEMMA PrefixesOfAppend ==
    ASSUME NEW c \in Seq(Events), NEW e \in Events
    PROVE  /\ \A k \in 1 .. Len(c) : SubSeq(Append(c, e), 1, k) = SubSeq(c, 1, k)
           /\ SubSeq(Append(c, e), 1, Len(c) + 1) = Append(c, e)
<1> DEFINE a == Append(c, e)
<1>1. /\ a \in Seq(Events) /\ Len(a) = Len(c) + 1 /\ Len(c) \in Nat
      /\ \A k \in 1 .. Len(c) : a[k] = c[k] /\ c[k] \in Events
  BY AppendProperties, LenProperties, ElementOfSeq
<1> HIDE DEF a
<1>2. ASSUME NEW k \in 1 .. Len(c) PROVE SubSeq(a, 1, k) = SubSeq(c, 1, k)
  <2>1. \A i \in 1 .. k : c[i] \in Events /\ a[i] \in Events /\ a[i] = c[i]
    BY <1>1
  <2>2. /\ SubSeq(c, 1, k) \in Seq(Events) /\ Len(SubSeq(c, 1, k)) = k
        /\ \A i \in 1 .. k : SubSeq(c, 1, k)[i] = c[i]
    BY <2>1, SubSeqProperties
  <2>3. /\ SubSeq(a, 1, k) \in Seq(Events) /\ Len(SubSeq(a, 1, k)) = k
        /\ \A i \in 1 .. k : SubSeq(a, 1, k)[i] = a[i]
    BY <2>1, SubSeqProperties
  <2>4. \A i \in 1 .. k : SubSeq(a, 1, k)[i] = SubSeq(c, 1, k)[i]
    BY <2>1, <2>2, <2>3
  <2> QED BY <2>2, <2>3, <2>4, SeqEqual
<1>3. SubSeq(a, 1, Len(c) + 1) = a
  BY <1>1, SubSeqFull
<1> QED BY <1>2, <1>3 DEF a

LEMMA PrefixesOfTail ==
    ASSUME NEW c \in Seq(Events), c # <<>>, NEW k \in 1 .. Len(Tail(c))
    PROVE  /\ SubSeq(c, 1, k + 1) \in Seq(Events) /\ SubSeq(c, 1, k + 1) # <<>>
           /\ Head(SubSeq(c, 1, k + 1)) = Head(c)
           /\ Tail(SubSeq(c, 1, k + 1)) = SubSeq(Tail(c), 1, k)
<1> DEFINE b == SubSeq(c, 1, k + 1)
           t == Tail(c)
<1>1. /\ Len(c) \in Nat \ {0} /\ Head(c) = c[1]
      /\ t \in Seq(Events) /\ Len(t) = Len(c) - 1
      /\ \A i \in 1 .. Len(t) : t[i] = c[i + 1]
  BY EmptySeq, HeadTailProperties
<1>2. k \in Nat /\ k \in 1 .. Len(t) /\ k + 1 <= Len(c)
  BY <1>1
<1>3. \A i \in 1 .. Len(c) : c[i] \in Events
  BY ElementOfSeq
<1> HIDE DEF t
<1>4. /\ b \in Seq(Events) /\ Len(b) = k + 1
      /\ \A i \in 1 .. k + 1 : b[i] = c[i]
  <2>1. \A i \in 1 .. k + 1 : c[i] \in Events
    BY <1>1, <1>2, <1>3
  <2> QED BY <1>2, <2>1, SubSeqProperties
<1>5. /\ SubSeq(t, 1, k) \in Seq(Events) /\ Len(SubSeq(t, 1, k)) = k
      /\ \A i \in 1 .. k : SubSeq(t, 1, k)[i] = t[i]
  <2>1. \A i \in 1 .. k : t[i] \in Events
    BY <1>1, <1>2, <1>3
  <2> QED BY <1>2, <2>1, SubSeqProperties
<1> HIDE DEF b
<1>6. b # <<>> /\ Head(b) = b[1] /\ b[1] = c[1]
  BY <1>2, <1>4, EmptySeq
<1>7. /\ Tail(b) \in Seq(Events) /\ Len(Tail(b)) = k
      /\ \A i \in 1 .. k : Tail(b)[i] = b[i + 1]
  BY <1>2, <1>4, <1>6, HeadTailProperties
<1>8. \A i \in 1 .. k : Tail(b)[i] = SubSeq(t, 1, k)[i]
  BY SMTT(30), ZenonT(30), <1>1, <1>2, <1>4, <1>5, <1>7
<1>9. Tail(b) = SubSeq(t, 1, k)
  BY <1>5, <1>7, <1>8, SeqEqual
<1> QED BY <1>1, <1>4, <1>6, <1>9 DEF b, t

\* Concatenation is associative.
Groups(s, t, u) == (s \o t) \o u = s \o (t \o u)

LEMMA Regroup == \A s, t, u \in Seq(Dirs) : Groups(s, t, u)
BY SMTT(30), ZenonT(30), ConcatAssociative DEF Groups

LEMMA AfterTypes ==
    ASSUME TypeOK
    PROVE  /\ view.dirs \in Seq(Dirs) /\ Content(channel) \in Seq(Dirs)
           /\ event.dirs \in Seq(Dirs)
           /\ AfterAll \in Seq(Dirs) /\ AfterEvent \in Seq(Dirs)
           /\ \A k \in 1 .. Len(channel) : After(k) \in Seq(Dirs)
<1>1. view.dirs \in Seq(Dirs) /\ event.dirs \in Seq(Dirs)
  BY EventFields, ViewFields DEF TypeOK
<1>2. Content(channel) \in Seq(Dirs)
  BY ContentGrows, EventForms DEF TypeOK
<1>3. AfterAll \in Seq(Dirs)
  BY <1>1, <1>2, ConcatProperties DEF AfterAll
<1>4. AfterEvent \in Seq(Dirs)
  BY <1>1, <1>3, ConcatProperties DEF AfterEvent
<1>5. ASSUME NEW k \in 1 .. Len(channel) PROVE After(k) \in Seq(Dirs)
  <2>1. \A i \in 1 .. k : channel[i] \in Events
    BY ElementOfSeq, LenProperties DEF TypeOK
  <2>2. SubSeq(channel, 1, k) \in Seq(Events)
    BY <2>1, SubSeqProperties
  <2>3. Content(SubSeq(channel, 1, k)) \in Seq(Dirs)
    BY <2>2, ContentGrows, EventForms
  <2> QED BY <1>1, <2>3, ConcatProperties DEF After
<1> QED BY <1>1, <1>2, <1>3, <1>4, <1>5

\* An event that enters the channel comes after all the others.
LEMMA WhatSentDoes ==
    ASSUME TypeOK, channel' = Append(channel, event), view' = view
    PROVE  /\ AfterAll' = AfterEvent
           /\ \A k \in 1 .. Len(channel) : After(k)' = After(k)
           /\ \A k \in Nat : k = Len(channel) + 1 => After(k)' = AfterEvent
<1>1. /\ view.dirs \in Seq(Dirs) /\ Content(channel) \in Seq(Dirs)
      /\ event.dirs \in Seq(Dirs) /\ channel \in Seq(Events) /\ event \in Events
  BY AfterTypes DEF TypeOK
<1>2. Content(Append(channel, event)) = Content(channel) \o event.dirs
  BY <1>1, ContentGrows
<1>3. view.dirs \o Content(Append(channel, event)) = AfterEvent
  <2>1. Groups(view.dirs, Content(channel), event.dirs)
    BY <1>1, Regroup
  <2> QED BY <1>2, <2>1 DEF AfterEvent, AfterAll, Groups
<1>4. AfterAll' = AfterEvent
  BY <1>3 DEF AfterAll
<1>5. /\ \A k \in 1 .. Len(channel) : SubSeq(channel', 1, k) = SubSeq(channel, 1, k)
      /\ SubSeq(channel', 1, Len(channel) + 1) = Append(channel, event)
  BY <1>1, PrefixesOfAppend
<1>6. ASSUME NEW k \in Nat, k = Len(channel) + 1 PROVE After(k)' = AfterEvent
  <2>1. SubSeq(channel', 1, k) = Append(channel, event)
    BY <1>5, <1>6
  <2> QED BY <1>3, <2>1 DEF After
<1>7. ASSUME NEW k \in 1 .. Len(channel) PROVE After(k)' = After(k)
  BY <1>5 DEF After
<1> QED BY <1>4, <1>6, <1>7

\* An event that the view takes leaves what the view will have the same.
LEMMA WhatReceiveDoes ==
    ASSUME TypeOK, channel # <<>>, channel' = Tail(channel),
           view'.dirs = view.dirs \o Head(channel).dirs
    PROVE  /\ AfterAll' = AfterAll
           /\ \A k \in 1 .. Len(channel') : After(k)' = After(k + 1)
           /\ After(1) = view'.dirs
<1>1. /\ view.dirs \in Seq(Dirs) /\ channel \in Seq(Events) /\ Head(channel) \in Events
      /\ Tail(channel) \in Seq(Events) /\ Head(channel) = channel[1]
      /\ Len(channel) \in Nat \ {0}
  BY AfterTypes, HeadTailProperties, EmptySeq DEF TypeOK
<1>2. Head(channel).dirs \in Seq(Dirs)
  BY <1>1, EventFields
<1>3. AfterAll' = AfterAll
  <2>1. Content(channel) = Head(channel).dirs \o Content(Tail(channel))
    BY <1>1, ContentShrinks
  <2>2. Content(Tail(channel)) \in Seq(Dirs)
    BY <1>1, ContentGrows, EventForms
  <2>3. Groups(view.dirs, Head(channel).dirs, Content(Tail(channel)))
    BY SMTT(30), ZenonT(30), <1>1, <1>2, <2>2, Regroup
  <2> QED BY <2>1, <2>3 DEF AfterAll, Groups
<1>4. ASSUME NEW k \in 1 .. Len(Tail(channel)) PROVE After(k)' = After(k + 1)
  <2> DEFINE b == SubSeq(channel, 1, k + 1)
  <2>1. /\ b \in Seq(Events) /\ b # <<>> /\ Head(b) = Head(channel)
        /\ Tail(b) = SubSeq(Tail(channel), 1, k)
    BY <1>1, PrefixesOfTail
  <2> HIDE DEF b
  <2>2. Content(b) = Head(channel).dirs \o Content(SubSeq(Tail(channel), 1, k))
    BY <2>1, ContentShrinks
  <2>3. Content(SubSeq(Tail(channel), 1, k)) \in Seq(Dirs)
    <3>1. Tail(b) \in Seq(Events)
      BY <2>1, HeadTailProperties
    <3> QED BY <2>1, <3>1, ContentGrows, EventForms
  <2>4. Groups(view.dirs, Head(channel).dirs, Content(SubSeq(Tail(channel), 1, k)))
    BY <1>1, <1>2, <2>3, Regroup
  <2> QED BY <2>2, <2>4 DEF After, b, Groups
<1>5. After(1) = view'.dirs
  <2> DEFINE b == SubSeq(channel, 1, 1)
  <2>0. 1 \in 1 .. Len(channel)
    BY <1>1
  <2>1. /\ b \in Seq(Events) /\ Len(b) = 1 /\ b[1] = channel[1]
    <3>1. \A i \in 1 .. 1 : channel[i] \in Events
      BY <1>1
    <3> QED BY <3>1, SubSeqProperties
  <2> HIDE DEF b
  <2>2. b # <<>> /\ Head(b) = Head(channel)
    <3>1. b # <<>>
      <4>1. Len(<<>>) = 0
        BY <1>1, EmptySeq
      <4>2. 1 # 0
        OBVIOUS
      <4> QED BY <2>1, <4>1, <4>2, Zenon
    <3>2. Head(b) = b[1]
      BY <2>1, <3>1
    <3> QED BY <1>1, <2>1, <3>1, <3>2
  <2>3. Tail(b) = <<>>
    <3>1. Tail(b) \in Seq(Events) /\ Len(Tail(b)) = 0
      BY <2>1, <2>2, HeadTailProperties
    <3> QED BY <3>1, EmptySeq
  <2>4. Content(b) = Head(channel).dirs \o Content(<<>>)
    BY <2>1, <2>2, <2>3, ContentShrinks
  <2>5. Content(<<>>) = <<>>
    BY <1>1, ContentGrows
  <2>6. Head(channel).dirs \o <<>> = Head(channel).dirs
    BY <1>2, ConcatEmptySeq
  <2> QED BY <2>4, <2>5, <2>6 DEF After, b
<1> QED BY <1>3, <1>4, <1>5
-----------------------------------------------------------------------------
\* apply_event: what the view takes over from each kind of event.
LEMMA WhatApplyDoes ==
    ASSUME view \in Views, NEW e \in Events, e.type # "none",
           e.type # "update" => e.dirs = <<>>
    PROVE  /\ Applied(e) \in Views
           /\ Applied(e).dirs = view.dirs \o e.dirs
           /\ e.type \in Telling => Applied(e).bytes = e.bytes
           /\ e.type \notin Telling => Applied(e).bytes = view.bytes
           /\ Applied(e).finished <=> (view.finished \/ e.type = "finished")
           /\ e.type = "started" => Applied(e).phase = "running"
           /\ e.type = "update" => Applied(e).phase = view.phase
           /\ e.type = "finished" => Applied(e).phase = "ended"
           /\ e.type = "error" =>
                Applied(e).phase = IF view.finished THEN view.phase ELSE "disconnected"
<1>1. /\ view.dirs \in Seq(Dirs) /\ e.dirs \in Seq(Dirs) /\ e.bytes \in Nat
      /\ e.type \in Types
  BY EventFields, ViewFields
<1>2. view.dirs \o e.dirs \in Seq(Dirs) /\ view.dirs \o <<>> = view.dirs
  BY <1>1, ConcatProperties, ConcatEmptySeq
<1>3. CASE e.type = "started"
  BY <1>2, <1>3 DEF Applied, Views, Phases, Telling
<1>4. CASE e.type = "update"
  BY <1>1, <1>2, <1>4 DEF Applied, Views, Phases, Telling
<1>5. CASE e.type = "finished"
  BY <1>1, <1>2, <1>5 DEF Applied, Views, Phases, Telling
<1>6. CASE e.type = "error"
  BY <1>2, <1>6 DEF Applied, Views, Phases, Telling
<1> QED BY <1>1, <1>3, <1>4, <1>5, <1>6 DEF Types

\* Where the page ends that the thread reads.
LEMMA PageBounds ==
    ASSUME TypeOK
    PROVE  /\ PageEnd \in Nat /\ cursor <= PageEnd /\ PageEnd <= Len(journal)
           /\ PageEnd <= cursor + BatchSize
           /\ SubSeq(journal, cursor + 1, PageEnd) \in Seq(Dirs)
           /\ Len(SubSeq(journal, cursor + 1, PageEnd)) <= BatchSize
<1>1. /\ Len(journal) \in Nat /\ BatchSize \in Nat /\ cursor \in Nat /\ cursor <= Len(journal)
      /\ journal \in Seq(Dirs)
  BY LenProperties, BatchAssumption DEF TypeOK
<1>2. /\ PageEnd \in Nat /\ cursor <= PageEnd /\ PageEnd <= Len(journal)
      /\ PageEnd <= cursor + BatchSize
  BY <1>1 DEF PageEnd
<1>3. \A i \in cursor + 1 .. PageEnd : journal[i] \in Dirs
  BY <1>1, <1>2, ElementOfSeq
<1>4. /\ SubSeq(journal, cursor + 1, PageEnd) \in Seq(Dirs)
      /\ Len(SubSeq(journal, cursor + 1, PageEnd))
           = IF cursor + 1 <= PageEnd THEN PageEnd - (cursor + 1) + 1 ELSE 0
  BY <1>1, <1>2, <1>3, SubSeqProperties
<1> QED BY <1>1, <1>2, <1>4

LEMMA BytesTypes ==
    ASSUME NEW s \in Seq(Dirs)
    PROVE  BytesOf(<<>>) = 0 /\ BytesOf(s) \in Nat
<1>1. Total(Bytes, <<>>) = 0 /\ Total(Bytes, s) \in Nat
  BY BytesAssumption, TotalIsNat
<1> QED BY <1>1 DEF BytesOf, Total

LEMMA BytesAdd ==
    ASSUME NEW s \in Seq(Dirs), NEW t \in Seq(Dirs)
    PROVE  BytesOf(s \o t) = BytesOf(s) + BytesOf(t)
<1>1. Total(Bytes, s \o t) = Total(Bytes, s) + Total(Bytes, t)
  BY BytesAssumption, TotalOfBoth
<1> QED BY <1>1 DEF BytesOf, Total

\* The store: what Complete does to the journal.
LEMMA JournalGrows ==
    ASSUME TypeOK, Complete
    PROVE  /\ \E d \in Dirs : journal' = Append(journal, d)
           /\ journal' \in Seq(Dirs) /\ Len(journal') = Len(journal) + 1
           /\ SubSeq(journal', 1, cursor) = SubSeq(journal, 1, cursor)
<1>1. PICK d \in Dirs : journal' = Append(journal, d)
  BY DEF Complete, Store!Complete
<1>2. /\ journal \in Seq(Dirs) /\ Len(journal) \in Nat
      /\ journal' \in Seq(Dirs) /\ Len(journal') = Len(journal) + 1
      /\ \A i \in 1 .. Len(journal) : journal'[i] = journal[i] /\ journal[i] \in Dirs
  BY <1>1, AppendProperties, LenProperties, ElementOfSeq DEF TypeOK
<1>3. \A i \in 1 .. cursor : journal'[i] = journal[i] /\ journal[i] \in Dirs
  BY <1>2 DEF TypeOK
<1>4. /\ cursor \in Nat
      /\ SubSeq(journal, 1, cursor) \in Seq(Dirs) /\ Len(SubSeq(journal, 1, cursor)) = cursor
      /\ \A i \in 1 .. cursor : SubSeq(journal, 1, cursor)[i] = journal[i]
  BY <1>3, SubSeqProperties DEF TypeOK
<1>5. /\ SubSeq(journal', 1, cursor) \in Seq(Dirs) /\ Len(SubSeq(journal', 1, cursor)) = cursor
      /\ \A i \in 1 .. cursor : SubSeq(journal', 1, cursor)[i] = journal'[i]
  BY <1>3, <1>4, SubSeqProperties
<1>6. \A i \in 1 .. cursor : SubSeq(journal', 1, cursor)[i] = SubSeq(journal, 1, cursor)[i]
  BY <1>3, <1>4, <1>5
<1>7. SubSeq(journal', 1, cursor) = SubSeq(journal, 1, cursor)
  BY <1>4, <1>5, <1>6, SeqEqual
<1> QED BY <1>1, <1>2, <1>7
-----------------------------------------------------------------------------
\* The view starts empty, with nothing on its way.
LEMMA InitInv == Init => Inv
<1> SUFFICES ASSUME Init PROVE Inv
  OBVIOUS
<1> USE DEF Init, Store!Init
<1>1. <<>> \in Seq(Dirs) /\ <<>> \in Seq(Events) /\ Len(<<>>) = 0
  BY EmptySeq
<1>2. /\ BatchSize \in Nat /\ BatchSize > 0 /\ Capacity \in Nat
  BY BatchAssumption, CapacityAssumption
<1>3. TypeOK
  <2>1. view \in Views
    BY <1>1 DEF Views, Phases
  <2>2. /\ journal \in Seq(Dirs) /\ page \in Seq(Dirs) /\ buffered \in Seq(Dirs)
        /\ channel \in Seq(Events) /\ event \in Events
        /\ cursor <= Len(journal) /\ reported <= Len(journal)
    BY <1>1, EventForms
  <2> QED BY <2>1, <2>2 DEF TypeOK, Stages, Backends, Traversals
<1>4. StagesFit
  BY <1>1, <1>2, EventForms DEF StagesFit
<1>5. AfterEvent = <<>>
  <2>1. Content(<<>>) = <<>>
    BY <1>1, EventForms, ContentGrows
  <2>2. <<>> \o <<>> = <<>>
    BY <1>1, ConcatEmptySeq
  <2> QED BY <2>1, <2>2, EventForms DEF AfterEvent, AfterAll
<1>6. TotalsFit
  <2>1. <<>> \o <<>> = <<>>
    BY <1>1, ConcatEmptySeq
  <2>2. BytesOf(<<>>) = 0
    BY <1>1, BytesTypes
  <2> QED BY <1>1, <1>5, <2>1, <2>2, EventForms DEF TotalsFit, AllocatedFits, Telling
<1>7. JournalInOrder
  <2>1. <<>> \o <<>> = <<>>
    BY <1>1, ConcatEmptySeq
  <2>2. SubSeq(<<>>, 1, 0) = <<>>
    BY SubSeqEmpty
  <2> QED BY <1>5, <2>1, <2>2 DEF JournalInOrder
<1>8. EndComesLast /\ StartComesFirst /\ Endings
  BY <1>1, EventForms DEF EndComesLast, StartComesFirst, Endings
<1> QED BY <1>3, <1>4, <1>6, <1>7, <1>8 DEF Inv

\* Types.
LEMMA TypesKept ==
    ASSUME TypeOK, StartComesFirst, [Next]_vars
    PROVE  TypeOK'
<1> USE DEF Stages, Backends, Traversals
<1>0. /\ <<>> \in Seq(Dirs) /\ Len(journal) \in Nat /\ BytesOf(page) \in Nat
  BY EmptySeq, LenProperties, BytesTypes DEF TypeOK
<1>1. CASE Start
  BY <1>1, EventForms DEF Start, Send, TypeOK, world, store, loop, pipe
<1>2. CASE Sent
  <2>1. channel' \in Seq(Events)
    BY <1>2, AppendProperties DEF Sent, TypeOK
  <2>2. stage' \in Stages
    BY <1>2 DEF Sent
  <2> QED BY <1>2, <2>1, <2>2, EventForms DEF Sent, TypeOK, world, store, loop, pipe
<1>3. CASE SendFails
  BY <1>3, EventForms DEF SendFails, TypeOK, world, store, loop, pipe
<1>4. CASE Poll
  BY SMTT(30), ZenonT(30), <1>4, PageBounds DEF Poll, SessionFails, TypeOK, world, store, sending, pipe
<1>5. CASE Summarize
  <2>1. buffered \o page \in Seq(Dirs)
    BY ConcatProperties DEF TypeOK
  <2>2. /\ buffered' \in Seq(Dirs) /\ allocated' \in Nat /\ page' \in Seq(Dirs)
        /\ stage' \in Stages /\ failed' \in BOOLEAN
    <3>1. allocated + BytesOf(page) \in Nat
      BY <1>0 DEF TypeOK
    <3>2. CASE stage' = "deciding"
      BY <1>0, <1>5, <2>1, <3>1, <3>2 DEF Summarize, SessionFails, TypeOK
    <3>3. CASE SessionFails
      BY <1>5, <3>3 DEF Summarize, SessionFails, TypeOK
    <3> QED BY <1>5, <3>2, <3>3 DEF Summarize
  <2>3. UNCHANGED <<journal, reported, traversal, backend, cursor, due, event, drained, channel,
                    receiver_open, view>>
    BY <1>5 DEF Summarize, world, store, sending, pipe
  <2> QED BY <2>2, <2>3 DEF TypeOK
<1>6. CASE Wait
  BY <1>6 DEF Wait, TypeOK, world, store, loop, sending, pipe
<1>7. CASE Publish
  <2>1. Update(buffered, allocated) \in Events
    BY EventForms DEF TypeOK
  <2>2. event' \in Events /\ drained' \in BOOLEAN /\ stage' \in Stages
    BY <1>7, <2>1 DEF Publish, Drained, Send, SessionFails, TypeOK, sending
  <2>3. buffered' \in Seq(Dirs) /\ due' \in BOOLEAN /\ failed' \in BOOLEAN
    BY <1>0, <1>7 DEF Publish, SessionFails, TypeOK
  <2>4. UNCHANGED <<journal, reported, traversal, backend, cursor, page, allocated, channel,
                    receiver_open, view>>
    BY <1>7 DEF Publish, world, store, pipe
  <2> QED BY <2>2, <2>3, <2>4 DEF TypeOK
<1>8. CASE AwaitScan
  <2>1. Finished(allocated) \in Events
    BY EventForms DEF TypeOK
  <2> QED BY <1>8, <2>1 DEF AwaitScan, Send, SessionFails, TypeOK, world, store, loop, pipe
<1>9. CASE Release
  BY <1>9 DEF Release, TypeOK, world, store, loop, sending, pipe
<1>10. CASE Shutdown
  BY <1>10, EventForms DEF Shutdown, Send, TypeOK, world, store, loop, pipe
<1>11. CASE Tick
  BY <1>11 DEF Tick, TypeOK, world, store, sending, pipe
<1>12. CASE Receive
  <2>1. /\ Head(channel) \in Events /\ Tail(channel) \in Seq(Events)
        /\ Head(channel) = channel[1] /\ 1 \in 1 .. Len(channel)
    BY <1>12, HeadTailProperties, EmptySeq DEF Receive, TypeOK
  <2>2. Applied(Head(channel)) \in Views
    BY SMTT(30), ZenonT(30), <2>1, WhatApplyDoes DEF StartComesFirst, TypeOK
  <2> QED BY <1>12, <2>1, <2>2 DEF Receive, TypeOK, world, store, loop, sending
<1>13. CASE CloseReceiver
  BY SMTT(10), ZenonT(60), <1>13, EmptySeq DEF CloseReceiver, TypeOK, world, store, loop, sending
<1>14. CASE Complete
  BY <1>0, <1>14, JournalGrows DEF Complete, TypeOK, loop, sending, pipe
<1>15. CASE FinishTraversal
  BY <1>0, <1>15 DEF FinishTraversal, TypeOK, store, loop, sending, pipe
<1>16. CASE BackendDies
  BY <1>16 DEF BackendDies, TypeOK, world, store, loop, sending, pipe
<1>17. CASE UNCHANGED vars
  BY <1>17 DEF vars, TypeOK, world, store, loop, sending, pipe
<1> QED BY <1>1, <1>2, <1>3, <1>4, <1>5, <1>6, <1>7, <1>8, <1>9, <1>10, <1>11, <1>12,
           <1>13, <1>14, <1>15, <1>16, <1>17 DEF Next, Drive

\* What the thread holds: the buffer is published before it reaches twice the
\* size of a batch, and the channel takes one event more than its capacity.
LEMMA StagesKept ==
    ASSUME TypeOK, StagesFit, StartComesFirst, [Next]_vars, TypeOK'
    PROVE  StagesFit'
<1>0. /\ BatchSize \in Nat /\ BatchSize > 0 /\ Capacity \in Nat
      /\ <<>> \in Seq(Dirs) /\ Len(<<>>) = 0
      /\ Len(page) \in Nat /\ Len(buffered) \in Nat /\ Len(channel) \in Nat
  BY EmptySeq, LenProperties, BatchAssumption, CapacityAssumption DEF TypeOK
<1>1. CASE Start
  BY <1>0, <1>1, EventForms DEF Start, Send, StagesFit, world, store, loop, pipe
<1>2. CASE Sent
  <2>1. Len(channel') = Len(channel) + 1
    BY <1>2, AppendProperties DEF Sent, TypeOK
  <2>2. Len(channel') <= Capacity + 1
    BY <1>0, <1>2, <2>1 DEF Sent
  <2>3. /\ event' = None /\ stage = "sending" /\ event.type # "none"
        /\ stage' = CASE event.type = "error" -> "done"
                      [] event.type = "finished" -> "releasing"
                      [] OTHER -> IF drained THEN "awaiting" ELSE "polling"
        /\ UNCHANGED <<page, buffered, drained>>
    BY <1>2 DEF Sent, loop, StagesFit
  <2>4. None.type = "none" /\ None.dirs = <<>>
    BY EventForms
  <2>5. event.type # "error" => page = <<>> /\ buffered = <<>> /\ Len(buffered) < BatchSize
    BY <1>0, <2>3 DEF StagesFit
  <2>6. Len(page) <= BatchSize /\ Len(buffered) < 2 * BatchSize
    BY DEF StagesFit
  <2>7. drained => event.type \in {"update", "finished", "error"}
    BY <2>3 DEF StagesFit
  <2>8. /\ stage' \in {"done", "releasing", "awaiting", "polling"}
        /\ stage' = "polling" => event.type # "error" /\ ~ drained
        /\ stage' = "awaiting" => event.type # "error" /\ drained
    <3>1. drained \in BOOLEAN
      BY DEF TypeOK
    <3> QED BY <2>3, <3>1
  <2>9. /\ event'.type = "none" /\ event'.dirs = <<>>
        /\ page' = page /\ buffered' = buffered /\ drained' = drained
    BY <2>3, <2>4
  <2> QED BY <2>2, <2>5, <2>6, <2>8, <2>9 DEF StagesFit
<1>3. CASE SendFails
  BY <1>0, <1>3, EventForms DEF SendFails, StagesFit, world, store, loop, pipe
<1>4. CASE Poll
  <2>1. CASE SessionFails
    BY <1>0, <1>4, <2>1 DEF Poll, SessionFails, StagesFit, sending, pipe
  <2>2. CASE stage' = "summarizing"
    <3>1. page' = SubSeq(journal, cursor + 1, PageEnd)
      BY <1>4, <2>2 DEF Poll, SessionFails
    <3>2. Len(page') <= BatchSize
      BY <3>1, PageBounds
    <3> QED BY <1>0, <1>4, <2>2, <3>2 DEF Poll, StagesFit, sending, pipe
  <2> QED BY <1>4, <2>1, <2>2 DEF Poll
<1>5. CASE Summarize
  <2>1. CASE SessionFails
    BY <1>0, <1>5, <2>1 DEF Summarize, SessionFails, StagesFit, sending, pipe
  <2>2. CASE stage' = "deciding"
    <3>1. buffered' = buffered \o page /\ page' = <<>> /\ stage = "summarizing"
          /\ UNCHANGED <<channel, event, drained>>
      BY <1>5, <2>2 DEF Summarize, SessionFails, sending, pipe
    <3>2. Len(buffered') = Len(buffered) + Len(page)
      BY <3>1, ConcatProperties DEF TypeOK
    <3>3. Len(buffered') < 2 * BatchSize
      BY <1>0, <3>1, <3>2 DEF StagesFit
    <3> QED BY <1>0, <2>2, <3>1, <3>3 DEF StagesFit
  <2> QED BY <1>5, <2>1, <2>2 DEF Summarize
<1>6. CASE Wait
  BY <1>0, <1>6 DEF Wait, StagesFit, loop, sending, pipe
<1>7. CASE Publish
  <2>1. CASE SessionFails
    BY <1>0, <1>7, <2>1 DEF Publish, Send, SessionFails, StagesFit, sending, pipe
  <2>2. CASE stage' = "sending"
    <3>1. event' = Update(buffered, allocated) /\ buffered' = <<>> /\ stage = "deciding"
          /\ UNCHANGED <<channel, page>>
      BY <1>7, <2>2 DEF Publish, SessionFails, Send, pipe
    <3>2. event'.type = "update"
      BY SMTT(30), ZenonT(30), <3>1, EventForms DEF TypeOK
    <3>3. Len(buffered') < 2 * BatchSize /\ page = <<>>
      BY <1>0, <3>1 DEF StagesFit
    <3>4. Len(channel) <= Capacity + 1 /\ Len(page) <= BatchSize
      BY DEF StagesFit
    <3> QED BY <2>2, <3>1, <3>2, <3>3, <3>4 DEF StagesFit
  <2> QED BY <1>7, <2>1, <2>2 DEF Publish, Send
<1>8. CASE AwaitScan
  <2>1. CASE SessionFails
    BY <1>0, <1>8, <2>1 DEF AwaitScan, Send, SessionFails, StagesFit, loop, pipe
  <2>2. CASE stage' = "sending"
    <3>1. event' = Finished(allocated) /\ stage = "awaiting"
          /\ UNCHANGED <<channel, page, buffered, drained>>
      BY <1>8, <2>2 DEF AwaitScan, SessionFails, Send, loop, pipe
    <3>2. event'.type = "finished" /\ event'.dirs = <<>>
      BY <3>1, EventForms DEF TypeOK
    <3> QED BY <1>0, <2>2, <3>1, <3>2 DEF StagesFit
  <2> QED BY <1>8, <2>1, <2>2 DEF AwaitScan, Send
<1>9. CASE Release
  BY <1>0, <1>9 DEF Release, StagesFit, loop, sending, pipe
<1>10. CASE Shutdown
  BY <1>0, <1>10, EventForms DEF Shutdown, Send, StagesFit, loop, pipe
<1>11. CASE Tick
  BY <1>11 DEF Tick, StagesFit, sending, pipe
<1>12. CASE Receive
  <2>1. Len(channel') = Len(channel) - 1
    BY <1>12, HeadTailProperties DEF Receive, TypeOK
  <2> QED BY <1>0, <1>12, <2>1 DEF Receive, StagesFit, loop, sending
<1>13. CASE CloseReceiver
  BY <1>0, <1>13 DEF CloseReceiver, StagesFit, loop, sending
<1>14. CASE Complete
  BY <1>14 DEF Complete, StagesFit, loop, sending, pipe
<1>15. CASE FinishTraversal
  BY <1>15 DEF FinishTraversal, StagesFit, loop, sending, pipe
<1>16. CASE BackendDies
  BY <1>16 DEF BackendDies, StagesFit, loop, sending, pipe
<1>17. CASE UNCHANGED vars
  BY <1>17 DEF vars, StagesFit, loop, sending, pipe
<1> QED BY <1>1, <1>2, <1>3, <1>4, <1>5, <1>6, <1>7, <1>8, <1>9, <1>10, <1>11, <1>12,
           <1>13, <1>14, <1>15, <1>16, <1>17 DEF Next, Drive

\* Nothing that the view has or will have changes where view, channel and the
\* directories of the event do not.
LEMMA WhatStaysDoes ==
    ASSUME TypeOK, TypeOK', UNCHANGED <<view, channel>>
    PROVE  /\ AfterAll' = AfterAll
           /\ \A k \in 1 .. Len(channel) : After(k)' = After(k)
           /\ event'.dirs = event.dirs => AfterEvent' = AfterEvent
           /\ event.dirs = <<>> => AfterEvent = AfterAll
           /\ event'.dirs = <<>> => AfterEvent' = AfterAll
           /\ event.dirs = <<>> /\ event'.dirs = <<>> => AfterEvent' = AfterEvent
<1>1. AfterAll' = AfterAll
  BY DEF AfterAll
<1>2. \A k \in 1 .. Len(channel) : After(k)' = After(k)
  BY DEF After
<1>3. AfterAll \o <<>> = AfterAll
  BY AfterTypes, ConcatEmptySeq
<1>4. event.dirs = <<>> => AfterEvent = AfterAll
  BY <1>3 DEF AfterEvent
<1>5. AfterEvent' = AfterAll \o event'.dirs
  BY <1>1 DEF AfterEvent
<1>6. event'.dirs = <<>> => AfterEvent' = AfterAll
  BY <1>3, <1>5
<1>7. event'.dirs = event.dirs => AfterEvent' = AfterEvent
  BY <1>5 DEF AfterEvent
<1> QED BY <1>1, <1>2, <1>4, <1>6, <1>7

\* What a step can do to the directories between the journal and the view.
Carries ==
    /\ AfterEvent' = AfterEvent /\ UNCHANGED <<buffered, page, cursor, allocated>>
    /\ SubSeq(journal', 1, cursor) = SubSeq(journal, 1, cursor)
ReadsPage ==
    /\ AfterEvent' = AfterEvent /\ UNCHANGED <<buffered, allocated, journal>>
    /\ page = <<>> /\ page' = SubSeq(journal, cursor + 1, PageEnd) /\ cursor' = PageEnd
TakesPage ==
    /\ AfterEvent' = AfterEvent /\ UNCHANGED <<cursor, journal>>
    /\ buffered' = buffered \o page /\ page' = <<>>
    /\ allocated' = allocated + BytesOf(page)
PublishesBuffer ==
    /\ AfterEvent' = AfterEvent \o buffered /\ UNCHANGED <<cursor, journal, page, allocated>>
    /\ buffered' = <<>>

LEMMA WhatStepsDo ==
    ASSUME TypeOK, StagesFit, StartComesFirst, [Next]_vars, TypeOK', StagesFit', receiver_open'
    PROVE  receiver_open /\ (Carries \/ ReadsPage \/ TakesPage \/ PublishesBuffer)
<1>1. CASE Start
  <2>1. event.dirs = <<>> /\ event'.dirs = <<>>
    BY <1>1, EventForms DEF Start, Send, StagesFit
  <2>2. AfterEvent' = AfterEvent
    BY <1>1, <2>1, WhatStaysDoes DEF Start, pipe
  <2> QED BY <1>1, <2>2 DEF Start, world, store, loop, pipe, Carries
<1>2. CASE Sent
  <2>1. AfterAll' = AfterEvent /\ event'.dirs = <<>>
    BY <1>2, WhatSentDoes, EventForms DEF Sent
  <2>2. AfterEvent \o <<>> = AfterEvent
    BY AfterTypes, ConcatEmptySeq
  <2>3. AfterEvent' = AfterEvent
    BY <2>1, <2>2 DEF AfterEvent
  <2> QED BY <1>2, <2>3 DEF Sent, world, store, loop, Carries
<1>3. CASE SendFails
  BY <1>3 DEF SendFails, pipe
<1>4. CASE Poll
  <2>1. AfterEvent' = AfterEvent
    BY <1>4, WhatStaysDoes DEF Poll, pipe, sending
  <2>2. page = <<>>
    BY <1>4 DEF Poll, StagesFit
  <2>3. CASE SessionFails
    BY <1>4, <2>1, <2>3 DEF Poll, SessionFails, world, store, pipe, Carries
  <2>4. CASE stage' = "summarizing"
    BY <1>4, <2>1, <2>2, <2>4 DEF Poll, SessionFails, world, store, pipe, ReadsPage
  <2> QED BY <1>4, <2>3, <2>4 DEF Poll
<1>5. CASE Summarize
  <2>1. AfterEvent' = AfterEvent
    BY <1>5, WhatStaysDoes DEF Summarize, pipe, sending
  <2>2. CASE SessionFails
    BY <1>5, <2>1, <2>2 DEF Summarize, SessionFails, world, store, pipe, Carries
  <2>3. CASE stage' = "deciding"
    BY <1>5, <2>1, <2>3 DEF Summarize, SessionFails, world, store, pipe, TakesPage
  <2> QED BY <1>5, <2>2, <2>3 DEF Summarize
<1>6. CASE Wait
  <2>1. AfterEvent' = AfterEvent
    BY <1>6, WhatStaysDoes DEF Wait, pipe, sending
  <2> QED BY <1>6, <2>1 DEF Wait, world, store, loop, pipe, Carries
<1>7. CASE Publish
  <2>1. CASE SessionFails
    <3>1. UNCHANGED <<event, view, channel>>
      BY <1>7, <2>1 DEF Publish, Send, SessionFails, pipe, sending
    <3>2. AfterEvent' = AfterEvent
      BY <3>1, WhatStaysDoes
    <3> QED BY <1>7, <2>1, <3>2 DEF Publish, Send, SessionFails, world, store, pipe, Carries
  <2>2. CASE Send(Update(buffered, allocated))
    <3>1. event'.dirs = buffered /\ event.dirs = <<>>
      BY SMTT(30), ZenonT(30), <1>7, <2>2, EventForms DEF Publish, Send, TypeOK, StagesFit
    <3>2. AfterEvent = AfterAll /\ AfterAll' = AfterAll
      BY <1>7, <3>1, WhatStaysDoes DEF Publish, pipe
    <3>3. AfterEvent' = AfterEvent \o buffered
      BY <3>1, <3>2 DEF AfterEvent
    <3> QED BY <1>7, <2>2, <3>3
            DEF Publish, Send, SessionFails, world, store, pipe, PublishesBuffer
  <2> QED BY <1>7, <2>1, <2>2 DEF Publish
<1>8. CASE AwaitScan
  <2>1. event.dirs = <<>> /\ event'.dirs = <<>>
    BY <1>8, EventForms DEF AwaitScan, Send, StagesFit, TypeOK
  <2>2. AfterEvent' = AfterEvent
    BY <1>8, <2>1, WhatStaysDoes DEF AwaitScan, pipe
  <2> QED BY <1>8, <2>2 DEF AwaitScan, world, store, loop, pipe, Carries
<1>9. CASE Release
  <2>1. AfterEvent' = AfterEvent
    BY <1>9, WhatStaysDoes DEF Release, pipe, sending
  <2> QED BY <1>9, <2>1 DEF Release, world, store, loop, pipe, Carries
<1>10. CASE Shutdown
  <2>1. event.dirs = <<>> /\ event'.dirs = <<>>
    BY <1>10, EventForms DEF Shutdown, Send, StagesFit
  <2>2. AfterEvent' = AfterEvent
    BY <1>10, <2>1, WhatStaysDoes DEF Shutdown, pipe
  <2> QED BY <1>10, <2>2 DEF Shutdown, world, store, loop, pipe, Carries
<1>11. CASE Tick
  <2>1. AfterEvent' = AfterEvent
    BY <1>11, WhatStaysDoes DEF Tick, pipe, sending
  <2> QED BY <1>11, <2>1 DEF Tick, world, store, pipe, Carries
<1>12. CASE Receive
  <2>1. /\ channel # <<>> /\ Head(channel) \in Events
        /\ Head(channel).type # "none"
        /\ Head(channel).type # "update" => Head(channel).dirs = <<>>
    <3>1. /\ channel # <<>> /\ Head(channel) \in Events
          /\ Head(channel) = channel[1] /\ 1 \in 1 .. Len(channel)
      BY <1>12, HeadTailProperties, EmptySeq DEF Receive, TypeOK
    <3> QED BY <3>1 DEF StartComesFirst
  <2>2. view'.dirs = view.dirs \o Head(channel).dirs
    BY <1>12, <2>1, WhatApplyDoes DEF Receive, TypeOK
  <2>3. AfterAll' = AfterAll
    BY <1>12, <2>1, <2>2, WhatReceiveDoes DEF Receive
  <2>4. AfterEvent' = AfterEvent
    BY <1>12, <2>3 DEF Receive, sending, AfterEvent
  <2> QED BY <1>12, <2>4 DEF Receive, world, store, loop, Carries
<1>13. CASE CloseReceiver
  BY <1>13 DEF CloseReceiver
<1>14. CASE Complete
  <2>1. AfterEvent' = AfterEvent
    BY <1>14, WhatStaysDoes DEF Complete, pipe, sending
  <2> QED BY <1>14, <2>1, JournalGrows DEF Complete, loop, pipe, Carries
<1>15. CASE FinishTraversal
  <2>1. AfterEvent' = AfterEvent
    BY <1>15, WhatStaysDoes DEF FinishTraversal, pipe, sending
  <2> QED BY <1>15, <2>1 DEF FinishTraversal, store, loop, pipe, Carries
<1>16. CASE BackendDies
  <2>1. AfterEvent' = AfterEvent
    BY <1>16, WhatStaysDoes DEF BackendDies, pipe, sending
  <2> QED BY <1>16, <2>1 DEF BackendDies, world, store, loop, pipe, Carries
<1>17. CASE UNCHANGED vars
  <2>1. AfterEvent' = AfterEvent
    BY <1>17, WhatStaysDoes DEF vars, pipe, sending
  <2> QED BY <1>17, <2>1 DEF vars, world, store, loop, pipe, Carries
<1> QED BY <1>1, <1>2, <1>3, <1>4, <1>5, <1>6, <1>7, <1>8, <1>9, <1>10, <1>11, <1>12,
           <1>13, <1>14, <1>15, <1>16, <1>17 DEF Next, Drive

\* Events, buffer and page stay the journal up to the cursor.
LEMMA JournalKept ==
    ASSUME TypeOK, StagesFit, StartComesFirst, JournalInOrder, [Next]_vars,
           TypeOK', StagesFit'
    PROVE  JournalInOrder'
<1> SUFFICES ASSUME receiver_open'
             PROVE  ((AfterEvent' \o buffered') \o page') = SubSeq(journal', 1, cursor')
  BY DEF JournalInOrder
<1> DEFINE had == AfterEvent
           soFar == SubSeq(journal, 1, cursor)
<1>1. receiver_open /\ (Carries \/ ReadsPage \/ TakesPage \/ PublishesBuffer)
  BY WhatStepsDo
<1>2. /\ had \in Seq(Dirs) /\ buffered \in Seq(Dirs) /\ page \in Seq(Dirs)
      /\ journal \in Seq(Dirs)
  BY AfterTypes DEF TypeOK
<1>3. ((had \o buffered) \o page) = soFar
  BY <1>1 DEF JournalInOrder
<1>4. had \o buffered \in Seq(Dirs) /\ buffered \o page \in Seq(Dirs)
  BY <1>2, ConcatProperties
<1> HIDE DEF had, soFar
<1>5. CASE Carries
  <2>1. AfterEvent' = had /\ SubSeq(journal', 1, cursor') = soFar
    BY <1>5 DEF Carries, had, soFar
  <2> QED BY <1>3, <1>5, <2>1 DEF Carries
<1>6. CASE ReadsPage
  <2>1. had \o buffered = soFar
    BY <1>3, <1>4, <1>6, ConcatEmptySeq DEF ReadsPage
  <2>2. soFar \o SubSeq(journal, cursor + 1, PageEnd) = SubSeq(journal, 1, PageEnd)
    <3>1. /\ 1 \in 1 .. Len(journal) + 1 /\ cursor \in 1 - 1 .. Len(journal)
          /\ PageEnd \in cursor .. Len(journal)
      BY <1>2, PageBounds, LenProperties DEF TypeOK
    <3> QED BY <1>2, <3>1, ConcatAdjacentSubSeq DEF soFar
  <2>3. AfterEvent' \o buffered' = soFar /\ page' = SubSeq(journal, cursor + 1, PageEnd)
    BY <1>6, <2>1 DEF ReadsPage, had
  <2>4. SubSeq(journal', 1, cursor') = SubSeq(journal, 1, PageEnd)
    BY <1>6 DEF ReadsPage
  <2> QED BY <2>2, <2>3, <2>4
<1>7. CASE TakesPage
  <2>1. Groups(had, buffered, page)
    BY <1>2, Regroup
  <2>2. had \o (buffered \o page) = soFar
    BY <1>3, <2>1 DEF Groups
  <2>3. (had \o (buffered \o page)) \o <<>> = had \o (buffered \o page)
    BY <1>2, <1>4, ConcatProperties, ConcatEmptySeq
  <2>4. /\ AfterEvent' = had /\ buffered' = buffered \o page /\ page' = <<>>
        /\ SubSeq(journal', 1, cursor') = soFar
    BY <1>7 DEF TakesPage, had, soFar
  <2> QED BY <2>2, <2>3, <2>4
<1>8. CASE PublishesBuffer
  <2>1. (had \o buffered) \o <<>> = had \o buffered
    BY <1>4, ConcatEmptySeq
  <2>2. /\ AfterEvent' = had \o buffered /\ buffered' = <<>> /\ page' = page
        /\ SubSeq(journal', 1, cursor') = soFar
    BY <1>8 DEF PublishesBuffer, had, soFar
  <2> QED BY <1>3, <2>1, <2>2
<1> QED BY <1>1, <1>5, <1>6, <1>7, <1>8

\* The bytes of all summaries grow by those of the page that is summarized.
LEMMA AllocatedKept ==
    ASSUME TypeOK, StagesFit, StartComesFirst, receiver_open => AllocatedFits,
           [Next]_vars, TypeOK', StagesFit', receiver_open'
    PROVE  AllocatedFits'
<1> DEFINE had == AfterEvent
<1>1. receiver_open /\ (Carries \/ ReadsPage \/ TakesPage \/ PublishesBuffer)
  BY WhatStepsDo
<1>2. had \in Seq(Dirs) /\ buffered \in Seq(Dirs) /\ page \in Seq(Dirs)
  BY AfterTypes DEF TypeOK
<1>3. allocated = BytesOf(had \o buffered)
  BY <1>1 DEF AllocatedFits
<1>4. had \o buffered \in Seq(Dirs) /\ buffered \o page \in Seq(Dirs)
  BY <1>2, ConcatProperties
<1>5. allocated' = BytesOf(AfterEvent' \o buffered') => AllocatedFits'
  BY DEF AllocatedFits
<1> HIDE DEF had
<1>6. CASE Carries \/ ReadsPage
  <2>1. AfterEvent' = had /\ buffered' = buffered /\ allocated' = allocated
    BY <1>6 DEF Carries, ReadsPage, had
  <2> QED BY <1>3, <1>5, <2>1
<1>7. CASE TakesPage
  <2>1. Groups(had, buffered, page)
    BY <1>2, Regroup
  <2>2. BytesOf((had \o buffered) \o page) = allocated + BytesOf(page)
    BY <1>2, <1>3, <1>4, BytesAdd
  <2>3. BytesOf(had \o (buffered \o page)) = allocated + BytesOf(page)
    BY <2>1, <2>2 DEF Groups
  <2>4. /\ AfterEvent' = had /\ buffered' = buffered \o page
        /\ allocated' = allocated + BytesOf(page)
    BY <1>7 DEF TakesPage, had
  <2> QED BY <1>5, <2>3, <2>4
<1>8. CASE PublishesBuffer
  <2>1. (had \o buffered) \o <<>> = had \o buffered
    BY <1>4, ConcatEmptySeq
  <2>2. AfterEvent' = had \o buffered /\ buffered' = <<>> /\ allocated' = allocated
    BY <1>8 DEF PublishesBuffer, had
  <2> QED BY <1>3, <1>5, <2>1, <2>2
<1> QED BY <1>1, <1>6, <1>7, <1>8

\* Which steps change the view or the channel, and which the event.
LEMMA PipeSteps ==
    ASSUME [Next]_vars
    PROVE  UNCHANGED <<view, channel, receiver_open>> \/ Sent \/ Receive \/ CloseReceiver
BY DEF Next, Drive, vars, pipe, Start, SendFails, Poll, Summarize, Wait, Publish, AwaitScan,
       Release, Shutdown, Tick, Complete, FinishTraversal, BackendDies

\* A step that sends an update or the last word of the scan.
SendsUpdate ==
    /\ stage = "deciding" /\ event' = Update(buffered, allocated)
    /\ drained' = Drained /\ UNCHANGED <<view, channel, receiver_open, world, cursor>>
SendsEnd ==
    /\ stage = "awaiting" /\ event' = Finished(allocated)
    /\ UNCHANGED <<view, channel, receiver_open, world, drained, buffered, page, cursor>>

LEMMA EventSteps ==
    ASSUME TypeOK, [Next]_vars
    PROVE  \/ UNCHANGED <<event, drained>> /\ ~ Sent
           \/ event' \in {None, Failure} /\ UNCHANGED drained
           \/ event' = Started /\ Start /\ UNCHANGED drained
           \/ SendsUpdate
           \/ SendsEnd
<1>1. CASE Publish
  BY <1>1 DEF Publish, Send, SessionFails, sending, pipe, SendsUpdate, Sent
<1>2. CASE AwaitScan
  BY <1>2 DEF AwaitScan, Send, SessionFails, loop, pipe, SendsEnd, Sent
<1>3. CASE Start \/ Sent \/ SendFails \/ Shutdown
  BY <1>3 DEF Start, Send, Sent, SendFails, Shutdown, sending
<1>4. CASE Poll \/ Summarize \/ Wait \/ Release
  BY <1>4 DEF Poll, SessionFails, Summarize, Wait, Release, sending, Sent
<1>5. CASE Tick \/ Receive \/ CloseReceiver \/ Complete \/ FinishTraversal \/ BackendDies
  <2>1. UNCHANGED <<event, drained, stage>>
    BY <1>5 DEF Tick, Receive, CloseReceiver, Complete, FinishTraversal, BackendDies, sending
  <2>2. Sent => stage = "sending" /\ event' = None
    BY DEF Sent
  <2> QED BY <2>1, <2>2
<1>6. CASE UNCHANGED vars
  <2>1. UNCHANGED <<event, drained, stage>>
    BY <1>6 DEF vars, sending
  <2>2. Sent => event' = None
    BY DEF Sent
  <2> QED BY <2>1, <2>2
<1> QED BY <1>1, <1>2, <1>3, <1>4, <1>5, <1>6 DEF Next, Drive

\* The traversal ends once, the cursor never goes back.
LEMMA OnlyForward ==
    ASSUME TypeOK, [Next]_vars
    PROVE  /\ traversal = "finished" => traversal' = "finished" /\ reported' = reported
           /\ cursor' >= cursor
<1>1. traversal = "finished" => traversal' = "finished" /\ reported' = reported
  BY DEF Next, Drive, vars, world, Start, Sent, SendFails, Poll, Summarize, Wait, Publish,
         AwaitScan, Release, Shutdown, Tick, Receive, CloseReceiver, Complete,
         FinishTraversal, BackendDies
<1>2. PageEnd >= cursor /\ cursor >= cursor
  BY PageBounds DEF TypeOK
<1>3. cursor' = cursor \/ cursor' = PageEnd
  BY DEF Next, Drive, vars, loop, Start, Sent, SendFails, Poll, Summarize, Wait, Publish,
         AwaitScan, Release, Shutdown, Tick, Receive, CloseReceiver, Complete,
         FinishTraversal, BackendDies
<1> QED BY <1>1, <1>2, <1>3

LEMMA LongerWith ==
    ASSUME NEW s \in Seq(Dirs), NEW t \in Seq(Dirs)
    PROVE  Len(s \o t) >= Len(s) /\ Len(s) \in Nat /\ Len(s \o t) \in Nat
<1>1. Len(s) \in Nat /\ Len(t) \in Nat
  BY LenProperties
<1>2. Len(s \o t) = Len(s) + Len(t)
  BY ConcatProperties
<1> QED BY <1>1, <1>2

\* What the view will have never becomes less.
LEMMA AfterGrows ==
    ASSUME TypeOK, StagesFit, StartComesFirst, [Next]_vars, TypeOK', StagesFit', receiver_open'
    PROVE  /\ Len(AfterEvent') >= Len(AfterEvent)
           /\ Len(AfterEvent) \in Nat /\ Len(AfterEvent') \in Nat
<1>1. Carries \/ ReadsPage \/ TakesPage \/ PublishesBuffer
  BY WhatStepsDo
<1>2. AfterEvent \in Seq(Dirs) /\ buffered \in Seq(Dirs)
  BY AfterTypes DEF TypeOK
<1>3. AfterEvent' = AfterEvent \/ AfterEvent' = AfterEvent \o buffered
  BY <1>1 DEF Carries, ReadsPage, TakesPage, PublishesBuffer
<1> QED BY <1>2, <1>3, LongerWith

\* What the view takes with the first event of the channel.
LEMMA WhatViewTakes ==
    ASSUME TypeOK, StartComesFirst, Receive
    PROVE  /\ 1 \in 1 .. Len(channel) /\ channel[1] \in Events /\ channel[1].type # "none"
           /\ view' = Applied(channel[1]) /\ view'.dirs = After(1)
           /\ view'.dirs = view.dirs \o channel[1].dirs
           /\ channel[1].type \in Telling => view'.bytes = channel[1].bytes
           /\ channel[1].type \notin Telling => view'.bytes = view.bytes /\ view'.dirs = view.dirs
           /\ view'.finished <=> (view.finished \/ channel[1].type = "finished")
           /\ AfterAll' = AfterAll
           /\ Len(channel') \in Nat /\ Len(channel) = Len(channel') + 1
           /\ \A k \in 1 .. Len(channel') :
                k + 1 \in 1 .. Len(channel) /\ channel'[k] = channel[k + 1]
                /\ After(k)' = After(k + 1)
<1>1. /\ channel # <<>> /\ Head(channel) = channel[1] /\ 1 \in 1 .. Len(channel)
      /\ channel[1] \in Events /\ channel' = Tail(channel)
      /\ Len(channel) \in Nat /\ Len(channel') = Len(channel) - 1
      /\ \A k \in 1 .. Len(channel') : channel'[k] = channel[k + 1]
  BY HeadTailProperties, EmptySeq DEF Receive, TypeOK
<1>2. /\ channel[1].type # "none"
      /\ channel[1].type # "update" => channel[1].dirs = <<>>
  BY <1>1 DEF StartComesFirst
<1>3. view' = Applied(channel[1])
  BY <1>1 DEF Receive
<1>4. /\ view'.dirs = view.dirs \o channel[1].dirs
      /\ channel[1].type \in Telling => view'.bytes = channel[1].bytes
      /\ channel[1].type \notin Telling => view'.bytes = view.bytes
      /\ view'.finished <=> (view.finished \/ channel[1].type = "finished")
  BY <1>1, <1>2, <1>3, WhatApplyDoes DEF TypeOK
<1>5. /\ AfterAll' = AfterAll /\ After(1) = view'.dirs
      /\ \A k \in 1 .. Len(channel') : After(k)' = After(k + 1)
  BY <1>1, <1>4, WhatReceiveDoes
<1>6. channel[1].type \notin Telling => view'.dirs = view.dirs
  <2>1. view.dirs \o <<>> = view.dirs
    BY AfterTypes, ConcatEmptySeq
  <2> QED BY <1>2, <1>4, <2>1 DEF Telling
<1>7. Len(channel') \in Nat /\ Len(channel) = Len(channel') + 1
  BY <1>1
<1>8. \A k \in 1 .. Len(channel') : k + 1 \in 1 .. Len(channel)
  BY <1>7
<1> QED BY <1>1, <1>2, <1>3, <1>4, <1>5, <1>6, <1>7, <1>8

\* Every total fits the directories that come with it or before it.
LEMMA TotalsKept ==
    ASSUME TypeOK, StagesFit, StartComesFirst, TotalsFit, [Next]_vars, TypeOK', StagesFit'
    PROVE  TotalsFit'
<1>1. receiver_open' => AllocatedFits'
  BY AllocatedKept, WhatStepsDo DEF TotalsFit
<1>2. view'.bytes = BytesOf(view'.dirs)
  <2>1. CASE view' = view
    BY <2>1 DEF TotalsFit
  <2>2. CASE Receive
    <3>1. CASE channel[1].type \in Telling
      <4>1. receiver_open /\ channel[1].bytes = BytesOf(After(1))
        BY <2>2, <3>1, WhatViewTakes DEF Receive, TotalsFit
      <4> QED BY <2>2, <3>1, <4>1, WhatViewTakes
    <3>2. CASE channel[1].type \notin Telling
      BY <2>2, <3>2, WhatViewTakes DEF TotalsFit
    <3> QED BY <3>1, <3>2
  <2> QED BY <2>1, <2>2, PipeSteps DEF Sent, CloseReceiver
<1>3. ASSUME receiver_open', NEW k \in 1 .. Len(channel'), channel'[k].type \in Telling
      PROVE  channel'[k].bytes = BytesOf(After(k)')
  <2>1. CASE UNCHANGED <<view, channel, receiver_open>>
    <3>1. After(k)' = After(k)
      BY <2>1, WhatStaysDoes
    <3> QED BY <1>3, <2>1, <3>1 DEF TotalsFit
  <2>2. CASE Sent
    <3>1. /\ channel' = Append(channel, event) /\ view' = view /\ receiver_open
          /\ channel \in Seq(Events) /\ event \in Events
      BY <2>2 DEF Sent, TypeOK
    <3>2. /\ Len(channel) \in Nat /\ Len(channel') = Len(channel) + 1
          /\ channel'[Len(channel) + 1] = event
          /\ \A i \in 1 .. Len(channel) : channel'[i] = channel[i]
      BY <3>1, AppendProperties, LenProperties
    <3>3. CASE k \in 1 .. Len(channel)
      <4>1. After(k)' = After(k)
        BY <3>1, <3>3, WhatSentDoes
      <4> QED BY <1>3, <3>1, <3>2, <3>3, <4>1 DEF TotalsFit
    <3>4. CASE k = Len(channel) + 1
      <4>1. After(k)' = AfterEvent
        BY <3>1, <3>4, WhatSentDoes
      <4> QED BY <1>3, <3>1, <3>2, <3>4, <4>1 DEF TotalsFit
    <3> QED BY <3>2, <3>3, <3>4
  <2>3. CASE Receive
    <3>1. k + 1 \in 1 .. Len(channel) /\ channel'[k] = channel[k + 1] /\ After(k)' = After(k + 1)
      BY <2>3, WhatViewTakes
    <3> QED BY <1>3, <2>3, <3>1 DEF TotalsFit, Receive
  <2>4. CASE CloseReceiver
    BY <1>3, <2>4 DEF CloseReceiver
  <2> QED BY <2>1, <2>2, <2>3, <2>4, PipeSteps
<1>4. ASSUME receiver_open', event'.type \in Telling PROVE event'.bytes = BytesOf(AfterEvent')
  <2>0. receiver_open /\ (Carries \/ ReadsPage \/ TakesPage \/ PublishesBuffer)
    BY <1>4, WhatStepsDo
  <2>1. CASE UNCHANGED <<event, drained>> /\ ~ Sent
    <3>1. CASE AfterEvent' = AfterEvent
      BY <1>4, <2>0, <2>1, <3>1 DEF TotalsFit
    <3>2. CASE AfterAll' = AfterAll
      BY <1>4, <2>0, <2>1, <3>2 DEF TotalsFit, AfterEvent
    <3>3. AfterAll' = AfterAll
      <4>1. CASE UNCHANGED <<view, channel, receiver_open>>
        BY <4>1, WhatStaysDoes
      <4>2. CASE Receive
        BY <4>2, WhatViewTakes
      <4>3. CASE CloseReceiver
        BY <1>4, <4>3 DEF CloseReceiver
      <4> QED BY <2>1, <4>1, <4>2, <4>3, PipeSteps
    <3> QED BY <3>2, <3>3
  <2>2. CASE event' \in {None, Started, Failure}
    BY <1>4, <2>2, EventForms DEF Telling
  <2>3. CASE SendsUpdate
    <3>1. event'.bytes = allocated /\ event'.dirs = buffered
      BY SMTT(30), ZenonT(30), <2>3, EventForms DEF SendsUpdate, TypeOK
    <3>2. AfterAll' = AfterAll /\ AfterEvent = AfterAll
      BY <2>3, WhatStaysDoes DEF SendsUpdate, StagesFit
    <3>3. AfterEvent' = AfterEvent \o buffered
      BY <3>1, <3>2 DEF AfterEvent
    <3> QED BY <2>0, <3>1, <3>3 DEF TotalsFit, AllocatedFits
  <2>4. CASE SendsEnd
    <3>1. event'.bytes = allocated /\ event'.dirs = <<>>
      BY SMTT(30), ZenonT(30), <2>4, EventForms DEF SendsEnd, TypeOK
    <3>2. AfterEvent' = AfterEvent
      BY <2>4, <3>1, WhatStaysDoes DEF SendsEnd, StagesFit
    <3>3. AfterEvent \o buffered = AfterEvent
      <4>1. buffered = <<>>
        BY <2>4 DEF SendsEnd, StagesFit
      <4> QED BY <4>1, AfterTypes, ConcatEmptySeq
    <3> QED BY <2>0, <3>1, <3>2, <3>3 DEF TotalsFit, AllocatedFits
  <2> QED BY <2>1, <2>2, <2>3, <2>4, EventSteps
<1> QED BY <1>1, <1>2, <1>3, <1>4 DEF TotalsFit

\* Nothing that was complete at the end comes after the last word.
LEMMA EndKept ==
    ASSUME TypeOK, StagesFit, StartComesFirst, JournalInOrder, EndComesLast, [Next]_vars,
           TypeOK', StagesFit'
    PROVE  EndComesLast'
<1>0. /\ reported \in Nat /\ cursor \in Nat /\ reported <= Len(journal) /\ Len(journal) \in Nat
      /\ cursor' \in Nat
  BY LenProperties DEF TypeOK
<1>1. view'.finished => traversal' = "finished" /\ Len(view'.dirs) >= reported'
  <2>1. CASE view' = view
    BY <2>1, OnlyForward DEF EndComesLast
  <2>2. CASE Receive
    <3> SUFFICES ASSUME view'.finished
                 PROVE  traversal = "finished" /\ Len(view'.dirs) >= reported
      BY OnlyForward
    <3>1. CASE channel[1].type = "finished"
      BY <2>2, <3>1, WhatViewTakes DEF EndComesLast
    <3>2. CASE channel[1].type # "finished"
      <4>1. traversal = "finished" /\ Len(view.dirs) >= reported
        BY <2>2, <3>2, WhatViewTakes DEF EndComesLast
      <4>2. view.dirs \in Seq(Dirs) /\ channel[1].dirs \in Seq(Dirs)
        BY <2>2, WhatViewTakes, EventFields, AfterTypes
      <4>3. view'.dirs = view.dirs \o channel[1].dirs
        BY <2>2, WhatViewTakes
      <4>4. Len(view'.dirs) >= Len(view.dirs) /\ Len(view.dirs) \in Nat /\ Len(view'.dirs) \in Nat
        BY <4>2, <4>3, LongerWith
      <4> QED BY <1>0, <4>1, <4>4
    <3> QED BY <3>1, <3>2
  <2> QED BY <2>1, <2>2, PipeSteps DEF Sent, CloseReceiver
<1>2. drained' => traversal' = "finished" /\ cursor' >= reported'
  <2>1. CASE drained' = drained
    BY <1>0, <2>1, OnlyForward DEF EndComesLast
  <2>2. CASE SendsUpdate
    <3>1. drained' => Drained
      BY <2>2, Zenon DEF SendsUpdate
    <3>2. UNCHANGED <<journal, traversal, reported, cursor>>
      BY <2>2 DEF SendsUpdate, world, store
    <3>3. Drained => traversal = "finished" /\ cursor >= reported
      BY <1>0 DEF Drained
    <3> QED BY <3>1, <3>2, <3>3
  <2> QED BY <2>1, <2>2, EventSteps DEF SendsEnd
<1>3. event'.type = "finished" =>
        traversal' = "finished" /\ (receiver_open' => Len(AfterEvent') >= reported')
  <2>1. CASE UNCHANGED <<event, drained>>
    <3> SUFFICES ASSUME event'.type = "finished"
                 PROVE  traversal = "finished" /\ (receiver_open' => Len(AfterEvent') >= reported)
      BY OnlyForward
    <3>1. traversal = "finished" /\ (receiver_open => Len(AfterEvent) >= reported)
      BY <2>1 DEF EndComesLast
    <3>2. receiver_open' => receiver_open
      BY WhatStepsDo
    <3>3. receiver_open' => Len(AfterEvent') >= Len(AfterEvent) /\ Len(AfterEvent) \in Nat
                            /\ Len(AfterEvent') \in Nat
      BY AfterGrows
    <3> QED BY <1>0, <3>1, <3>2, <3>3
  <2>2. CASE event' \in {None, Started, Failure}
    BY <2>2, EventForms
  <2>3. CASE SendsUpdate
    BY <2>3, EventForms DEF SendsUpdate, TypeOK
  <2>4. CASE SendsEnd
    <3>1. drained /\ traversal = "finished" /\ cursor >= reported
      BY <2>4 DEF SendsEnd, StagesFit, EndComesLast
    <3>2. ASSUME receiver_open' PROVE Len(AfterEvent') >= reported
      <4>1. receiver_open /\ buffered = <<>> /\ page = <<>>
        BY <2>4, <3>2 DEF SendsEnd, StagesFit
      <4>2. AfterEvent = SubSeq(journal, 1, cursor)
        <5>1. AfterEvent \o <<>> = AfterEvent
          BY AfterTypes, ConcatEmptySeq
        <5> QED BY <4>1, <5>1 DEF JournalInOrder
      <4>3. Len(SubSeq(journal, 1, cursor)) = cursor
        <5>1. \A i \in 1 .. cursor : journal[i] \in Dirs
          BY SMTT(30), ZenonT(30), ElementOfSeq, <1>0 DEF TypeOK
        <5> QED BY <1>0, <5>1, SubSeqProperties
      <4>4. event.dirs = <<>> /\ event'.dirs = <<>>
        BY <2>4, EventForms DEF SendsEnd, StagesFit, TypeOK
      <4>5. AfterEvent' = AfterEvent
        BY <2>4, <4>4, WhatStaysDoes DEF SendsEnd
      <4> QED BY <3>1, <4>2, <4>3, <4>5
    <3> QED BY <3>1, <3>2, OnlyForward
  <2> QED BY <2>1, <2>2, <2>3, <2>4, EventSteps
<1>4. ASSUME NEW k \in 1 .. Len(channel'), channel'[k].type = "finished"
      PROVE  traversal' = "finished" /\ Len(After(k)') >= reported'
  <2> SUFFICES traversal = "finished" /\ Len(After(k)') >= reported
    BY OnlyForward
  <2>1. CASE UNCHANGED <<view, channel, receiver_open>>
    <3>1. After(k)' = After(k)
      BY <2>1, WhatStaysDoes
    <3> QED BY <1>4, <2>1, <3>1 DEF EndComesLast
  <2>2. CASE Sent
    <3>1. /\ channel' = Append(channel, event) /\ view' = view /\ receiver_open
          /\ channel \in Seq(Events) /\ event \in Events
      BY <2>2 DEF Sent, TypeOK
    <3>2. /\ Len(channel) \in Nat /\ Len(channel') = Len(channel) + 1
          /\ channel'[Len(channel) + 1] = event
          /\ \A i \in 1 .. Len(channel) : channel'[i] = channel[i]
      BY <3>1, AppendProperties, LenProperties
    <3>3. CASE k \in 1 .. Len(channel)
      <4>1. After(k)' = After(k)
        BY <3>1, <3>3, WhatSentDoes
      <4> QED BY <1>4, <3>1, <3>2, <3>3, <4>1 DEF EndComesLast
    <3>4. CASE k = Len(channel) + 1
      <4>1. After(k)' = AfterEvent
        BY <3>1, <3>4, WhatSentDoes
      <4> QED BY <1>4, <3>1, <3>2, <3>4, <4>1 DEF EndComesLast
    <3> QED BY <3>2, <3>3, <3>4
  <2>3. CASE Receive
    <3>1. k + 1 \in 1 .. Len(channel) /\ channel'[k] = channel[k + 1] /\ After(k)' = After(k + 1)
      BY <2>3, WhatViewTakes
    <3> QED BY <1>4, <2>3, <3>1 DEF EndComesLast
  <2>4. CASE CloseReceiver
    BY <1>4, <2>4, EmptySeq DEF CloseReceiver
  <2> QED BY <2>1, <2>2, <2>3, <2>4, PipeSteps
<1> QED BY <1>1, <1>2, <1>3, <1>4 DEF EndComesLast

\* The view hears of the start first, and of each start once.
LEMMA StartKept ==
    ASSUME TypeOK, StagesFit, StartComesFirst, [Next]_vars, TypeOK', StagesFit'
    PROVE  StartComesFirst'
<1>1. stage' = "starting" => channel' = <<>> /\ view'.phase = "starting"
  <2>1. CASE Drive
    BY <2>1 DEF Drive, Start, Send, Sent, SendFails, Poll, SessionFails, Summarize, Wait,
                Publish, AwaitScan, Release, Shutdown
  <2>2. CASE Receive
    BY <2>2 DEF Receive, StartComesFirst
  <2>3. CASE CloseReceiver
    BY <2>3 DEF CloseReceiver, StartComesFirst
  <2>4. CASE Tick \/ Complete \/ FinishTraversal \/ BackendDies \/ UNCHANGED vars
    BY <2>4 DEF vars, pipe, Tick, Complete, FinishTraversal, BackendDies, StartComesFirst
  <2> QED BY <2>1, <2>2, <2>3, <2>4 DEF Next
<1>2. event'.type = "started" => channel' = <<>> /\ ~ view'.finished
  <2>1. CASE UNCHANGED <<event, drained>> /\ ~ Sent
    BY <2>1, PipeSteps DEF StartComesFirst, Receive, CloseReceiver
  <2>2. CASE event' = Started /\ Start
    BY <2>2 DEF Start, pipe, StartComesFirst
  <2>3. CASE event' \in {None, Failure}
    BY <2>3, EventForms
  <2>4. CASE SendsUpdate \/ SendsEnd
    BY SMTT(30), ZenonT(30), <2>4, EventForms DEF SendsUpdate, SendsEnd, TypeOK
  <2> QED BY <2>1, <2>2, <2>3, <2>4, EventSteps
<1>3. ASSUME NEW k \in 1 .. Len(channel')
      PROVE  /\ channel'[k].type # "none"
             /\ channel'[k].type # "update" => channel'[k].dirs = <<>>
             /\ channel'[k].type = "started" => k = 1 /\ ~ view'.finished
  <2>1. CASE UNCHANGED <<view, channel, receiver_open>>
    BY <2>1 DEF StartComesFirst
  <2>2. CASE Sent
    <3>1. /\ channel' = Append(channel, event) /\ view' = view /\ stage = "sending"
          /\ channel \in Seq(Events) /\ event \in Events
      BY <2>2 DEF Sent, TypeOK
    <3>2. /\ Len(channel) \in Nat /\ Len(channel') = Len(channel) + 1
          /\ channel'[Len(channel) + 1] = event
          /\ \A i \in 1 .. Len(channel) : channel'[i] = channel[i]
      BY <3>1, AppendProperties, LenProperties
    <3>3. CASE k \in 1 .. Len(channel)
      BY <3>1, <3>2, <3>3 DEF StartComesFirst
    <3>4. CASE k = Len(channel) + 1
      <4>1. event.type # "none" /\ (event.type # "update" => event.dirs = <<>>)
        BY <3>1 DEF StagesFit
      <4>2. event.type = "started" => Len(channel) = 0 /\ ~ view.finished
        BY <3>1, EmptySeq DEF StartComesFirst
      <4> QED BY <3>1, <3>2, <3>4, <4>1, <4>2
    <3> QED BY <3>2, <3>3, <3>4
  <2>3. CASE Receive
    <3>1. /\ k \in Nat /\ k + 1 \in 1 .. Len(channel) /\ channel'[k] = channel[k + 1]
          /\ k + 1 # 1
      BY <2>3, WhatViewTakes
    <3> QED BY <3>1 DEF StartComesFirst
  <2>4. CASE CloseReceiver
    BY <2>4, EmptySeq DEF CloseReceiver
  <2> QED BY <2>1, <2>2, <2>3, <2>4, PipeSteps
<1>4. view'.finished <=> view'.phase = "ended"
  <2>1. CASE view' = view
    BY <2>1 DEF StartComesFirst
  <2>2. CASE Receive
    <3>1. /\ view' = Applied(channel[1]) /\ 1 \in 1 .. Len(channel)
          /\ channel[1] \in Events /\ channel[1].type # "none"
          /\ channel[1].type # "update" => channel[1].dirs = <<>>
      BY <2>2, WhatViewTakes DEF StartComesFirst
    <3>2. /\ channel[1].type = "started" => ~ view.finished
          /\ view.finished <=> view.phase = "ended"
      BY <3>1 DEF StartComesFirst
    <3>3. channel[1].type \in {"started", "update", "finished", "error"}
      BY <3>1, EventFields DEF Types
    <3> QED BY <3>1, <3>2, <3>3, WhatApplyDoes DEF TypeOK
  <2> QED BY <2>1, <2>2, PipeSteps DEF Sent, CloseReceiver
<1> QED BY <1>1, <1>2, <1>3, <1>4 DEF StartComesFirst

\* The last word stays the last.
LEMMA LastWordStays ==
    ASSUME TypeOK, StartComesFirst, EndIsTold, Receive
    PROVE  EndIsTold'
<1>1. /\ 1 \in 1 .. Len(channel) /\ channel[1] \in Events /\ channel[1].type # "none"
      /\ channel[1].type # "update" => channel[1].dirs = <<>>
      /\ view' = Applied(channel[1])
      /\ Len(channel') \in Nat /\ Len(channel) = Len(channel') + 1
  BY WhatViewTakes DEF StartComesFirst
<1>2. channel[Len(channel)].type \in {"finished", "error"}
  <2>1. channel # <<>>
    BY DEF Receive
  <2> QED BY <2>1 DEF EndIsTold
<1>3. CASE channel' = <<>>
  <2>1. Len(channel) = 1
    BY <1>1, <1>3, EmptySeq
  <2>2. view'.phase \in {"ended", "disconnected"}
    <3>1. view \in Views /\ (view.finished <=> view.phase = "ended")
      BY DEF TypeOK, StartComesFirst
    <3>2. channel[1].type \in {"finished", "error"}
      BY <1>2, <2>1
    <3>3. /\ channel[1].type = "finished" => Applied(channel[1]).phase = "ended"
          /\ channel[1].type = "error" =>
               Applied(channel[1]).phase = IF view.finished THEN view.phase ELSE "disconnected"
      BY <1>1, <3>1, WhatApplyDoes
    <3> QED BY <1>1, <3>1, <3>2, <3>3
  <2> QED BY <1>3, <2>2 DEF EndIsTold
<1>4. CASE channel' # <<>>
  <2>1. Len(channel') # 0
    BY <1>4, EmptySeq DEF TypeOK
  <2>2. channel'[Len(channel')] = channel[Len(channel)]
    BY <1>1, <2>1, WhatViewTakes
  <2> QED BY <1>2, <1>4, <2>2 DEF EndIsTold
<1> QED BY <1>3, <1>4

\* The thread ends with the BEAM stopped and the last word told.
LEMMA EndingsKept ==
    ASSUME TypeOK, StagesFit, StartComesFirst, Endings, [Next]_vars, TypeOK', StagesFit'
    PROVE  Endings'
<1>1. stage' = "done" \/ event'.type = "error" => backend' = "down"
  <2>1. CASE Start
    BY <2>1, EventForms DEF Start, Send
  <2>2. CASE Sent \/ SendFails
    BY <2>2, EventForms DEF Sent, SendFails, Endings, StagesFit
  <2>3. CASE Poll \/ Summarize \/ Wait \/ Release
    BY <2>3 DEF Poll, SessionFails, Summarize, Wait, Release, sending, Endings, StagesFit
  <2>4. CASE Publish
    <3>1. stage = "deciding"
      BY <2>4 DEF Publish
    <3>2. CASE SessionFails /\ UNCHANGED sending
      <4>1. stage' = "releasing" /\ event' = event /\ backend' = backend
        BY <2>4, <3>2 DEF Publish, SessionFails, sending
      <4>2. event.type = "error" => backend = "down"
        BY DEF Endings
      <4> QED BY <4>1, <4>2
    <3>3. CASE Send(Update(buffered, allocated))
      <4>1. event'.type = "update" /\ stage' = "sending"
        <5>1. stage' = "sending" /\ event' = Update(buffered, allocated)
          BY <3>3 DEF Send
        <5>2. buffered \in Seq(Dirs) /\ allocated \in Nat
          BY DEF TypeOK
        <5>3. Update(buffered, allocated).type = "update"
          BY <5>2, EventForms
        <5> QED BY <5>1, <5>3
      <4> QED BY <4>1
    <3> QED BY <2>4, <3>2, <3>3 DEF Publish
  <2>5. CASE AwaitScan
    BY <2>5, EventForms DEF AwaitScan, Send, SessionFails, Endings, TypeOK
  <2>6. CASE Shutdown
    BY <2>6 DEF Shutdown
  <2>7. CASE Tick \/ Receive \/ CloseReceiver \/ UNCHANGED vars
    BY <2>7 DEF Tick, Receive, CloseReceiver, vars, sending, Endings
  <2>8. CASE Complete \/ FinishTraversal \/ BackendDies
    BY <2>8 DEF Complete, FinishTraversal, BackendDies, sending, Endings
  <2> QED BY <2>1, <2>2, <2>3, <2>4, <2>5, <2>6, <2>7, <2>8 DEF Next, Drive
<1>2. /\ stage' \in {"releasing", "stopping"} /\ ~ failed' /\ receiver_open' => EndIsTold'
      /\ stage' = "done" /\ receiver_open' => EndIsTold'
  <2>1. EndIsTold /\ UNCHANGED <<view, channel>> => EndIsTold'
    BY DEF EndIsTold
  <2>2. CASE Sent
    <3>1. event.type \in {"finished", "error"} => EndIsTold'
      <4>1. /\ channel' = Append(channel, event) /\ channel' \in Seq(Events)
            /\ Len(channel') = Len(channel) + 1 /\ channel'[Len(channel) + 1] = event
            /\ Len(channel) \in Nat
        BY <2>2, AppendProperties, LenProperties DEF Sent, TypeOK
      <4>2. channel' # <<>>
        <5>1. Len(channel') # 0
          BY <4>1
        <5> QED BY <5>1, EmptySeq
      <4> QED BY <4>1, <4>2 DEF EndIsTold
    <3>2. stage' \in {"releasing", "stopping", "done"} => event.type \in {"finished", "error"}
      BY <2>2 DEF Sent
    <3> QED BY <3>1, <3>2
  <2>3. CASE Start \/ Publish \/ AwaitScan \/ Poll \/ Summarize \/ Wait
    BY <2>3 DEF Start, Send, Publish, AwaitScan, Poll, SessionFails, Summarize, Wait
  <2>4. CASE SendFails
    BY <2>4 DEF SendFails, pipe
  <2>5. CASE Release
    BY <2>1, <2>5 DEF Release, pipe, Endings
  <2>6. CASE Shutdown
    BY <2>1, <2>6 DEF Shutdown, Send, pipe, Endings
  <2>7. CASE Receive
    BY <2>7, LastWordStays DEF Receive, Endings
  <2>8. CASE CloseReceiver
    BY <2>8 DEF CloseReceiver
  <2>9. CASE Tick \/ Complete \/ FinishTraversal \/ BackendDies \/ UNCHANGED vars
    BY <2>1, <2>9 DEF Tick, Complete, FinishTraversal, BackendDies, vars, pipe, Endings
  <2> QED BY <2>2, <2>3, <2>4, <2>5, <2>6, <2>7, <2>8, <2>9 DEF Next, Drive
<1> QED BY <1>1, <1>2 DEF Endings

\* The invariant is inductive.
LEMMA StepInv == Inv /\ [Next]_vars => Inv'
<1> SUFFICES ASSUME Inv, [Next]_vars PROVE Inv'
  OBVIOUS
<1>1. TypeOK'
  BY TypesKept DEF Inv
<1>2. StagesFit'
  BY <1>1, StagesKept DEF Inv
<1>3. TotalsFit' /\ JournalInOrder' /\ EndComesLast' /\ StartComesFirst' /\ Endings'
  BY <1>1, <1>2, TotalsKept, JournalKept, EndKept, StartKept, EndingsKept DEF Inv
<1> QED BY <1>1, <1>2, <1>3 DEF Inv

\* The sequence that NothingIsSkipped writes is the one of the invariant.
LEMMA SameDirectories ==
    ASSUME TypeOK
    PROVE  view.dirs \o OnTheWay \o buffered \o page = (AfterEvent \o buffered) \o page
<1>1. OnTheWay = Content(channel) \o event.dirs
  BY DEF OnTheWay, Content
<1>2. Groups(view.dirs, Content(channel), event.dirs)
  BY AfterTypes, Regroup
<1>3. view.dirs \o OnTheWay = AfterEvent
  BY <1>1, <1>2 DEF Groups, AfterEvent, AfterAll
<1> QED BY <1>3

\* The view gets every directory of the journal once, in the order of the
\* journal, and their bytes (NothingIsSkipped), all that were complete at the end
\* before it is told of the end (FinishedShowsEverything), through a channel and a
\* buffer of bounded size (BacklogIsBounded): the loop of stream_backend, for a
\* journal of any length, pages and channels of any size.
THEOREM ViewIsComplete == Spec => []ViewGetsEverything
<1>1. Inv => ViewGetsEverything
  <2> SUFFICES ASSUME Inv PROVE ViewGetsEverything
    OBVIOUS
  <2>1. NothingIsSkipped
    BY SameDirectories DEF Inv, TotalsFit, JournalInOrder, NothingIsSkipped
  <2>2. FinishedShowsEverything
    BY DEF Inv, EndComesLast, FinishedShowsEverything
  <2>3. BacklogIsBounded
    BY DEF Inv, StagesFit, BacklogIsBounded
  <2> QED BY <2>1, <2>2, <2>3 DEF ViewGetsEverything
<1> QED BY <1>1, InitInv, StepInv, PTL DEF Spec

\* The thread ends with the BEAM stopped and the view told, whatever failed
\* before, and an end that was shown stays shown.
THEOREM EndIsAlwaysReported == Spec => []EndIsReported
<1>1. Inv => EndIsReported
  BY DEF Inv, Endings, EndIsTold, StartComesFirst, EndIsReported
<1> QED BY <1>1, InitInv, StepInv, PTL DEF Spec
-----------------------------------------------------------------------------
(* The explorer.                                                           *)

\* While a first click is remembered by its index, the part that had the index
\* then was the one that the click selected.
FirstClick == last # 0 => first.shown[last] = first.dir

LEMMA FirstClickStep == FirstClick /\ [ExplorerNext]_explorer => FirstClick'
<1> SUFFICES ASSUME FirstClick, [ExplorerNext]_explorer PROVE FirstClick'
  OBVIOUS
<1>1. CASE Redrawn
  BY <1>1 DEF Redrawn, FirstClick
<1>2. CASE UNCHANGED <<last, first>>
  BY <1>2 DEF FirstClick
<1>3. CASE TabSelected
  BY <1>3 DEF TabSelected, FirstClick
<1>4. CASE ButtonPressed
  <2>1. PICK quick \in BOOLEAN :
           /\ last' = IF Double(quick) \/ ~ Drawn' THEN 0 ELSE hovered
           /\ first' = IF Double(quick) \/ ~ Drawn' THEN NoClick
                       ELSE [dir |-> Parts[hovered].dir, shown |-> Shown]
    BY <1>4 DEF ButtonPressed
  <2>2. Shown[hovered] = Parts[hovered].dir
    BY <1>4 DEF ButtonPressed, Shown
  <2> QED BY <2>1, <2>2 DEF FirstClick
<1> QED BY <1>1, <1>2, <1>3, <1>4 DEF ExplorerNext, Grow, CursorMoved, CenterPressed, NodePressed,
       WheelScrolled, CrumbPressed, BreakdownPressed, explorer, chart, pointer

\* A double click drills into the directory that its first click selected,
\* unless the chart shows other directories by then (ClickTracker::click and
\* the handlers of the treemap and the sunburst): for trees, files, limits of
\* the charts and histories of clicks and updates of any kind.
THEOREM DrillsAreMeant == ExplorerSpec => DoubleClicksDrill
<1>1. ExplorerInit => FirstClick
  BY DEF ExplorerInit, FirstClick
<1>2. FirstClick /\ [ExplorerNext]_explorer =>
         [focus' # focus /\ ButtonPressed /\ Shown = first.shown => focus' = first.dir]_explorer
  <2> SUFFICES ASSUME FirstClick, focus' # focus, ButtonPressed, Shown = first.shown
               PROVE  focus' = first.dir
    OBVIOUS
  <2>1. PICK quick \in BOOLEAN : /\ Double(quick)
                                 /\ FocusDirectory(Parts[hovered].dir)
    BY DEF ButtonPressed, NodeSelected
  <2>2. last = hovered /\ hovered # 0 /\ Shown[hovered] = Parts[hovered].dir
    BY <2>1 DEF ButtonPressed, Double, Shown
  <2> QED BY <2>1, <2>2 DEF FirstClick, FocusDirectory
<1> QED BY <1>1, <1>2, FirstClickStep, PTL DEF ExplorerSpec, DoubleClicksDrill
-----------------------------------------------------------------------------
(* The tree of sizes: the walks to the root.                               *)

Parents == [Ids -> Ids \cup {NO_PARENT}]

\* One step of a walk, and the recursion that the walk solves.
Climbed(chain, par) == IF par[Last(chain)] = NO_PARENT THEN chain ELSE Append(chain, par[Last(chain)])
Steps == [k \in 1 .. MAX_DEPTH - 1 |-> k]
IsClimb(g, par, d) ==
    g = [T \in SUBSET DOMAIN Steps |-> IF T = {} THEN <<d>> ELSE Climbed(g[T \ {Largest(T)}], par)]

\* What a walk has found after k steps: a directory, its parent and so on, to
\* one without a parent or as far as k steps go.
Walk(ch, par, d, k) ==
    /\ ch \in Seq(Ids) /\ Len(ch) \in 1 .. k + 1 /\ ch[1] = d
    /\ \A i \in 1 .. Len(ch) - 1 : ch[i + 1] = par[ch[i]]
    /\ Len(ch) = k + 1 \/ par[ch[Len(ch)]] = NO_PARENT

LEMMA ClimbedWalk ==
    ASSUME NEW par \in Parents, NEW d \in Ids, NEW k \in Nat, NEW ch, Walk(ch, par, d, k)
    PROVE  Walk(Climbed(ch, par), par, d, k + 1)
<1>1. /\ ch \in Seq(Ids) /\ Len(ch) \in 1 .. k + 1 /\ ch[1] = d
      /\ \A i \in 1 .. Len(ch) - 1 : ch[i + 1] = par[ch[i]]
      /\ Len(ch) = k + 1 \/ par[ch[Len(ch)]] = NO_PARENT
  BY DEF Walk
<1>2. Len(ch) \in DOMAIN ch /\ ch[Len(ch)] \in Ids
  BY <1>1, LenProperties, ElementOfSeq
<1> DEFINE top == ch[Len(ch)]
<1>3. CASE par[top] = NO_PARENT
  BY <1>1, <1>3 DEF Walk, Climbed, Last
<1>4. CASE par[top] # NO_PARENT
  <2> DEFINE up == par[top]
             new == Append(ch, up)
  <2>1. up \in Ids
    BY <1>2, <1>4 DEF Parents
  <2>2. Climbed(ch, par) = new
    BY <1>4 DEF Climbed, Last
  <2> HIDE DEF up
  <2>3. /\ new \in Seq(Ids) /\ Len(new) = Len(ch) + 1
        /\ \A i \in 1 .. Len(ch) : new[i] = ch[i]
        /\ new[Len(ch) + 1] = up
    BY <1>1, <2>1, AppendProperties
  <2> HIDE DEF new
  <2>4. Len(ch) = k + 1
    BY <1>1, <1>4
  <2>5. \A i \in 1 .. Len(new) - 1 : new[i + 1] = par[new[i]]
    <3> SUFFICES ASSUME NEW i \in 1 .. Len(new) - 1 PROVE new[i + 1] = par[new[i]]
      OBVIOUS
    <3>1. CASE i = Len(ch)
      BY <1>1, <2>3, <3>1 DEF up
    <3>2. CASE i # Len(ch)
      <4>1. i \in 1 .. Len(ch) - 1 /\ i \in 1 .. Len(ch) /\ i + 1 \in 1 .. Len(ch)
        BY <1>1, <2>3, <3>2
      <4> QED BY <1>1, <2>3, <4>1
    <3> QED BY <3>1, <3>2
  <2> QED BY <1>1, <2>2, <2>3, <2>4, <2>5 DEF Walk
<1> QED BY <1>3, <1>4

\* ancestor_chain is such a walk of MAX_DEPTH - 1 steps.
LEMMA ChainWalks ==
    ASSUME NEW par \in Parents, NEW d \in Ids
    PROVE  Walk(Chain(par, d), par, d, IF MAX_DEPTH = 0 THEN 0 ELSE MAX_DEPTH - 1)
<1> DEFINE n == IF MAX_DEPTH = 0 THEN 0 ELSE MAX_DEPTH - 1
           X == Seq(Ids) \ {<<>>}
           step == [k \in 1 .. n |-> [ch \in X |-> Climbed(ch, par)]]
           g == CHOOSE h : IsClimb(h, par, d)
<1>1. n \in Nat /\ 1 .. MAX_DEPTH - 1 = 1 .. n /\ DOMAIN Steps = 1 .. n
  BY LimitsAssumption DEF Steps
<1> HIDE DEF n
<1>2. \A ch \in X : Climbed(ch, par) \in X
  <2> SUFFICES ASSUME NEW ch \in X PROVE Climbed(ch, par) \in X
    OBVIOUS
  <2>1. Len(ch) \in DOMAIN ch /\ ch[Len(ch)] \in Ids
    BY LenProperties, ElementOfSeq, EmptySeq
  <2>2. CASE par[ch[Len(ch)]] = NO_PARENT
    BY <2>2 DEF Climbed, Last
  <2>3. CASE par[ch[Len(ch)]] # NO_PARENT
    <3>1. par[ch[Len(ch)]] \in Ids
      BY <2>1, <2>3 DEF Parents
    <3>2. Append(ch, par[ch[Len(ch)]]) \in X
      BY <3>1, AppendProperties, EmptySeq
    <3> QED BY <2>3, <3>2 DEF Climbed, Last
  <2> QED BY <2>2, <2>3
<1>3. <<d>> \in X
  OBVIOUS
<1> HIDE DEF X
<1>4. step \in [1 .. n -> [X -> X]]
  BY <1>2
<1>5. PICK h \in [SUBSET (1 .. n) -> X] : Runs(h, step, <<d>>, n)
  BY <1>1, <1>3, <1>4, RunsExist
<1>6. IsClimb(h, par, d)
  <2>1. \A T \in SUBSET (1 .. n) : T # {} => Largest(T) \in 1 .. n /\ h[T \ {Largest(T)}] \in X
    BY <1>1, LargestIsIn
  <2>2. \A T \in SUBSET (1 .. n) : h[T] = IF T = {} THEN <<d>> ELSE Climbed(h[T \ {Largest(T)}], par)
    BY <1>5, <2>1 DEF Runs
  <2> QED BY <1>1, <2>2 DEF IsClimb
<1>7. IsClimb(g, par, d)
  BY <1>6
<1>8. Chain(par, d) = g[DOMAIN Steps]
  BY DEF Chain, FoldLeft, MapThenFoldSet, IsClimb, Steps, Climbed, Largest, Max
<1> HIDE DEF g
<1> DEFINE Done == {k \in Nat : k <= n => Walk(g[1 .. k], par, d, k)}
<1>9. \A T \in SUBSET (1 .. n) : g[T] = IF T = {} THEN <<d>> ELSE Climbed(g[T \ {Largest(T)}], par)
  BY <1>1, <1>7 DEF IsClimb
<1>10. 0 \in Done
  <2>1. g[1 .. 0] = <<d>>
    BY <1>9, LargestIsLast
  <2>2. Walk(<<d>>, par, d, 0)
    BY DEF Walk
  <2> QED BY <2>1, <2>2
<1>11. ASSUME NEW k \in Nat, k \in Done PROVE k + 1 \in Done
  <2> SUFFICES ASSUME k + 1 <= n PROVE Walk(g[1 .. k + 1], par, d, k + 1)
    OBVIOUS
  <2>1. Walk(g[1 .. k], par, d, k)
    BY <1>1, <1>11
  <2>2. 1 .. k + 1 \in SUBSET (1 .. n) /\ 1 .. k + 1 # {}
    <3>1. n \in Nat
      BY <1>1
    <3>2. \A i \in 1 .. k + 1 : i \in 1 .. n
      BY <3>1
    <3> QED BY <3>2, LargestIsLast
  <2>3. Largest(1 .. k + 1) = k + 1 /\ (1 .. k + 1) \ {k + 1} = 1 .. k
    BY LargestIsLast
  <2>4. g[1 .. k + 1] = Climbed(g[1 .. k], par)
    <3> HIDE DEF Climbed
    <3> QED BY <1>9, <2>2, <2>3
  <2> QED BY <2>1, <2>4, ClimbedWalk
<1>12. Nat \subseteq Done
  <2> HIDE DEF Done
  <2> QED BY <1>10, <1>11, Induction
<1>13. Walk(g[1 .. n], par, d, n)
  BY <1>1, <1>12
<1> QED BY <1>1, <1>8, <1>13 DEF n

\* A tree whose links are those of the directories in D, which has the parents
\* of its members: how the tree is after link.
Grown(par, D) ==
    /\ D \in SUBSET Ids /\ par = [d \in Ids |-> IF d \in D THEN TreeParent[d] ELSE NO_PARENT]
    /\ \A d \in D : TreeParent[d] \in D \cup {NO_PARENT}

LEMMA GrownParents ==
    ASSUME NEW par, NEW D, Grown(par, D)
    PROVE  /\ par \in Parents /\ NO_PARENT \notin Ids /\ D \subseteq Ids
           /\ \A d \in Ids : par[d] # NO_PARENT => par[d] = TreeParent[d] /\ par[d] \in Ids
           /\ \A d \in D : par[d] = TreeParent[d] /\ (par[d] \in D \/ par[d] = NO_PARENT)
BY ParentAssumption DEF Grown, Parents

\* A walk from a directory to a root.
IsTrail(ch, par, d) ==
    /\ ch \in Seq(Ids) /\ Len(ch) \in Nat \ {0} /\ ch[1] = d
    /\ \A i \in 1 .. Len(ch) - 1 : ch[i + 1] = par[ch[i]] /\ par[ch[i]] # NO_PARENT
    /\ par[ch[Len(ch)]] = NO_PARENT

\* The walk ends at a root: MAX_DEPTH is not reached before.
LEMMA ChainEnds ==
    ASSUME NEW par, NEW D, Grown(par, D), NEW d \in Ids
    PROVE  IsTrail(Chain(par, d), par, d)
<1> DEFINE ch == Chain(par, d)
           n == IF MAX_DEPTH = 0 THEN 0 ELSE MAX_DEPTH - 1
<1>1. /\ par \in Parents /\ NO_PARENT \notin Ids
      /\ \A e \in Ids : par[e] # NO_PARENT => par[e] = TreeParent[e] /\ par[e] \in Ids
  BY GrownParents
<1>2. Walk(ch, par, d, n)
  BY <1>1, ChainWalks
<1> HIDE DEF ch
<1>3. PICK depth \in [Ids -> 1 .. MAX_DEPTH] :
         \A e \in Ids : TreeParent[e] # NO_PARENT => depth[TreeParent[e]] < depth[e]
  BY DepthAssumption
<1>4. MAX_DEPTH \in Nat /\ depth[d] \in 1 .. MAX_DEPTH
  BY LimitsAssumption
<1>5. n = MAX_DEPTH - 1 /\ n \in Nat
  BY <1>4
<1> HIDE DEF n
<1>6. /\ ch \in Seq(Ids) /\ Len(ch) \in 1 .. n + 1 /\ ch[1] = d
      /\ \A i \in 1 .. Len(ch) - 1 : ch[i + 1] = par[ch[i]]
      /\ Len(ch) = n + 1 \/ par[ch[Len(ch)]] = NO_PARENT
  BY <1>2 DEF Walk
<1>7. \A i \in 1 .. Len(ch) : ch[i] \in Ids /\ depth[ch[i]] \in 1 .. MAX_DEPTH
  <2> SUFFICES ASSUME NEW i \in 1 .. Len(ch) PROVE ch[i] \in Ids
    OBVIOUS
  <2> QED BY <1>6, ElementOfSeq
<1>8. ASSUME NEW i \in 1 .. Len(ch), par[ch[i]] # NO_PARENT
      PROVE  par[ch[i]] \in Ids /\ depth[par[ch[i]]] < depth[ch[i]]
  BY <1>1, <1>3, <1>7, <1>8
<1>9. \A i \in 1 .. Len(ch) - 1 : par[ch[i]] # NO_PARENT
  <2> SUFFICES ASSUME NEW i \in 1 .. Len(ch) - 1 PROVE par[ch[i]] # NO_PARENT
    OBVIOUS
  <2>1. i + 1 \in 1 .. Len(ch) /\ ch[i + 1] = par[ch[i]]
    BY <1>5, <1>6
  <2> QED BY <1>1, <1>7, <2>1
<1> DEFINE Done == {i \in Nat : i + 1 <= Len(ch) => depth[ch[i + 1]] <= depth[d] - i}
<1>10. 0 \in Done
  <2>1. ch[0 + 1] = d
    BY <1>6
  <2> QED BY <1>4, <2>1
<1>11. ASSUME NEW i \in Nat, i \in Done PROVE i + 1 \in Done
  <2> SUFFICES ASSUME (i + 1) + 1 <= Len(ch) PROVE depth[ch[(i + 1) + 1]] <= depth[d] - (i + 1)
    OBVIOUS
  <2>1. i + 1 \in 1 .. Len(ch) /\ i + 1 \in 1 .. Len(ch) - 1 /\ (i + 1) + 1 \in 1 .. Len(ch)
    BY <1>5, <1>6
  <2>2. ch[(i + 1) + 1] = par[ch[i + 1]]
    BY <1>6, <2>1
  <2>3. depth[ch[(i + 1) + 1]] < depth[ch[i + 1]]
    BY <1>8, <1>9, <2>1, <2>2
  <2>4. depth[ch[i + 1]] <= depth[d] - i
    BY <1>5, <1>6, <1>11, <2>1
  <2>5. depth[ch[(i + 1) + 1]] \in Int /\ depth[ch[i + 1]] \in Int /\ depth[d] \in Int
    BY <1>4, <1>7, <2>1
  <2> QED BY SMTT(30), ZenonT(30), <2>3, <2>4, <2>5
<1>12. Nat \subseteq Done
  <2> HIDE DEF Done
  <2> QED BY <1>10, <1>11, Induction
<1>13. par[ch[Len(ch)]] = NO_PARENT
  <2> SUFFICES ASSUME par[ch[Len(ch)]] # NO_PARENT, Len(ch) = MAX_DEPTH PROVE FALSE
    BY <1>4, <1>5, <1>6
  <2>1. Len(ch) \in 1 .. Len(ch) /\ Len(ch) - 1 \in Nat /\ (Len(ch) - 1) + 1 = Len(ch)
    BY <1>5, <1>6
  <2>2. depth[ch[Len(ch)]] <= depth[d] - (Len(ch) - 1)
    BY <1>12, <2>1
  <2>3. /\ depth[par[ch[Len(ch)]]] < depth[ch[Len(ch)]] /\ depth[par[ch[Len(ch)]]] \in 1 .. MAX_DEPTH
        /\ depth[ch[Len(ch)]] \in 1 .. MAX_DEPTH
    BY <1>7, <1>8, <2>1
  <2> QED BY <1>4, <2>2, <2>3
<1>14. Len(ch) \in Nat \ {0}
  BY <1>5, <1>6
<1>15. IsTrail(ch, par, d)
  BY <1>6, <1>9, <1>13, <1>14 DEF IsTrail
<1> QED BY <1>15 DEF ch

\* For a directory that is linked it finds those that the directory is below.
LEMMA ChainIsAbove ==
    ASSUME NEW par, NEW D, Grown(par, D), NEW d \in D
    PROVE  /\ Range(Chain(par, d)) \subseteq D
           /\ \A p \in Ids : p \in Range(Chain(par, d)) <=> d \in Below[p]
<1> DEFINE ch == Chain(par, d)
<1>1. /\ ch \in Seq(Ids) /\ Len(ch) \in Nat \ {0} /\ ch[1] = d
      /\ \A i \in 1 .. Len(ch) - 1 : ch[i + 1] = par[ch[i]] /\ par[ch[i]] # NO_PARENT
      /\ par[ch[Len(ch)]] = NO_PARENT
  <2>1. IsTrail(ch, par, d)
    BY ChainEnds, GrownParents
  <2> HIDE DEF ch
  <2> QED BY <2>1 DEF IsTrail
<1> HIDE DEF ch
<1>2. /\ NO_PARENT \notin Ids /\ D \subseteq Ids
      /\ \A e \in D : par[e] = TreeParent[e] /\ (par[e] \in D \/ par[e] = NO_PARENT)
  BY GrownParents
<1>3. DOMAIN ch = 1 .. Len(ch) /\ Range(ch) = {ch[i] : i \in 1 .. Len(ch)}
  <2>1. DOMAIN ch = 1 .. Len(ch)
    BY <1>1, LenProperties
  <2> QED BY <2>1 DEF Range
<1> DEFINE Inside == {i \in Nat : i + 1 <= Len(ch) => ch[i + 1] \in D}
<1>4. 0 \in Inside
  BY <1>1
<1>5. ASSUME NEW i \in Nat, i \in Inside PROVE i + 1 \in Inside
  <2> SUFFICES ASSUME (i + 1) + 1 <= Len(ch) PROVE ch[(i + 1) + 1] \in D
    OBVIOUS
  <2>1. i + 1 \in 1 .. Len(ch) - 1
    BY <1>1
  <2>2. ch[i + 1] \in D
    BY <1>1, <1>5, <2>1
  <2> QED BY <1>1, <1>2, <2>1, <2>2
<1>6. Nat \subseteq Inside
  <2> HIDE DEF Inside
  <2> QED BY <1>4, <1>5, Induction
<1>7. ASSUME NEW i \in 1 .. Len(ch) PROVE ch[i] \in D
  <2>1. i - 1 \in Nat /\ (i - 1) + 1 = i /\ i <= Len(ch)
    BY <1>1
  <2>2. (i - 1) + 1 <= Len(ch) => ch[(i - 1) + 1] \in D
    BY <1>6, <2>1
  <2> QED BY <2>1, <2>2
<1>8. Range(ch) \subseteq D
  BY <1>3, <1>7
<1>9. ASSUME NEW p \in Ids, p \in Range(ch) PROVE d \in Below[p]
  <2>1. PICK i \in 1 .. Len(ch) : ch[i] = p
    BY <1>3, <1>9
  <2> SUFFICES ASSUME NEW S \in SUBSET Ids, p \in S, \A e \in Ids : TreeParent[e] \in S => e \in S
               PROVE  d \in S
    BY <1>2 DEF Below
  <2> DEFINE Reached == {j \in Nat : j < i => ch[i - j] \in S}
  <2>2. 0 \in Reached
    BY <2>1
  <2>3. ASSUME NEW j \in Nat, j \in Reached PROVE j + 1 \in Reached
    <3> SUFFICES ASSUME j + 1 < i PROVE ch[i - (j + 1)] \in S
      OBVIOUS
    <3> DEFINE m == i - (j + 1)
    <3>1. m \in 1 .. Len(ch) - 1 /\ m \in 1 .. Len(ch) /\ m + 1 = i - j /\ j < i
      BY <1>1
    <3> HIDE DEF m
    <3>2. ch[m + 1] \in S
      BY <2>3, <3>1
    <3>3. ch[m] \in D /\ ch[m + 1] = TreeParent[ch[m]]
      BY <1>1, <1>2, <1>7, <3>1
    <3>4. ch[m] \in S
      BY <1>2, <3>2, <3>3
    <3> QED BY <3>4 DEF m
  <2>4. Nat \subseteq Reached
    <3> HIDE DEF Reached
    <3> QED BY <2>2, <2>3, Induction
  <2>5. i - 1 \in Nat /\ i - 1 < i /\ i - (i - 1) = 1
    BY <1>1
  <2>6. ch[i - (i - 1)] \in S
    BY <2>4, <2>5
  <2> QED BY <1>1, <2>5, <2>6
<1>10. ASSUME NEW p \in Ids, p \notin Range(ch) PROVE d \notin Below[p]
  <2> DEFINE S == Ids \ Range(ch)
  <2>1. ASSUME NEW e \in Ids, TreeParent[e] \in S, e \in Range(ch) PROVE FALSE
    <3>1. PICK i \in 1 .. Len(ch) : ch[i] = e
      BY <1>3, <2>1
    <3>2. e \in D /\ par[e] = TreeParent[e] /\ TreeParent[e] \in Ids
      BY <1>2, <1>7, <2>1, <3>1
    <3>3. i # Len(ch)
      BY <1>1, <1>2, <3>1, <3>2
    <3>4. i \in 1 .. Len(ch) - 1 /\ i + 1 \in 1 .. Len(ch)
      BY <1>1, <3>3
    <3>5. ch[i + 1] = TreeParent[e]
      BY <1>1, <3>1, <3>2, <3>4
    <3> QED BY <1>3, <2>1, <3>4, <3>5
  <2>2. p \in S /\ S \in SUBSET Ids /\ \A e \in Ids : TreeParent[e] \in S => e \in S
    BY <1>10, <2>1
  <2>3. d \notin S
    <3>1. 1 \in 1 .. Len(ch)
      BY <1>1
    <3> QED BY <1>1, <1>3, <3>1
  <2> HIDE DEF S
  <2> QED BY <2>2, <2>3 DEF Below
<1>11. \A p \in Ids : p \in Range(ch) <=> d \in Below[p]
  BY <1>9, <1>10
<1> QED BY <1>8, <1>11 DEF ch
-----------------------------------------------------------------------------
(* Sorting.                                                                *)

SortedBy(list, key) == \A i, j \in DOMAIN list : i < j => key[list[i]] >= key[list[j]]

\* What comes before a position when a sequence is sorted, and its place then.
Before(s, key, i, j) == key[s[i]] > key[s[j]] \/ (key[s[i]] = key[s[j]] /\ i < j)
Place(s, key, j) == Cardinality({i \in DOMAIN s : Before(s, key, i, j)}) + 1

\* The first n positions are n.
LEMMA FirstPositions ==
    ASSUME NEW n \in Nat PROVE IsFiniteSet(1 .. n) /\ Cardinality(1 .. n) = n
<1>1. IsFiniteSet(1 .. n) /\ Cardinality(1 .. n) = IF 1 > n THEN 0 ELSE n - 1 + 1
  BY FS_Interval
<1>2. CASE n = 0
  BY <1>1, <1>2
<1>3. CASE n # 0
  <2>1. ~ (1 > n) /\ n - 1 + 1 = n
    BY <1>3
  <2> QED BY <1>1, <2>1
<1> QED BY <1>2, <1>3

\* Every place is taken once.
LEMMA PlacesAreTaken ==
    ASSUME NEW X, NEW s \in Seq(X), NEW key, \A x \in X : key[x] \in Int
    PROVE  /\ \A j \in DOMAIN s : Place(s, key, j) \in DOMAIN s
           /\ \A k \in DOMAIN s : \E j \in DOMAIN s : Place(s, key, j) = k
           /\ \A i, j \in DOMAIN s : i # j => Place(s, key, i) # Place(s, key, j)
           /\ \A i, j \in DOMAIN s : Before(s, key, i, j) => Place(s, key, i) < Place(s, key, j)
           /\ \A i, j \in DOMAIN s : i # j => Before(s, key, i, j) \/ Before(s, key, j, i)
<1> DEFINE D == 1 .. Len(s)
           below(j) == {i \in D : Before(s, key, i, j)}
<1>1. DOMAIN s = D /\ Len(s) \in Nat /\ \A i \in D : key[s[i]] \in Int
  BY LenProperties, ElementOfSeq
<1>2. IsFiniteSet(D) /\ Cardinality(D) = Len(s)
  <2>1. \A n \in Nat : IsFiniteSet(1 .. n) /\ Cardinality(1 .. n) = n
    BY FirstPositions
  <2> QED BY <1>1, <2>1
<1>3. \A j \in D : Place(s, key, j) = Cardinality(below(j)) + 1
  BY <1>1 DEF Place
<1>4. \A i \in D : i \in Int
  BY <1>1
<1> HIDE DEF D
<1>5. \A j \in D : j \notin below(j)
  BY <1>1, <1>4 DEF Before
<1>6. \A i, j, k \in D : Before(s, key, i, j) /\ Before(s, key, j, k) => Before(s, key, i, k)
  BY <1>1, <1>4 DEF Before
<1>7. \A i, j \in D : i # j => Before(s, key, i, j) \/ Before(s, key, j, i)
  BY <1>1, <1>4 DEF Before
<1>8. ASSUME NEW j \in D
      PROVE  /\ IsFiniteSet(below(j)) /\ Cardinality(below(j)) \in Nat
             /\ Cardinality(below(j)) <= Len(s) - 1
  <2>1. below(j) \in SUBSET (D \ {j})
    BY <1>5
  <2>2. IsFiniteSet(D \ {j}) /\ Cardinality(D \ {j}) = Len(s) - 1
    BY <1>2, FS_RemoveElement
  <2> HIDE DEF below
  <2> QED BY <2>1, <2>2, FS_Subset, FS_CardinalityType
<1>9. ASSUME NEW i \in D, NEW j \in D, Before(s, key, i, j)
      PROVE  Place(s, key, i) < Place(s, key, j)
  <2>1. i \in below(j)
    BY <1>9
  <2>2. below(i) \in SUBSET (below(j) \ {i})
    BY <1>5, <1>6, <1>9
  <2> HIDE DEF below
  <2>3. IsFiniteSet(below(j) \ {i}) /\ Cardinality(below(j) \ {i}) = Cardinality(below(j)) - 1
    BY <1>8, <2>1, FS_RemoveElement
  <2>4. Cardinality(below(i)) <= Cardinality(below(j)) - 1
    BY <2>2, <2>3, FS_Subset
  <2> QED BY <1>3, <1>8, <2>4
<1>10. \A j \in D : Place(s, key, j) \in D
  <2> SUFFICES ASSUME NEW j \in D PROVE Place(s, key, j) \in D
    OBVIOUS
  <2> HIDE DEF below
  <2>1. Cardinality(below(j)) + 1 \in 1 .. Len(s)
    BY <1>1, <1>8
  <2> QED BY <1>3, <2>1 DEF D
<1>11. \A i, j \in D : i # j => Place(s, key, i) # Place(s, key, j)
  <2> SUFFICES ASSUME NEW i \in D, NEW j \in D, i # j PROVE Place(s, key, i) # Place(s, key, j)
    OBVIOUS
  <2>1. Place(s, key, i) \in Int /\ Place(s, key, j) \in Int
    BY <1>4, <1>10
  <2>2. Place(s, key, i) < Place(s, key, j) \/ Place(s, key, j) < Place(s, key, i)
    BY <1>7, <1>9
  <2> QED BY <2>1, <2>2
<1> DEFINE f == [j \in D |-> Place(s, key, j)]
<1>12. f \in Injection(D, D)
  BY <1>10, <1>11 DEF Injection, IsInjective
<1> HIDE DEF f
<1>13. f \in Surjection(D, D)
  BY <1>2, <1>12, FS_Injection
<1>14. \A k \in D : \E j \in D : Place(s, key, j) = k
  BY <1>13 DEF Surjection, f
<1> QED BY <1>1, <1>7, <1>9, <1>10, <1>11, <1>14

\* ByKey sorts: it has the same elements as often, by descending key.
LEMMA ByKeySorts ==
    ASSUME NEW X, NEW s \in Seq(X), NEW key, \A x \in X : key[x] \in Int
    PROVE  /\ ByKey(s, key) \in Seq(X) /\ Range(ByKey(s, key)) = Range(s)
           /\ IsInjective(s) => IsInjective(ByKey(s, key))
           /\ SortedBy(ByKey(s, key), key)
<1> DEFINE D == DOMAIN s
           at(k) == CHOOSE j \in D : Place(s, key, j) = k
           r == ByKey(s, key)
<1>1. /\ \A j \in D : Place(s, key, j) \in D
      /\ \A k \in D : \E j \in D : Place(s, key, j) = k
      /\ \A i, j \in D : i # j => Place(s, key, i) # Place(s, key, j)
      /\ \A i, j \in D : Before(s, key, i, j) => Place(s, key, i) < Place(s, key, j)
      /\ \A i, j \in D : i # j => Before(s, key, i, j) \/ Before(s, key, j, i)
  BY PlacesAreTaken
<1>2. r = [k \in D |-> s[at(k)]]
  BY DEF ByKey, Place, Before
<1>3. D = 1 .. Len(s) /\ Len(s) \in Nat /\ \A i \in D : s[i] \in X /\ key[s[i]] \in Int
  BY LenProperties, ElementOfSeq
<1> HIDE DEF D, r
<1>4. \A k \in D : at(k) \in D /\ Place(s, key, at(k)) = k
  BY <1>1
<1>5. \A j \in D : at(Place(s, key, j)) = j
  BY <1>1, <1>4
<1> HIDE DEF at
<1>6. r \in Seq(X) /\ DOMAIN r = D
  <2>1. r \in [1 .. Len(s) -> X]
    BY <1>2, <1>3, <1>4
  <2> QED BY <1>3, <2>1, SeqDef
<1>7. Range(r) = Range(s)
  <2>1. \A k \in D : r[k] = s[at(k)] /\ at(k) \in D
    BY <1>2, <1>4
  <2>2. \A j \in D : Place(s, key, j) \in D /\ r[Place(s, key, j)] = s[j]
    BY SMTT(30), ZenonT(30), <1>1, <1>2, <1>5
  <2> QED BY SMTT(30), ZenonT(30), <1>6, <2>1, <2>2 DEF Range, D
<1>8. ASSUME IsInjective(s) PROVE IsInjective(r)
  <2> SUFFICES ASSUME NEW i \in D, NEW j \in D, r[i] = r[j] PROVE i = j
    BY <1>6 DEF IsInjective
  <2>1. s[at(i)] = s[at(j)] /\ at(i) \in D /\ at(j) \in D
    BY <1>2, <1>4
  <2>2. at(i) = at(j)
    BY <1>8, <2>1 DEF IsInjective, D
  <2> QED BY <1>4, <2>2
<1>9. SortedBy(r, key)
  <2> SUFFICES ASSUME NEW i \in D, NEW j \in D, i < j PROVE key[r[i]] >= key[r[j]]
    BY <1>6 DEF SortedBy
  <2> DEFINE a == at(i)
             b == at(j)
  <2>1. /\ a \in D /\ b \in D /\ Place(s, key, a) = i /\ Place(s, key, b) = j
        /\ r[i] = s[a] /\ r[j] = s[b] /\ i \in Int /\ j \in Int
    BY <1>2, <1>3, <1>4
  <2> HIDE DEF a, b
  <2>2. ~ Before(s, key, b, a)
    BY <1>1, <2>1
  <2>3. key[s[a]] \in Int /\ key[s[b]] \in Int
    BY <1>3, <2>1
  <2> QED BY <2>1, <2>2, <2>3 DEF Before
<1> QED BY <1>6, <1>7, <1>8, <1>9 DEF r
-----------------------------------------------------------------------------
(* Bytes: a saturated sum is that of the library, cut at MaxBytes.         *)

Cap(n) == IF n > MaxBytes THEN MaxBytes ELSE n
Own == [d \in Ids |-> OwnBytes(d)]

\* What the files of some directories add up to, and the recursion it solves.
Saved(S) == FoldSet(LAMBDA d, sum : Sum(sum, OwnBytes(d)), 0, S)
Saving(g, S) ==
    g = [T \in SUBSET S |-> IF T = {} THEN 0 ELSE Sum(g[T \ {Pick(T)}], OwnBytes(Pick(T)))]

\* The bytes of a directory are a 64-bit number.
LEMMA OwnBytesFit == ASSUME NEW d \in Ids PROVE OwnBytes(d) \in 0 .. MaxBytes
<1> DEFINE s == Files[d]
           n == Len(s)
           X == 0 .. MaxBytes
           step == [k \in 1 .. n |-> [sum \in X |-> Sum(sum, s[k])]]
           IsIt(g) == g = [T \in SUBSET DOMAIN s |->
                              IF T = {} THEN 0 ELSE Sum(g[T \ {Largest(T)}], s[Largest(T)])]
           it == CHOOSE g : IsIt(g)
<1>1. MaxBytes \in Nat /\ s \in Seq(X)
  BY LimitsAssumption, FilesAssumption
<1> HIDE DEF s
<1>2. n \in Nat /\ DOMAIN s = 1 .. n /\ \A k \in 1 .. n : s[k] \in X
  BY <1>1, LenProperties, ElementOfSeq
<1> HIDE DEF n
<1>3. step \in [1 .. n -> [X -> X]] /\ 0 \in X
  BY <1>1, <1>2 DEF Sum
<1> HIDE DEF X
<1>4. PICK h \in [SUBSET (1 .. n) -> X] : Runs(h, step, 0, n)
  BY <1>2, <1>3, RunsExist
<1>5. IsIt(h)
  <2>1. \A T \in SUBSET (1 .. n) : T # {} => Largest(T) \in 1 .. n /\ h[T \ {Largest(T)}] \in X
    BY <1>2, LargestIsIn
  <2>2. \A T \in SUBSET (1 .. n) :
           h[T] = IF T = {} THEN 0 ELSE Sum(h[T \ {Largest(T)}], s[Largest(T)])
    BY <1>4, <2>1 DEF Runs
  <2> QED BY <1>2, <2>2
<1>6. IsIt(it)
  BY <1>5
<1>7. OwnBytes(d) = it[DOMAIN s]
  BY DEF OwnBytes, FoldLeft, MapThenFoldSet, Largest, Max, s
<1> HIDE DEF it
<1> DEFINE Done == {k \in Nat : k <= n => it[1 .. k] \in X}
<1>8. \A T \in SUBSET (1 .. n) :
         it[T] = IF T = {} THEN 0 ELSE Sum(it[T \ {Largest(T)}], s[Largest(T)])
  BY <1>2, <1>6
<1>9. 0 \in Done
  BY <1>3, <1>8, LargestIsLast
<1>10. ASSUME NEW k \in Nat, k \in Done PROVE k + 1 \in Done
  <2> SUFFICES ASSUME k + 1 <= n PROVE it[1 .. k + 1] \in X
    OBVIOUS
  <2>1. it[1 .. k] \in X /\ 1 .. k + 1 \in SUBSET (1 .. n) /\ k + 1 \in 1 .. n
    BY <1>2, <1>10
  <2>2. /\ Largest(1 .. k + 1) = k + 1 /\ (1 .. k + 1) \ {k + 1} = 1 .. k
        /\ 1 .. k + 1 # {}
    BY LargestIsLast
  <2>3. it[1 .. k + 1] = Sum(it[1 .. k], s[k + 1])
    BY <1>8, <2>1, <2>2
  <2> QED BY <1>1, <1>2, <2>1, <2>3 DEF Sum, X
<1>11. Nat \subseteq Done
  <2> HIDE DEF Done
  <2> QED BY <1>9, <1>10, Induction
<1>12. it[1 .. n] \in X
  BY <1>2, <1>11
<1> QED BY <1>2, <1>7, <1>12 DEF X

\* The order in which the bytes of some directories are added does not matter.
LEMMA SavedIsCapped ==
    ASSUME NEW S \in SUBSET Ids, IsFiniteSet(S)
    PROVE  SumFunctionOnSet(Own, S) \in Nat /\ Saved(S) = Cap(SumFunctionOnSet(Own, S))
<1>1. MaxBytes \in Nat /\ \A d \in S : Own[d] \in 0 .. MaxBytes /\ Own[d] = OwnBytes(d) /\ Own[d] \in Nat
  BY LimitsAssumption, OwnBytesFit DEF Own
<1> DEFINE total(T) == SumFunctionOnSet(Own, T)
           it == CHOOSE g : Saving(g, S)
           h == [T \in SUBSET S |-> Cap(total(T))]
<1>2. ASSUME NEW T \in SUBSET S
      PROVE  /\ IsFiniteSet(T) /\ Cardinality(T) \in Nat /\ total(T) \in Nat
             /\ T = {} => total(T) = 0
             /\ T # {} => /\ Pick(T) \in T /\ total(T) = Own[Pick(T)] + total(T \ {Pick(T)})
                          /\ total(T \ {Pick(T)}) \in Nat
  <2>1. IsFiniteSet(T) /\ Cardinality(T) \in Nat /\ \A d \in T : Own[d] \in Nat
    BY <1>1, FS_Subset, FS_CardinalityType
  <2>2. T # {} => Pick(T) \in T
    BY PickIsIn
  <2>3. /\ total(T) \in Nat /\ (T = {} => total(T) = 0)
        /\ T # {} => total(T) = Own[Pick(T)] + total(T \ {Pick(T)})
    BY <2>1, SumStep
  <2>4. IsFiniteSet(T \ {Pick(T)}) /\ \A d \in T \ {Pick(T)} : Own[d] \in Nat
    BY <2>1, FS_Subset
  <2>5. total(T \ {Pick(T)}) \in Nat
    BY <2>4, SumStep
  <2> QED BY <2>1, <2>2, <2>3, <2>5
<1> HIDE DEF total
<1>3. Saving(h, S)
  <2>1. ASSUME NEW T \in SUBSET S
        PROVE  h[T] = IF T = {} THEN 0 ELSE Sum(h[T \ {Pick(T)}], OwnBytes(Pick(T)))
    <3>1. CASE T = {}
      BY <1>1, <1>2, <3>1 DEF Cap
    <3>2. CASE T # {}
      <4> DEFINE p == Pick(T)
      <4>1. p \in S /\ T \ {p} \in SUBSET S /\ total(T) = Own[p] + total(T \ {p}) /\ total(T \ {p}) \in Nat
        BY <1>2, <3>2
      <4>2. h[T] = Cap(total(T)) /\ h[T \ {p}] = Cap(total(T \ {p}))
        BY <4>1
      <4> HIDE DEF p
      <4>3. Own[p] = OwnBytes(p) /\ Own[p] \in Nat
        BY <1>1, <4>1
      <4>4. Cap(Own[p] + total(T \ {p})) = Sum(Cap(total(T \ {p})), Own[p])
        BY <1>1, <4>1, <4>3 DEF Cap, Sum
      <4>5. h[T] = Sum(h[T \ {p}], OwnBytes(p))
        BY <4>1, <4>2, <4>3, <4>4
      <4> QED BY <3>2, <4>5 DEF p
    <3> QED BY <3>1, <3>2
  <2> QED BY <2>1 DEF Saving
<1>4. Saving(it, S)
  BY <1>3
<1>5. Saved(S) = it[S]
  BY DEF Saved, FoldSet, MapThenFoldSet, Saving, Pick
<1> HIDE DEF it
<1> DEFINE Same == {n \in Nat : \A T \in Small(S, n) : it[T] = h[T]}
<1>6. \A T \in SUBSET S : it[T] = IF T = {} THEN 0 ELSE Sum(it[T \ {Pick(T)}], OwnBytes(Pick(T)))
  BY <1>4 DEF Saving
<1>7. \A T \in SUBSET S : h[T] = IF T = {} THEN 0 ELSE Sum(h[T \ {Pick(T)}], OwnBytes(Pick(T)))
  BY <1>3 DEF Saving
<1>8. 0 \in Same
  <2>1. \A T \in SUBSET S : IsFiniteSet(T) /\ Cardinality(T) \in Nat
    BY <1>2
  <2>2. \A T \in Small(S, 0) : T = {}
    BY <2>1, FS_EmptySet DEF Small
  <2> QED BY <1>6, <1>7, <2>2
<1>9. ASSUME NEW n \in Nat, n \in Same PROVE n + 1 \in Same
  <2> HIDE DEF h
  <2>1. SUFFICES ASSUME NEW T \in Small(S, n + 1), T # {} PROVE it[T] = h[T]
    BY <1>6, <1>7 DEF Small
  <2>2. T \in SUBSET S /\ Cardinality(T) <= n + 1 /\ Pick(T) \in T
    BY <2>1, PickIsIn DEF Small
  <2>3. T \ {Pick(T)} \in Small(S, n)
    <3>1. Cardinality(T) \in Nat /\ Cardinality(T \ {Pick(T)}) = Cardinality(T) - 1
      BY <1>2, <2>2, SmallerSet
    <3> QED BY <2>2, <3>1 DEF Small
  <2>4. it[T \ {Pick(T)}] = h[T \ {Pick(T)}]
    BY <1>9, <2>3
  <2> QED BY <1>6, <1>7, <2>1, <2>2, <2>4
<1>10. Nat \subseteq Same
  <2> HIDE DEF Same
  <2> QED BY <1>8, <1>9, Induction
<1>11. it[S] = h[S]
  <2>1. S \in SUBSET S /\ Cardinality(S) \in Nat
    BY <1>2
  <2>2. S \in Small(S, Cardinality(S))
    BY <2>1 DEF Small
  <2> QED BY <1>10, <2>1, <2>2
<1>12. total(S) \in Nat
  BY <1>2
<1> QED BY <1>5, <1>11, <1>12 DEF total

\* One more directory adds its bytes.
LEMMA SavedAdds ==
    ASSUME NEW S \in SUBSET Ids, IsFiniteSet(S), NEW d \in Ids, d \notin S
    PROVE  /\ Saved({}) = 0 /\ Saved(S) \in 0 .. MaxBytes
           /\ Saved(S \cup {d}) = Sum(Saved(S), OwnBytes(d))
<1>1. MaxBytes \in Nat /\ \A e \in Ids : Own[e] \in Nat /\ Own[e] = OwnBytes(e)
  BY LimitsAssumption, OwnBytesFit DEF Own
<1> DEFINE n == SumFunctionOnSet(Own, S)
           m == SumFunctionOnSet(Own, S \cup {d})
<1>2. n \in Nat /\ Saved(S) = Cap(n)
  BY SavedIsCapped
<1>3. S \cup {d} \in SUBSET Ids /\ IsFiniteSet(S \cup {d})
  BY FS_AddElement
<1>4. Saved(S \cup {d}) = Cap(m)
  BY <1>3, SavedIsCapped
<1>5. m = Own[d] + n
  <2>1. \A e \in S \cup {d} : Own[e] \in Nat
    BY <1>1
  <2> QED BY SMTT(30), ZenonT(30), <2>1, SumAdds
<1>6. Saved({}) = 0
  <2>1. IsFiniteSet({}) /\ {} \in SUBSET Ids /\ SumFunctionOnSet(Own, {}) = 0
    BY FS_EmptySet, SumStep
  <2>2. Saved({}) = Cap(0)
    BY <2>1, SavedIsCapped
  <2> QED BY <1>1, <2>2 DEF Cap
<1> HIDE DEF n, m
<1> QED BY <1>1, <1>2, <1>4, <1>5, <1>6 DEF Cap, Sum
-----------------------------------------------------------------------------
(* The tree of sizes: what the updates keep.                               *)

Trees == [parent : Parents, subtree_bytes : [Ids -> 0 .. MaxBytes], children : [Ids -> Seq(Ids)],
          dirty : SUBSET Ids]

\* A tree of the directories in D: their links, their recursive sizes and, for
\* each directory, its children, in order unless they wait to be sorted.
IsTreeOf(t, D) ==
    /\ t \in Trees /\ IsFiniteSet(D) /\ Grown(t.parent, D)
    /\ \A p \in Ids : t.subtree_bytes[p] = Saved(Below[p] \cap D)
    /\ \A p \in Ids : /\ IsInjective(t.children[p])
                      /\ Range(t.children[p]) = {d \in D : TreeParent[d] = p}
    /\ \A p \in Ids \ t.dirty : SortedBy(t.children[p], t.subtree_bytes)

LEMMA LinkedFields ==
    ASSUME NEW t \in Trees, NEW d \in Ids
    PROVE  LET l == Linked(t, d)
               p == TreeParent[d]
               same == p = NO_PARENT \/ t.parent[d] # NO_PARENT \/ p = d
           IN /\ l \in Trees /\ l.subtree_bytes = t.subtree_bytes
              /\ p \in Ids \cup {NO_PARENT}
              /\ same => l = t
              /\ ~ same => /\ p \in Ids /\ l.parent = [t.parent EXCEPT ![d] = p]
                           /\ l.children = [t.children EXCEPT ![p] = Append(@, d)]
                           /\ l.dirty = t.dirty \cup {p}
<1> DEFINE l == Linked(t, d)
           p == TreeParent[d]
           same == p = NO_PARENT \/ t.parent[d] # NO_PARENT \/ p = d
<1>1. p \in Ids \cup {NO_PARENT}
  BY ParentAssumption
<1>2. CASE same
  BY <1>1, <1>2 DEF Linked
<1>3. CASE ~ same
  <2>1. p \in Ids /\ l = [t EXCEPT !.parent[d] = p, !.children[p] = Append(@, d), !.dirty = @ \cup {p}]
    BY <1>1, <1>3 DEF Linked
  <2> HIDE DEF l, p
  <2>2. /\ t.parent \in Parents /\ t.children \in [Ids -> Seq(Ids)] /\ t.dirty \in SUBSET Ids
        /\ t.subtree_bytes \in [Ids -> 0 .. MaxBytes]
        /\ t = [parent |-> t.parent, subtree_bytes |-> t.subtree_bytes, children |-> t.children, dirty |-> t.dirty]
    BY DEF Trees
  <2>3. /\ l.parent = [t.parent EXCEPT ![d] = p] /\ l.subtree_bytes = t.subtree_bytes
        /\ l.children = [t.children EXCEPT ![p] = Append(@, d)] /\ l.dirty = t.dirty \cup {p}
        /\ l = [parent |-> l.parent, subtree_bytes |-> l.subtree_bytes, children |-> l.children, dirty |-> l.dirty]
    BY <2>1 DEF Trees
  <2>4. Append(t.children[p], d) \in Seq(Ids)
    BY <2>1, <2>2, AppendProperties
  <2>5. l.parent \in Parents /\ l.children \in [Ids -> Seq(Ids)] /\ l.dirty \in SUBSET Ids
    BY <2>1, <2>2, <2>3, <2>4 DEF Parents
  <2>6. l \in Trees
    BY <2>2, <2>3, <2>5 DEF Trees
  <2> QED BY <1>3, <2>1, <2>3, <2>6 DEF l, p
<1> QED BY <1>2, <1>3

LEMMA WithBytesFields ==
    ASSUME NEW t \in Trees, NEW d \in Ids
    PROVE  LET b == WithBytes(t, d)
               chain == Range(Chain(t.parent, d))
           IN /\ b \in Trees /\ b.parent = t.parent /\ b.children = t.children /\ chain \subseteq Ids
              /\ b.subtree_bytes = [e \in Ids |-> IF e \in chain THEN Sum(t.subtree_bytes[e], OwnBytes(d))
                                                  ELSE t.subtree_bytes[e]]
              /\ b.dirty = t.dirty \cup ({t.parent[e] : e \in chain} \ {NO_PARENT})
<1> DEFINE b == WithBytes(t, d)
           chain == Range(Chain(t.parent, d))
<1>1. /\ t.parent \in Parents /\ t.children \in [Ids -> Seq(Ids)] /\ t.dirty \in SUBSET Ids
      /\ t.subtree_bytes \in [Ids -> 0 .. MaxBytes]
  BY DEF Trees
<1>2. chain \subseteq Ids
  <2>1. Chain(t.parent, d) \in Seq(Ids)
    BY <1>1, ChainWalks DEF Walk
  <2> QED BY <2>1, LenProperties, ElementOfSeq DEF Range
<1>3. MaxBytes \in Nat /\ OwnBytes(d) \in 0 .. MaxBytes
  BY LimitsAssumption, OwnBytesFit
<1>4. /\ b.parent = t.parent /\ b.children = t.children
      /\ b.subtree_bytes = [e \in Ids |-> IF e \in chain THEN Sum(t.subtree_bytes[e], OwnBytes(d))
                                          ELSE t.subtree_bytes[e]]
      /\ b.dirty = t.dirty \cup ({t.parent[e] : e \in chain} \ {NO_PARENT})
      /\ b = [parent |-> b.parent, subtree_bytes |-> b.subtree_bytes, children |-> b.children, dirty |-> b.dirty]
  <2> DEFINE bytes == [e \in Ids |-> IF e \in chain THEN Sum(t.subtree_bytes[e], OwnBytes(d))
                                     ELSE t.subtree_bytes[e]]
             marked == t.dirty \cup ({t.parent[e] : e \in chain} \ {NO_PARENT})
  <2>1. b = [t EXCEPT !.subtree_bytes = bytes, !.dirty = marked]
    BY DEF WithBytes
  <2> HIDE DEF bytes, marked, b
  <2>2. /\ b.parent = t.parent /\ b.children = t.children /\ b.subtree_bytes = bytes /\ b.dirty = marked
        /\ b = [parent |-> b.parent, subtree_bytes |-> b.subtree_bytes, children |-> b.children, dirty |-> b.dirty]
    BY <2>1 DEF Trees
  <2> QED BY <2>2 DEF bytes, marked
<1> HIDE DEF chain, b
<1>5. b.subtree_bytes \in [Ids -> 0 .. MaxBytes]
  <2>1. \A e \in Ids : Sum(t.subtree_bytes[e], OwnBytes(d)) \in 0 .. MaxBytes
    BY <1>1, <1>3 DEF Sum
  <2> QED BY <1>1, <1>4, <2>1
<1>6. b.dirty \in SUBSET Ids
  BY <1>1, <1>2, <1>4 DEF Parents
<1>7. b \in Trees
  BY <1>1, <1>4, <1>5, <1>6 DEF Trees
<1> QED BY <1>2, <1>4, <1>7 DEF chain, b

LEMMA AppendsOne ==
    ASSUME NEW X, NEW s \in Seq(X), NEW e \in X, IsInjective(s), e \notin Range(s)
    PROVE  IsInjective(Append(s, e)) /\ Range(Append(s, e)) = Range(s) \cup {e}
<1> DEFINE a == Append(s, e)
<1>1. /\ a \in Seq(X) /\ Len(a) = Len(s) + 1 /\ Len(s) \in Nat /\ a[Len(s) + 1] = e
      /\ \A i \in 1 .. Len(s) : a[i] = s[i]
  BY AppendProperties, LenProperties
<1>2. DOMAIN s = 1 .. Len(s) /\ DOMAIN a = 1 .. Len(a)
  BY <1>1, LenProperties
<1>3. DOMAIN a = DOMAIN s \cup {Len(s) + 1}
  BY <1>1, <1>2
<1> HIDE DEF a
<1>4. \A i \in DOMAIN s : a[i] = s[i] /\ s[i] # e
  BY <1>1, <1>2 DEF Range
<1>5. IsInjective(a)
  BY <1>1, <1>3, <1>4 DEF IsInjective
<1>6. Range(a) = Range(s) \cup {e}
  BY <1>1, <1>3, <1>4 DEF Range
<1> QED BY <1>5, <1>6 DEF a

\* add_directory makes the tree of one directory more.
LEMMA DirectoryGrows ==
    ASSUME NEW t, NEW D, IsTreeOf(t, D), NEW d \in Ids \ D, TreeParent[d] \in D \cup {NO_PARENT}
    PROVE  IsTreeOf(WithDirectory(t, d), D \cup {d})
<1> DEFINE l == Linked(t, d)
           b == WithDirectory(t, d)
           E == D \cup {d}
           p == TreeParent[d]
<1>1. /\ t \in Trees /\ IsFiniteSet(D) /\ Grown(t.parent, D)
      /\ \A q \in Ids : t.subtree_bytes[q] = Saved(Below[q] \cap D)
      /\ \A q \in Ids : /\ IsInjective(t.children[q])
                        /\ Range(t.children[q]) = {e \in D : TreeParent[e] = q}
      /\ \A q \in Ids \ t.dirty : SortedBy(t.children[q], t.subtree_bytes)
  BY DEF IsTreeOf
<1>2. /\ D \in SUBSET Ids /\ NO_PARENT \notin Ids /\ p \in Ids \cup {NO_PARENT}
      /\ t.parent = [e \in Ids |-> IF e \in D THEN TreeParent[e] ELSE NO_PARENT]
      /\ \A e \in D : TreeParent[e] \in D \cup {NO_PARENT}
  BY <1>1, ParentAssumption DEF Grown
<1>3. /\ t.parent \in Parents /\ t.children \in [Ids -> Seq(Ids)] /\ t.dirty \in SUBSET Ids
      /\ t.subtree_bytes \in [Ids -> 0 .. MaxBytes]
  BY <1>1 DEF Trees
<1>4. /\ l \in Trees /\ l.subtree_bytes = t.subtree_bytes
      /\ l.parent = [e \in Ids |-> IF e \in E THEN TreeParent[e] ELSE NO_PARENT]
      /\ \A q \in Ids : l.children[q] = IF q = p THEN Append(t.children[q], d) ELSE t.children[q]
      /\ l.dirty = t.dirty \cup ({p} \ {NO_PARENT})
  <2>1. t.parent[d] = NO_PARENT /\ p # d
    BY <1>2
  <2>2. CASE p = NO_PARENT
    <3>1. l = t
      BY <1>1, <2>2, LinkedFields
    <3> HIDE DEF l
    <3>2. \A q \in Ids : q # p
      BY <1>2, <2>2
    <3>3. t.parent = [e \in Ids |-> IF e \in E THEN TreeParent[e] ELSE NO_PARENT]
      BY <1>2, <2>2
    <3> QED BY <1>1, <2>2, <3>1, <3>2, <3>3
  <2>3. CASE p # NO_PARENT
    <3>1. /\ l \in Trees /\ l.subtree_bytes = t.subtree_bytes
          /\ p \in Ids /\ l.parent = [t.parent EXCEPT ![d] = p]
          /\ l.children = [t.children EXCEPT ![p] = Append(@, d)]
          /\ l.dirty = t.dirty \cup {p}
      BY <1>1, <2>1, <2>3, LinkedFields
    <3>2. [t.parent EXCEPT ![d] = p] = [e \in Ids |-> IF e \in E THEN TreeParent[e] ELSE NO_PARENT]
      BY <1>2
    <3> HIDE DEF l, p
    <3>3. \A q \in Ids : l.children[q] = IF q = p THEN Append(t.children[q], d) ELSE t.children[q]
      BY <1>3, <3>1
    <3> QED BY <2>3, <3>1, <3>2, <3>3
  <2> QED BY <2>2, <2>3
<1>5. E \in SUBSET Ids /\ IsFiniteSet(E) /\ Grown(l.parent, E)
  <2>1. E \in SUBSET Ids /\ IsFiniteSet(E)
    BY <1>1, <1>2, FS_AddElement
  <2>2. \A e \in E : TreeParent[e] \in E \cup {NO_PARENT}
    BY <1>2
  <2> HIDE DEF l
  <2> QED BY <1>4, <2>1, <2>2 DEF Grown
<1> DEFINE chain == Range(Chain(l.parent, d))
<1>6. /\ b \in Trees /\ b.parent = l.parent /\ b.children = l.children
      /\ b.subtree_bytes = [e \in Ids |-> IF e \in chain THEN Sum(l.subtree_bytes[e], OwnBytes(d))
                                          ELSE l.subtree_bytes[e]]
      /\ b.dirty = l.dirty \cup ({l.parent[e] : e \in chain} \ {NO_PARENT})
  <2>1. b = WithBytes(l, d)
    BY DEF WithDirectory
  <2> HIDE DEF b, l
  <2> QED BY SMTT(30), ZenonT(30), <1>4, <2>1, WithBytesFields
<1>7. chain \subseteq E /\ \A q \in Ids : q \in chain <=> d \in Below[q]
  <2> HIDE DEF l
  <2> QED BY <1>5, ChainIsAbove
<1> HIDE DEF l, b, chain
<1>8. ASSUME NEW q \in Ids PROVE b.subtree_bytes[q] = Saved(Below[q] \cap E)
  <2> DEFINE S == Below[q] \cap D
  <2>1. S \in SUBSET Ids /\ IsFiniteSet(S) /\ d \notin S
    BY <1>1, <1>2, FS_Subset
  <2>2. /\ l.subtree_bytes[q] = Saved(S)
        /\ b.subtree_bytes[q] = IF q \in chain THEN Sum(l.subtree_bytes[q], OwnBytes(d))
                                ELSE l.subtree_bytes[q]
    BY <1>1, <1>4, <1>6
  <2>3. CASE q \in chain
    <3>1. Below[q] \cap E = S \cup {d}
      BY <1>7, <2>3
    <3> HIDE DEF S, E
    <3>2. Saved(S \cup {d}) = Sum(Saved(S), OwnBytes(d))
      BY <2>1, SavedAdds
    <3> QED BY <2>2, <2>3, <3>1, <3>2
  <2>4. CASE q \notin chain
    <3>1. Below[q] \cap E = S
      BY <1>7, <2>4
    <3> HIDE DEF S, E
    <3> QED BY <2>2, <2>4, <3>1
  <2> QED BY <2>3, <2>4
<1>9. ASSUME NEW q \in Ids
      PROVE  IsInjective(b.children[q]) /\ Range(b.children[q]) = {e \in E : TreeParent[e] = q}
  <2> DEFINE s == t.children[q]
  <2>1. s \in Seq(Ids) /\ IsInjective(s) /\ Range(s) = {e \in D : TreeParent[e] = q}
    BY <1>1, <1>3
  <2>2. b.children[q] = IF q = p THEN Append(s, d) ELSE s
    BY <1>4, <1>6
  <2> HIDE DEF s
  <2>3. CASE q = p
    <3>1. d \notin Range(s)
      BY <2>1
    <3>2. IsInjective(Append(s, d)) /\ Range(Append(s, d)) = Range(s) \cup {d}
      BY <2>1, <3>1, AppendsOne
    <3> QED BY <2>1, <2>2, <2>3, <3>2
  <2>4. CASE q # p
    BY <2>1, <2>2, <2>4
  <2> QED BY <2>3, <2>4
<1>10. ASSUME NEW q \in Ids \ b.dirty PROVE SortedBy(b.children[q], b.subtree_bytes)
  <2> DEFINE s == t.children[q]
  <2>1. q \notin l.dirty /\ q \notin t.dirty /\ q # p
    BY <1>2, <1>4, <1>6, <1>10
  <2>2. b.children[q] = s /\ s \in Seq(Ids) /\ Range(s) = {e \in D : TreeParent[e] = q}
    BY <1>1, <1>3, <1>4, <1>6, <2>1
  <2>3. SortedBy(s, t.subtree_bytes)
    BY <1>1, <2>1
  <2> HIDE DEF s
  <2>4. ASSUME NEW e \in Range(s) PROVE b.subtree_bytes[e] = t.subtree_bytes[e]
    <3>1. e \in D /\ e \in Ids /\ TreeParent[e] = q /\ q # NO_PARENT
      BY <1>2, <2>2
    <3>2. l.parent[e] = q
      BY <1>4, <3>1
    <3>3. e \notin chain
      BY <1>6, <1>10, <3>1, <3>2
    <3> QED BY <1>4, <1>6, <3>1, <3>3
  <2> DEFINE old == t.subtree_bytes
             new == b.subtree_bytes
  <2>5. \A i \in DOMAIN s : new[s[i]] = old[s[i]]
    BY <2>4 DEF Range
  <2>6. SortedBy(s, new)
    <3> HIDE DEF old, new
    <3>1. SortedBy(s, old)
      BY <2>3 DEF old
    <3> QED BY <2>5, <3>1 DEF SortedBy
  <2> QED BY <2>2, <2>6
<1>11. Grown(b.parent, E)
  BY <1>5, <1>6
<1> HIDE DEF E
<1>12. IsTreeOf(b, E)
  BY <1>5, <1>6, <1>8, <1>9, <1>10, <1>11 DEF IsTreeOf
<1> QED BY <1>12 DEF b, E

\* The directories of an update: new ones, no child before its parent.
IsBatch(b, D) ==
    /\ b \in Seq(Ids)
    /\ \A k \in DOMAIN b : /\ b[k] \notin D /\ \A j \in 1 .. k - 1 : b[j] # b[k]
                           /\ TreeParent[b[k]] \in D \cup {NO_PARENT} \cup {b[j] : j \in 1 .. k - 1}

\* A whole update, one directory after the other.
LEMMA DirectoriesGrow ==
    ASSUME NEW t, NEW D, IsTreeOf(t, D), NEW s, IsBatch(s, D)
    PROVE  IsTreeOf(FoldLeft(WithDirectory, t, s), D \cup Range(s))
<1> DEFINE n == Len(s)
           step == [k \in 1 .. n |-> [r \in Trees |-> WithDirectory(r, s[k])]]
           IsIt(g) == g = [T \in SUBSET DOMAIN s |->
                              IF T = {} THEN t ELSE WithDirectory(g[T \ {Largest(T)}], s[Largest(T)])]
           it == CHOOSE g : IsIt(g)
           told(k) == D \cup {s[j] : j \in 1 .. k}
<1>1. /\ s \in Seq(Ids)
      /\ \A k \in DOMAIN s : /\ s[k] \notin D /\ \A j \in 1 .. k - 1 : s[j] # s[k]
                             /\ TreeParent[s[k]] \in D \cup {NO_PARENT} \cup {s[j] : j \in 1 .. k - 1}
  BY DEF IsBatch
<1>2. n \in Nat /\ DOMAIN s = 1 .. n /\ \A k \in 1 .. n : s[k] \in Ids
  BY <1>1, LenProperties, ElementOfSeq
<1> HIDE DEF n
<1>3. t \in Trees /\ step \in [1 .. n -> [Trees -> Trees]]
  <2>1. \A r \in Trees, d \in Ids : WithDirectory(r, d) \in Trees
    <3> SUFFICES ASSUME NEW r \in Trees, NEW d \in Ids PROVE WithDirectory(r, d) \in Trees
      OBVIOUS
    <3>1. Linked(r, d) \in Trees
      BY LinkedFields
    <3>2. WithBytes(Linked(r, d), d) \in Trees
      BY <3>1, WithBytesFields
    <3> QED BY <3>2 DEF WithDirectory
  <2> QED BY <1>2, <2>1 DEF IsTreeOf
<1>4. PICK h \in [SUBSET (1 .. n) -> Trees] : Runs(h, step, t, n)
  <2> HIDE DEF step
  <2> QED BY <1>2, <1>3, RunsExist
<1>5. IsIt(h)
  <2>1. \A T \in SUBSET (1 .. n) : T # {} => Largest(T) \in 1 .. n /\ h[T \ {Largest(T)}] \in Trees
    BY <1>2, LargestIsIn
  <2>2. \A T \in SUBSET (1 .. n) :
           h[T] = IF T = {} THEN t ELSE WithDirectory(h[T \ {Largest(T)}], s[Largest(T)])
    BY <1>4, <2>1 DEF Runs
  <2> QED BY <1>2, <2>2
<1>6. IsIt(it)
  BY <1>5
<1>7. FoldLeft(WithDirectory, t, s) = it[DOMAIN s]
  BY DEF FoldLeft, MapThenFoldSet, Largest, Max
<1> HIDE DEF it
<1>8. \A T \in SUBSET (1 .. n) :
         it[T] = IF T = {} THEN t ELSE WithDirectory(it[T \ {Largest(T)}], s[Largest(T)])
  BY <1>2, <1>6
<1> DEFINE Done == {k \in Nat : k <= n => IsTreeOf(it[1 .. k], told(k))}
<1>9. 0 \in Done
  <2>1. it[1 .. 0] = t
    BY <1>8, LargestIsLast
  <2>2. told(0) = D
    OBVIOUS
  <2> QED BY <2>1, <2>2
<1>10. ASSUME NEW k \in Nat, k \in Done PROVE k + 1 \in Done
  <2> SUFFICES ASSUME k + 1 <= n PROVE IsTreeOf(it[1 .. k + 1], told(k + 1))
    OBVIOUS
  <2>1. k + 1 \in 1 .. n /\ 1 .. k + 1 \in SUBSET (1 .. n) /\ (k + 1) - 1 = k
    BY <1>2
  <2>2. /\ Largest(1 .. k + 1) = k + 1 /\ (1 .. k + 1) \ {k + 1} = 1 .. k
        /\ 1 .. k + 1 # {}
    BY LargestIsLast
  <2>3. it[1 .. k + 1] = WithDirectory(it[1 .. k], s[k + 1])
    BY <1>8, <2>1, <2>2
  <2> DEFINE d == s[k + 1]
             E == told(k)
  <2>4. d \in Ids \ E /\ TreeParent[d] \in E \cup {NO_PARENT}
    BY <1>1, <1>2, <2>1
  <2>5. told(k + 1) = E \cup {d}
    BY <2>1
  <2> HIDE DEF told
  <2>6. IsTreeOf(it[1 .. k], E)
    BY <1>2, <1>10, <2>1
  <2> HIDE DEF d, E
  <2>7. IsTreeOf(WithDirectory(it[1 .. k], d), E \cup {d})
    BY <2>4, <2>6, DirectoryGrows
  <2> QED BY <2>3, <2>5, <2>7 DEF d
<1>11. Nat \subseteq Done
  <2> HIDE DEF Done
  <2> QED BY <1>9, <1>10, Induction
<1>12. IsTreeOf(it[1 .. n], told(n))
  <2> HIDE DEF told
  <2> QED BY <1>2, <1>11
<1>13. told(n) = D \cup Range(s)
  BY <1>2 DEF Range
<1> QED BY <1>2, <1>7, <1>12, <1>13

\* finish_batch leaves nothing to sort.
LEMMA BatchFinishes ==
    ASSUME NEW t, NEW D, IsTreeOf(t, D)
    PROVE  IsTreeOf(FinishBatch(t), D) /\ FinishBatch(t).dirty = {}
<1> DEFINE f == FinishBatch(t)
           sorted == [p \in Ids |-> IF p \in t.dirty THEN ByKey(t.children[p], t.subtree_bytes)
                                    ELSE t.children[p]]
<1>1. /\ t \in Trees /\ IsFiniteSet(D) /\ Grown(t.parent, D)
      /\ \A p \in Ids : t.subtree_bytes[p] = Saved(Below[p] \cap D)
      /\ \A p \in Ids : /\ IsInjective(t.children[p])
                        /\ Range(t.children[p]) = {d \in D : TreeParent[d] = p}
      /\ \A p \in Ids \ t.dirty : SortedBy(t.children[p], t.subtree_bytes)
  BY DEF IsTreeOf
<1>2. /\ t.parent \in Parents /\ t.children \in [Ids -> Seq(Ids)] /\ t.dirty \in SUBSET Ids
      /\ t.subtree_bytes \in [Ids -> 0 .. MaxBytes]
  BY <1>1 DEF Trees
<1>3. f = [t EXCEPT !.children = sorted, !.dirty = {}]
  BY DEF FinishBatch
<1> HIDE DEF f, sorted
<1>4. /\ f.parent = t.parent /\ f.subtree_bytes = t.subtree_bytes /\ f.children = sorted /\ f.dirty = {}
      /\ f = [parent |-> f.parent, subtree_bytes |-> f.subtree_bytes, children |-> f.children, dirty |-> f.dirty]
  BY <1>1, <1>3 DEF Trees
<1>5. ASSUME NEW p \in Ids
      PROVE  /\ sorted[p] \in Seq(Ids) /\ IsInjective(sorted[p]) /\ Range(sorted[p]) = Range(t.children[p])
             /\ SortedBy(sorted[p], t.subtree_bytes)
  <2>1. CASE p \in t.dirty
    <3> DEFINE s == t.children[p]
               key == t.subtree_bytes
    <3>1. s \in Seq(Ids) /\ IsInjective(s) /\ \A d \in Ids : key[d] \in Int
      BY <1>1, <1>2
    <3>2. sorted[p] = ByKey(s, key)
      BY <2>1 DEF sorted
    <3> HIDE DEF s, key
    <3>3. /\ ByKey(s, key) \in Seq(Ids) /\ Range(ByKey(s, key)) = Range(s)
          /\ IsInjective(ByKey(s, key)) /\ SortedBy(ByKey(s, key), key)
      BY <3>1, ByKeySorts
    <3> QED BY <3>2, <3>3 DEF s, key
  <2>2. CASE p \notin t.dirty
    <3>1. sorted[p] = t.children[p]
      BY <2>2 DEF sorted
    <3> QED BY <1>1, <1>2, <2>2, <3>1
  <2> QED BY <2>1, <2>2
<1>6. sorted \in [Ids -> Seq(Ids)]
  <2>1. \A p \in Ids : sorted[p] \in Seq(Ids)
    BY <1>5
  <2>2. sorted = [p \in Ids |-> sorted[p]]
    BY DEF sorted
  <2> QED BY <2>1, <2>2
<1>7. f \in Trees
  BY <1>2, <1>4, <1>6 DEF Trees
<1>8. IsTreeOf(f, D)
  BY <1>1, <1>4, <1>5, <1>7 DEF IsTreeOf
<1> QED BY <1>4, <1>8 DEF f

\* Between updates the tree is that of the directories told of, and sorted.
TreeInv == IsTreeOf(nodes, seen) /\ nodes.dirty = {}

LEMMA TreeBegins == InitTree => TreeInv
<1> SUFFICES ASSUME InitTree PROVE TreeInv
  OBVIOUS
<1>1. MaxBytes \in Nat /\ IsFiniteSet({}) /\ seen = {} /\ {} \in SUBSET Ids
  BY LimitsAssumption, FS_EmptySet DEF InitTree
<1>2. nodes = [parent |-> [d \in Ids |-> NO_PARENT], subtree_bytes |-> [d \in Ids |-> 0],
               children |-> [d \in Ids |-> <<>>], dirty |-> {}]
  BY DEF InitTree
<1>3. nodes \in Trees /\ nodes.dirty = {}
  BY <1>1, <1>2, EmptySeq DEF Trees, Parents
<1>4. Grown(nodes.parent, {})
  BY <1>2 DEF Grown
<1>5. Saved({}) = 0
  <2>1. SumFunctionOnSet(Own, {}) = 0
    BY <1>1, SumStep
  <2>2. Saved({}) = Cap(0)
    BY <1>1, <2>1, SavedIsCapped
  <2> QED BY <1>1, <2>2 DEF Cap
<1>6. \A p \in Ids : nodes.subtree_bytes[p] = Saved(Below[p] \cap {})
  <2>1. \A p \in Ids : Below[p] \cap {} = {} /\ nodes.subtree_bytes[p] = 0
    BY <1>2
  <2> QED BY <1>5, <2>1
<1>7. \A p \in Ids : /\ IsInjective(nodes.children[p]) /\ Range(nodes.children[p]) = {}
                     /\ SortedBy(nodes.children[p], nodes.subtree_bytes)
  <2>1. \A p \in Ids : nodes.children[p] = <<>>
    BY <1>2
  <2>2. IsInjective(<<>>) /\ Range(<<>>) = {}
    BY DEF IsInjective, Range
  <2>3. SortedBy(<<>>, nodes.subtree_bytes)
    BY DEF SortedBy
  <2> QED BY <2>1, <2>2, <2>3
<1> QED BY <1>1, <1>3, <1>4, <1>6, <1>7 DEF TreeInv, IsTreeOf

LEMMA UpdateKeepsTree == TreeInv /\ ApplyUpdate => TreeInv'
<1> SUFFICES ASSUME TreeInv, ApplyUpdate PROVE TreeInv'
  OBVIOUS
<1>1. PICK batch \in Batches : /\ seen' = seen \cup Range(batch)
                               /\ nodes' = FinishBatch(FoldLeft(WithDirectory, nodes, batch))
  BY DEF ApplyUpdate
<1>2. IsTreeOf(nodes, seen)
  BY DEF TreeInv
<1>3. IsBatch(batch, seen)
  <2>1. batch \in SeqOf(Ids \ seen, MaxBatch)
    BY DEF Batches
  <2>2. PICK n \in 0 .. MaxBatch : batch \in [1 .. n -> Ids \ seen]
    BY <2>1 DEF SeqOf
  <2>3. n \in Nat
    BY LimitsAssumption
  <2>4. batch \in Seq(Ids) /\ \A k \in DOMAIN batch : batch[k] \notin seen
    BY <2>2, <2>3, SeqDef
  <2>5. \A k \in DOMAIN batch :
          /\ \A j \in 1 .. k - 1 : batch[j] # batch[k]
          /\ TreeParent[batch[k]] \in seen \cup {NO_PARENT} \cup {batch[j] : j \in 1 .. k - 1}
    BY DEF Batches
  <2> QED BY <2>4, <2>5 DEF IsBatch
<1>4. IsTreeOf(FoldLeft(WithDirectory, nodes, batch), seen \cup Range(batch))
  BY <1>2, <1>3, DirectoriesGrow
<1> QED BY <1>1, <1>4, BatchFinishes DEF TreeInv

\* Nothing that the user does touches the tree.
LEMMA TreeSteps == [ExplorerNext]_explorer => [NextTree]_tree
<1> SUFFICES ASSUME [ExplorerNext]_explorer PROVE NextTree \/ UNCHANGED tree
  OBVIOUS
<1> QED BY DEF ExplorerNext, explorer, Grow, TabSelected, CursorMoved, ButtonPressed, CenterPressed,
               NodePressed, WheelScrolled, CrumbPressed, BreakdownPressed

LEMMA StepKeepsTree == TreeInv /\ [NextTree]_tree => TreeInv'
<1> SUFFICES ASSUME TreeInv, [NextTree]_tree PROVE TreeInv'
  OBVIOUS
<1>1. CASE ApplyUpdate
  BY <1>1, UpdateKeepsTree
<1>2. CASE UNCHANGED <<seen, nodes>>
  <2>1. seen' = seen /\ nodes' = nodes
    BY <1>2
  <2> QED BY <2>1 DEF TreeInv
<1> QED BY <1>1, <1>2 DEF NextTree, ApplyFinished, tree
-----------------------------------------------------------------------------
(***************************************************************************)
(* Whatever the order in which completions and batches come, and whatever  *)
(* the user does meanwhile, the size of each directory is that of the      *)
(* files told of at or below it, up to the largest 64-bit number, and its  *)
(* children are listed once and by size (SizeTree of app.rs).              *)
(***************************************************************************)
THEOREM TreeStaysRight == ExplorerSpec => []TreeIsRight
<1>1. ExplorerInit => TreeInv
  BY TreeBegins DEF ExplorerInit
<1>2. TreeInv /\ [ExplorerNext]_explorer => TreeInv'
  BY TreeSteps, StepKeepsTree
<1>3. TreeInv => TreeIsRight
  <2> SUFFICES ASSUME TreeInv PROVE TreeIsRight
    OBVIOUS
  <2>1. /\ seen \subseteq Ids
        /\ \A p \in Ids : nodes.subtree_bytes[p] = Saved(Below[p] \cap seen)
        /\ \A p \in Ids : /\ IsInjective(nodes.children[p])
                          /\ Range(nodes.children[p]) = {d \in seen : TreeParent[d] = p}
                          /\ SortedBy(nodes.children[p], nodes.subtree_bytes)
    BY DEF TreeInv, IsTreeOf, Grown
  <2>2. SizesAreRecursive
    BY <2>1 DEF SizesAreRecursive, Saved
  <2>3. ChildrenAreSorted
    BY <2>1 DEF ChildrenAreSorted, SortedBy
  <2> QED BY <2>2, <2>3 DEF TreeIsRight
<1> QED BY <1>1, <1>2, <1>3, PTL DEF ExplorerSpec

\* The trail of a directory has its parent, collapsed or not.
LEMMA CrumbsHaveParent ==
    ASSUME TreeInv, NEW d \in Ids, nodes.parent[d] # NO_PARENT
    PROVE  nodes.parent[d] \in Crumbs(d)
<1> DEFINE ch == Chain(nodes.parent, d)
           n == Len(ch)
<1>1. /\ ch \in Seq(Ids) /\ n \in Nat \ {0} /\ ch[1] = d
      /\ \A i \in 1 .. n - 1 : ch[i + 1] = nodes.parent[ch[i]]
      /\ nodes.parent[ch[n]] = NO_PARENT
  <2>1. Grown(nodes.parent, seen)
    BY DEF TreeInv, IsTreeOf
  <2>2. IsTrail(ch, nodes.parent, d)
    BY <2>1, ChainEnds
  <2> HIDE DEF ch
  <2> QED BY <2>2 DEF IsTrail
<1>2. n # 1 /\ TAIL \in Nat \ {0}
  BY <1>1, TrailAssumption
<1>3. Ancestors(d) = [i \in 1 .. n |-> ch[n - i + 1]]
  BY DEF Ancestors, Reverse
<1> HIDE DEF ch, n
<1>4. n - 1 \in 1 .. n /\ n - (n - 1) + 1 = 2 /\ 1 \in 1 .. n - 1 /\ 1 + 1 = 2 /\ n - 1 >= n - TAIL
  BY <1>1, <1>2
<1>5. ch[2] = nodes.parent[d]
  BY <1>1, <1>4
<1> DEFINE chain == Ancestors(d)
<1>6. DOMAIN chain = 1 .. n /\ chain[n - 1] = nodes.parent[d] /\ Len(chain) = n
  <2>1. DOMAIN chain = 1 .. n /\ chain[n - 1] = ch[2]
    BY <1>3, <1>4
  <2>2. Len(chain) = n
    BY <1>1, <1>3
  <2> QED BY <1>5, <2>1, <2>2
<1> HIDE DEF chain
<1>7. Crumbs(d) = {chain[k] : k \in {k \in DOMAIN chain : \/ ~ (Len(chain) > TAIL + 2)
                                                            \/ k = 1 \/ k >= Len(chain) - TAIL}}
  BY DEF Crumbs, chain
<1>8. n - 1 \in {k \in DOMAIN chain : \/ ~ (Len(chain) > TAIL + 2) \/ k = 1 \/ k >= Len(chain) - TAIL}
  BY <1>4, <1>6
<1> QED BY <1>6, <1>7, <1>8

(***************************************************************************)
(* However deep the focus and wherever the scan has got to, breadcrumbs    *)
(* lead to every directory above it and to no other (viz_toolbar of        *)
(* view.rs, ancestor_chain of app.rs).                                     *)
(***************************************************************************)
THEOREM WaysStayOpen == ExplorerSpec => []WaysLeadUp
<1>1. ExplorerInit => TreeInv
  BY TreeBegins DEF ExplorerInit
<1>2. TreeInv /\ [ExplorerNext]_explorer => TreeInv'
  BY TreeSteps, StepKeepsTree
<1>3. TreeInv => WaysLeadUp
  <2> SUFFICES ASSUME TreeInv PROVE WaysLeadUp
    OBVIOUS
  <2>1. \A d \in Ids : Crumbs(d) \subseteq Range(Ancestors(d))
    BY DEF Crumbs, Range
  <2>2. ASSUME NEW reached \in SUBSET Ids, \A d \in reached : Crumbs(d) \subseteq reached,
               NEW d \in reached
        PROVE  Range(Ancestors(d)) \subseteq reached
    <3> DEFINE ch == Chain(nodes.parent, d)
               n == Len(ch)
    <3>1. /\ ch \in Seq(Ids) /\ n \in Nat \ {0} /\ ch[1] = d
          /\ \A i \in 1 .. n - 1 : ch[i + 1] = nodes.parent[ch[i]] /\ nodes.parent[ch[i]] # NO_PARENT
      <4>1. Grown(nodes.parent, seen)
        BY DEF TreeInv, IsTreeOf
      <4>2. IsTrail(ch, nodes.parent, d)
        BY <4>1, ChainEnds
      <4> HIDE DEF ch
      <4> QED BY <4>2 DEF IsTrail
    <3>2. Ancestors(d) = [i \in 1 .. n |-> ch[n - i + 1]]
      BY DEF Ancestors, Reverse
    <3> HIDE DEF ch, n
    <3> DEFINE Open == {i \in Nat : i + 1 <= n => ch[i + 1] \in reached}
    <3>3. 0 \in Open
      BY <3>1
    <3>4. ASSUME NEW i \in Nat, i \in Open PROVE i + 1 \in Open
      <4> SUFFICES ASSUME (i + 1) + 1 <= n PROVE ch[(i + 1) + 1] \in reached
        OBVIOUS
      <4>1. i + 1 \in 1 .. n - 1 /\ i + 1 <= n
        BY <3>1
      <4> DEFINE e == ch[i + 1]
      <4>2. e \in reached /\ nodes.parent[e] # NO_PARENT /\ ch[(i + 1) + 1] = nodes.parent[e]
        BY <3>1, <3>4, <4>1
      <4> HIDE DEF e
      <4>3. nodes.parent[e] \in Crumbs(e)
        BY <4>2, CrumbsHaveParent
      <4> QED BY <2>2, <4>2, <4>3
    <3>5. Nat \subseteq Open
      <4> HIDE DEF Open
      <4> QED BY <3>3, <3>4, Induction
    <3>6. ASSUME NEW i \in 1 .. n PROVE ch[n - i + 1] \in reached
      <4>1. n - i \in Nat /\ (n - i) + 1 <= n
        BY <3>1
      <4> QED BY <3>5, <4>1
    <3> QED BY <3>2, <3>6 DEF Range
  <2> QED BY <2>1, <2>2 DEF WaysLeadUp
<1> QED BY <1>1, <1>2, <1>3, PTL DEF ExplorerSpec
=============================================================================
